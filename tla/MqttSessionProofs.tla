------------------------- MODULE MqttSessionProofs -------------------------
(***************************************************************************)
(* Proofs about MqttSession: the type invariant, its safety properties and *)
(* what holds of the sessions after the first, for any number of clients.  *)
(***************************************************************************)
EXTENDS MqttSession, SequenceTheorems, TLAPS

(***************************************************************************)
(* Lemmas about queues                                                     *)
(***************************************************************************)
\* Everything queued is "Online".
OnlyOnline(q) == \A i \in 1 .. Len(q) : q[i] = "Online"

LEMMA EnqueueType ==
    ASSUME NEW q \in Seq(Availability), NEW m \in Availability
    PROVE  /\ Enqueue(q, m) \in Seq(Availability)
           /\ OnlyOnline(q) /\ m = "Online" => OnlyOnline(Enqueue(q, m))
BY DEF Enqueue, OnlyOnline

LEMMA SendAgainType ==
    ASSUME NEW q \in Seq(Availability), NEW m \in Availability
    PROVE  SendAgain(m, q) \in Seq(Availability)
BY DEF SendAgain

LEMMA DequeueType ==
    ASSUME NEW q \in Seq(Availability), q # <<>>
    PROVE  /\ Head(q) \in Availability
           /\ Tail(q) \in Seq(Availability)
           /\ OnlyOnline(q) => Head(q) = "Online" /\ OnlyOnline(Tail(q))
<1>1. Len(q) >= 1
  BY EmptySeq
<1>. QED  BY <1>1, HeadTailProperties DEF OnlyOnline

-----------------------------------------------------------------------------
(***************************************************************************)
(* The type invariant                                                      *)
(***************************************************************************)
\* The client under construction exists when it is needed.
TimerTaskOK ==
    /\ timerTask = "init" => handle < MaxClients
    /\ timerTask = "start" => handle > 0
    /\ \A c \in Clients : phase[c] # "none" => c <= handle

\* TypeOK in the groups of variables that actions leave alone together.
NetTypes ==
    /\ onLine \in BOOLEAN
    /\ address \in BOOLEAN
    /\ eventTask \in {"idle", "startTimer", "setOnLine", "stopTimer", "testOnLine"}
TimerTypes == timer \in BOOLEAN /\ timerTask \in {"idle", "init", "start"}
ClientTypes ==
    /\ handle \in Nobody .. MaxClients
    /\ phase \in [Clients -> Phases]
    /\ outbox \in [Clients -> Seq(Availability)]
FlagTypes == publishedOnline \in BOOLEAN /\ discoveryPublished \in BOOLEAN
BrokerTypes ==
    /\ session \in Nobody .. Stale
    /\ seen \in Availability
    /\ retained \in Availability
    /\ discovery \in BOOLEAN
EnvTypes == path \in BOOLEAN /\ dropped \in BOOLEAN /\ expired \in BOOLEAN

Types == NetTypes /\ TimerTypes /\ ClientTypes /\ FlagTypes /\ BrokerTypes /\ EnvTypes

LEMMA TypesAreTypeOK == Types <=> TypeOK
BY DEF Types, TypeOK, NetTypes, TimerTypes, ClientTypes, FlagTypes, BrokerTypes, EnvTypes

Typed == Types /\ TimerTaskOK

LEMMA Unchanged ==
    ASSUME Types
    PROVE  /\ UNCHANGED netVars => NetTypes'
           /\ UNCHANGED timerVars => TimerTypes'
           /\ UNCHANGED clientVars => ClientTypes'
           /\ UNCHANGED flagVars => FlagTypes'
           /\ UNCHANGED brokerVars => BrokerTypes'
           /\ UNCHANGED envVars => EnvTypes'
<1>1. UNCHANGED netVars => NetTypes'
  BY DEF Types, NetTypes, netVars
<1>2. UNCHANGED timerVars => TimerTypes'
  BY DEF Types, TimerTypes, timerVars
<1>3. UNCHANGED clientVars => ClientTypes'
  BY DEF Types, ClientTypes, clientVars
<1>4. UNCHANGED flagVars => FlagTypes'
  BY DEF Types, FlagTypes, flagVars
<1>5. UNCHANGED brokerVars => BrokerTypes'
  BY DEF Types, BrokerTypes, brokerVars
<1>6. UNCHANGED envVars => EnvTypes'
  BY DEF Types, EnvTypes, envVars
<1>. QED  BY <1>1, <1>2, <1>3, <1>4, <1>5, <1>6

\* The device's end of the connection goes; or nothing happens to the broker.
LEMMA AbandonType ==
    ASSUME Types, session' \in {session, Stale, Abandoned}, dropped' \in BOOLEAN,
           path' \in BOOLEAN, expired' \in BOOLEAN, discovery' \in BOOLEAN,
           UNCHANGED <<seen, retained>>
    PROVE  BrokerTypes' /\ EnvTypes'
<1>1. session' \in Nobody .. Stale
  BY MaxClientsAssumption DEF Types, BrokerTypes, Abandoned, Nobody, Stale
<1>. QED  BY <1>1 DEF Types, BrokerTypes, EnvTypes

LEMMA PublishType ==
    ASSUME Types, NEW c \in Clients, NEW m \in Availability, PublishQos1(c, m)
    PROVE  /\ outbox' \in [Clients -> Seq(Availability)]
           /\ seen' \in Availability
           /\ retained' \in Availability
<1>. USE DEF Types, ClientTypes, BrokerTypes
<1>1. CASE Live(c)
  BY <1>1 DEF PublishQos1, Receive, Retain
<1>2. CASE ~Live(c)
  <2>1. Enqueue(outbox[c], m) \in Seq(Availability)
    BY EnqueueType
  <2>. QED  BY <1>2, <2>1 DEF PublishQos1
<1>. QED  BY <1>1, <1>2

LEMMA TypesInit ==
    ASSUME Init
    PROVE  Types
<1>1. NetTypes /\ TimerTypes /\ FlagTypes /\ EnvTypes
  BY DEF Init, NetTypes, TimerTypes, FlagTypes, EnvTypes
<1>2. handle \in Nobody .. MaxClients /\ session \in Nobody .. Stale
  BY MaxClientsAssumption DEF Init, Nobody, Stale
<1>3. phase \in [Clients -> Phases] /\ outbox \in [Clients -> Seq(Availability)]
  BY DEF Init, Phases
<1>4. seen \in Availability /\ retained \in Availability /\ discovery \in BOOLEAN
  BY DEF Init, Availability
<1>. QED  BY <1>1, <1>2, <1>3, <1>4 DEF Types, ClientTypes, BrokerTypes

LEMMA TypesStep ==
    ASSUME Typed, [Next]_vars
    PROVE  Types'
<1>. USE Unchanged DEF Typed
<1>0. Types
  OBVIOUS
<1>1. CASE GetAddress \/ EventTaskStep
  <2>1. NetTypes'
    BY <1>0, <1>1 DEF GetAddress, EventTaskStep, StartTimer, SetOnLine, StopTimer, SetOffLine,
       Types, NetTypes
  <2>2. TimerTypes'
    BY <1>0, <1>1 DEF GetAddress, EventTaskStep, StartTimer, SetOnLine, StopTimer, SetOffLine,
       Types, TimerTypes, timerVars
  <2>. QED  BY <1>0, <1>1, <2>1, <2>2 DEF GetAddress, EventTaskStep, StartTimer, SetOnLine,
            StopTimer, SetOffLine, Types
<1>2. CASE LoseAddress
  <2>1. NetTypes'
    BY <1>0, <1>2 DEF LoseAddress, Types, NetTypes
  <2>2. BrokerTypes' /\ EnvTypes'
    BY <1>0, <1>2, AbandonType DEF LoseAddress, Types, BrokerTypes, EnvTypes
  <2>. QED  BY <1>0, <1>2, <2>1, <2>2 DEF LoseAddress, Types
<1>3. CASE TimerFires
  BY <1>0, <1>3 DEF TimerFires, Types, TimerTypes
<1>4. CASE InitClient \/ StartClient
  <2>1. ClientTypes' /\ TimerTypes'
    BY <1>0, <1>4, MaxClientsAssumption DEF InitClient, StartClient, Types, TimerTaskOK,
       ClientTypes, TimerTypes, Phases, Clients, Nobody
  <2>. QED  BY <1>0, <1>4, <2>1 DEF InitClient, StartClient, Types
<1>5. ASSUME NEW c \in Clients, OnMqttConnect(c) PROVE Types'
  <2>1. ClientTypes' /\ FlagTypes'
    BY <1>0, <1>5 DEF OnMqttConnect, Types, ClientTypes, FlagTypes, Phases
  <2>2. BrokerTypes'
    BY <1>0, <1>5 DEF OnMqttConnect, Types, BrokerTypes
  <2>. QED  BY <1>0, <1>5, <2>1, <2>2 DEF OnMqttConnect, Types
<1>6. ASSUME NEW c \in Clients, Greet(c) PROVE Types'
  <2>1. /\ outbox' \in [Clients -> Seq(Availability)]
        /\ seen' \in Availability
        /\ retained' \in Availability
    BY <1>0, <1>6, PublishType DEF Greet, Availability
  <2>2. ClientTypes' /\ BrokerTypes'
    BY <1>0, <1>6, <2>1 DEF Greet, Types, ClientTypes, BrokerTypes, Phases
  <2>. QED  BY <1>0, <1>6, <2>2 DEF Greet, Types
<1>7. ASSUME NEW c \in Clients, OnMqttDisconnected(c) \/ RestartTimer(c) PROVE Types'
  <2>1. ClientTypes' /\ TimerTypes'
    BY <1>0, <1>7 DEF OnMqttDisconnected, RestartTimer, Types, ClientTypes, TimerTypes, Phases,
       timerVars
  <2>. QED  BY <1>0, <1>7, <2>1 DEF OnMqttDisconnected, RestartTimer, Types
<1>8. ASSUME NEW c \in Clients, Connect(c) \/ ConnectUnanswered(c) PROVE Types'
  <2>1. \E connection \in {c, Stale} : Accept(c, connection)
    BY <1>8 DEF Connect, ConnectUnanswered
  <2>2. session' \in Nobody .. Stale
    BY <2>1, MaxClientsAssumption DEF Accept, Clients, Nobody, Stale
  <2>3. BrokerTypes' /\ EnvTypes'
    BY <1>0, <2>1, <2>2 DEF Accept, PublishWill, Availability, Types, BrokerTypes, EnvTypes
  <2>4. ClientTypes'
    BY <1>0, <1>8 DEF Connect, ConnectUnanswered, Accept, Types, ClientTypes, Phases
  <2>. QED  BY <1>0, <2>1, <2>3, <2>4 DEF Accept, Types
<1>9. ASSUME NEW c \in Clients, Deliver(c) PROVE Types'
  <2>1. Head(outbox[c]) \in Availability /\ Tail(outbox[c]) \in Seq(Availability)
    BY <1>0, <1>9, DequeueType DEF Types, ClientTypes, Deliver
  <2>2. BrokerTypes'
    BY <1>0, <1>9, <2>1 DEF Deliver, Receive, Retain, Types, BrokerTypes
  <2>3. ClientTypes'
    BY <1>0, <1>9, <2>1 DEF Deliver, Types, ClientTypes
  <2>. QED  BY <1>0, <1>9, <2>2, <2>3 DEF Deliver, Types
<1>10. ASSUME NEW c \in Clients, Lose(c) PROVE Types'
  <2>1. SendAgain(seen, outbox[c]) \in Seq(Availability)
    BY <1>0, SendAgainType DEF Types, ClientTypes, BrokerTypes
  <2>2. ClientTypes'
    BY <1>0, <1>10, <2>1 DEF Lose, Types, ClientTypes, Phases
  <2>3. BrokerTypes' /\ EnvTypes'
    BY <1>0, <1>10, AbandonType DEF Lose, Types, BrokerTypes, EnvTypes
  <2>. QED  BY <1>0, <1>10, <2>2, <2>3 DEF Lose, Types
<1>11. CASE Process
  <2>1. /\ publishedOnline' \in BOOLEAN
        /\ outbox' \in [Clients -> Seq(Availability)]
        /\ seen' \in Availability
        /\ retained' \in Availability
    <3>1. CASE ~publishedOnline /\ handle # Nobody
      <4>1. handle \in Clients
        BY <1>0, <3>1, MaxClientsAssumption DEF Types, ClientTypes, Nobody, Clients
      <4>2. publishedOnline' = TRUE /\ PublishQos1(handle, "Online")
        BY <1>11, <3>1 DEF Process, PublishOnline
      <4>. QED  BY <1>0, <4>1, <4>2, PublishType DEF Availability
    <3>2. CASE ~(~publishedOnline /\ handle # Nobody)
      BY <1>0, <1>11, <3>2 DEF Process, PublishOnline, Types, ClientTypes, FlagTypes, BrokerTypes
    <3>. QED  BY <3>1, <3>2
  <2>2. ClientTypes' /\ FlagTypes' /\ BrokerTypes'
    BY <1>0, <1>11, <2>1 DEF Process, Types, ClientTypes, FlagTypes, BrokerTypes
  <2>. QED  BY <1>0, <1>11, <2>2 DEF Process, Types
<1>12. CASE BrokerDrops
  <2>1. BrokerTypes'
    BY <1>0, <1>12, MaxClientsAssumption DEF BrokerDrops, PublishWill, Availability, Nobody, Stale,
       Types, BrokerTypes
  <2>. QED  BY <1>0, <1>12, <2>1 DEF BrokerDrops, Types
<1>13. CASE PathFails \/ PathReturns
  <2>1. BrokerTypes' /\ EnvTypes'
    BY <1>0, <1>13, AbandonType DEF PathFails, PathReturns, Types, BrokerTypes, EnvTypes,
       brokerVars
  <2>. QED  BY <1>0, <1>13, <2>1 DEF PathFails, PathReturns, Types
<1>14. CASE Restart
  <2>1. NetTypes' /\ TimerTypes' /\ FlagTypes'
    BY <1>14 DEF Restart, NetTypes, TimerTypes, FlagTypes
  <2>2. ClientTypes'
    BY <1>14, MaxClientsAssumption DEF Restart, ClientTypes, Phases, Nobody
  <2>3. BrokerTypes' /\ EnvTypes'
    BY <1>0, <1>14, AbandonType DEF Restart, Types, BrokerTypes, EnvTypes
  <2>. QED  BY <2>1, <2>2, <2>3 DEF Types
<1>15. CASE UNCHANGED vars
  BY <1>0, <1>15 DEF vars, Types
<1>16. ASSUME NEW c \in Clients, Expire(c) PROVE Types'
  <2>1. Tail(outbox[c]) \in Seq(Availability)
    BY <1>0, <1>16, DequeueType DEF Types, ClientTypes, Expire
  <2>2. ClientTypes' /\ EnvTypes'
    BY <1>0, <1>16, <2>1 DEF Expire, Types, ClientTypes, EnvTypes
  <2>. QED  BY <1>0, <1>16, <2>2 DEF Expire, Types
<1>. QED
  BY <1>1, <1>2, <1>3, <1>4, <1>5, <1>6, <1>7, <1>8, <1>9, <1>10, <1>11, <1>12, <1>13, <1>14,
     <1>15, <1>16 DEF Next, Handler

LEMMA TimerTaskStep ==
    ASSUME Typed, [Next]_vars
    PROVE  TimerTaskOK'
<1>. USE MaxClientsAssumption DEF Typed, Types, ClientTypes, TimerTypes, Clients, Nobody
<1>1. CASE UNCHANGED <<timerTask, handle, phase>>
  BY <1>1 DEF TimerTaskOK
<1>2. CASE TimerFires
  BY <1>2 DEF TimerTaskOK, TimerFires, clientVars
<1>3. CASE InitClient
  BY <1>3 DEF TimerTaskOK, InitClient
<1>4. CASE StartClient
  BY <1>4 DEF TimerTaskOK, StartClient
<1>5. ASSUME NEW c \in Clients, NEW p \in Phases, phase[c] # "none",
             phase' = [phase EXCEPT ![c] = p], UNCHANGED <<timerTask, handle>>
      PROVE  TimerTaskOK'
  BY <1>5 DEF TimerTaskOK
<1>6. ASSUME NEW c \in Clients, Handler(c) \/ Connect(c) \/ Lose(c)
      PROVE  TimerTaskOK'
  BY <1>5, <1>6 DEF Handler, OnMqttConnect, Greet, OnMqttDisconnected, RestartTimer, Connect, Accept,
     Lose, timerVars, Phases
<1>7. CASE Restart
  BY <1>7 DEF TimerTaskOK, Restart
<1>8. ASSUME NEW c \in Clients, ConnectUnanswered(c) \/ Deliver(c) \/ Expire(c)
      PROVE  TimerTaskOK'
  BY <1>1, <1>8 DEF ConnectUnanswered, Accept, Deliver, Expire, timerVars
<1>9. CASE \/ GetAddress \/ LoseAddress \/ EventTaskStep \/ Process \/ BrokerDrops
           \/ PathFails \/ PathReturns \/ UNCHANGED vars
  BY <1>1, <1>9 DEF GetAddress, LoseAddress, EventTaskStep, StartTimer, SetOnLine, StopTimer,
     SetOffLine, Process, BrokerDrops, PathFails, PathReturns, vars, timerVars, clientVars
<1>. QED  BY <1>2, <1>3, <1>4, <1>6, <1>7, <1>8, <1>9 DEF Next

LEMMA TypedInit ==
    ASSUME Init
    PROVE  Typed
BY TypesInit DEF Init, Typed, TimerTaskOK

LEMMA TypedStep ==
    ASSUME Typed, [Next]_vars
    PROVE  Typed'
BY TypesStep, TimerTaskStep DEF Typed

\* Every variable keeps its type, for any number of clients.
THEOREM TypeCorrect == Spec => []TypeOK
<1>1. Spec => []Typed
  BY TypedInit, TypedStep, PTL DEF Spec
<1>2. Typed => TypeOK
  BY TypesAreTypeOK DEF Typed
<1>. QED  BY <1>1, <1>2, PTL

-----------------------------------------------------------------------------
(***************************************************************************)
(* The session.  While no connection of the boot was lost there is at most *)
(* one, the broker agrees with the client about it, and what waits to be   *)
(* sent can only be "Online".                                              *)
(***************************************************************************)
Undisturbed(c) ==
    /\ phase[c] \in {"subscribing", "greeting", "connected"} => session = c
    /\ phase[c] \in {"subscribing", "greeting"} => retained = "Offline"
    /\ phase[c] \notin {"lost", "restarting"}
    /\ OnlyOnline(outbox[c])

SessionInv ==
    /\ OnlineMeansSession
    /\ ~dropped => \A c \in Clients : Undisturbed(c)
    /\ FirstSessionStaysAvailable
    /\ DiscoveryReachesBroker

LEMMA SessionInit ==
    ASSUME Init
    PROVE  SessionInv
BY DEF Init, SessionInv, OnlineMeansSession, Undisturbed, OnlyOnline, FirstSessionStaysAvailable,
   DiscoveryReachesBroker

\* An action that leaves alone what SessionInv is about.
LEMMA SessionUnchanged ==
    ASSUME SessionInv,
           UNCHANGED <<handle, phase, outbox, discoveryPublished, brokerVars, dropped>>
    PROVE  SessionInv'
BY DEF SessionInv, OnlineMeansSession, Undisturbed, FirstSessionStaysAvailable,
   DiscoveryReachesBroker, Live, brokerVars

\* The device's end of the connection goes.
LEMMA SessionAbandoned ==
    ASSUME SessionInv, session' = Abandoned, dropped' = (dropped \/ session \in Clients),
           UNCHANGED <<handle, phase, outbox, discoveryPublished, seen, retained, discovery>>
    PROVE  SessionInv'
<1>1. session' \notin Clients /\ (session # Nobody => session' # Nobody)
  BY MaxClientsAssumption DEF Abandoned, Clients, Nobody, Stale
<1>2. OnlineMeansSession'
  BY <1>1 DEF SessionInv, OnlineMeansSession, Nobody
<1>3. (~dropped => \A c \in Clients : Undisturbed(c))'
  BY DEF SessionInv, Undisturbed
<1>4. FirstSessionStaysAvailable'
  BY <1>1 DEF FirstSessionStaysAvailable, Live
<1>5. DiscoveryReachesBroker'
  BY DEF SessionInv, DiscoveryReachesBroker
<1>. QED  BY <1>2, <1>3, <1>4, <1>5 DEF SessionInv

\* A client that is not connected goes from one phase to another.
LEMMA SessionIdlePhase ==
    ASSUME Typed, SessionInv, NEW c \in Clients, NEW p \in {"created", "connecting"},
           phase' = [phase EXCEPT ![c] = p], handle > 1 => handle' > 1,
           UNCHANGED <<outbox, discoveryPublished, brokerVars, dropped>>
    PROVE  SessionInv'
<1>1. OnlineMeansSession'
  BY DEF SessionInv, OnlineMeansSession, brokerVars, Nobody
<1>2. (~dropped => \A d \in Clients : Undisturbed(d))'
  BY DEF SessionInv, Undisturbed, brokerVars, Typed, Types, ClientTypes
<1>3. FirstSessionStaysAvailable'
  BY DEF SessionInv, FirstSessionStaysAvailable, Live, brokerVars
<1>4. DiscoveryReachesBroker'
  BY DEF SessionInv, DiscoveryReachesBroker, brokerVars
<1>. QED  BY <1>1, <1>2, <1>3, <1>4 DEF SessionInv

LEMMA SessionAccept ==
    ASSUME Typed, SessionInv, NEW c \in Clients, NEW connection \in {c, Stale},
           Accept(c, connection), phase' \in {phase, [phase EXCEPT ![c] = "subscribing"]},
           connection = Stale => phase' = phase
    PROVE  SessionInv'
<1>. USE MaxClientsAssumption
<1>1. seen' = "Offline" /\ retained' = "Offline"
  BY DEF Accept, PublishWill, SessionInv, OnlineMeansSession, Typed, Types, BrokerTypes, Availability
<1>2. OnlineMeansSession' /\ FirstSessionStaysAvailable'
  BY <1>1 DEF OnlineMeansSession, FirstSessionStaysAvailable
<1>3. ASSUME ~dropped', NEW d \in Clients
      PROVE  Undisturbed(d)'
  <2>1. ~dropped /\ session \notin Clients /\ session' = connection /\ outbox' = outbox
    BY <1>3 DEF Accept
  <2>2. phase[d] \notin {"subscribing", "greeting", "connected", "lost", "restarting"}
    BY <2>1 DEF SessionInv, Undisturbed
  <2>3. OnlyOnline(outbox[d])
    BY <2>1 DEF SessionInv, Undisturbed
  <2>4. phase'[d] = phase[d] \/ (phase'[d] = "subscribing" /\ d = c /\ connection = c)
    BY DEF Typed, Types, ClientTypes, Clients, Stale
  <2>. QED  BY <1>1, <2>1, <2>2, <2>3, <2>4 DEF Undisturbed
<1>4. DiscoveryReachesBroker'
  BY DEF Accept, SessionInv, DiscoveryReachesBroker, flagVars
<1>. QED  BY <1>2, <1>3, <1>4 DEF SessionInv

LEMMA SessionProcess ==
    ASSUME Typed, SessionInv, Process
    PROVE  SessionInv'
<1>1. CASE ~(~publishedOnline /\ handle # Nobody)
  BY <1>1, SessionUnchanged DEF Process, PublishOnline, brokerVars, envVars
<1>2. CASE ~publishedOnline /\ handle # Nobody
  <2>1. handle \in Clients /\ PublishQos1(handle, "Online")
    BY <1>2, MaxClientsAssumption DEF Process, PublishOnline, Typed, Types, ClientTypes, Clients, Nobody
  <2>2. UNCHANGED <<session, dropped, phase, handle, discoveryPublished, discovery>>
    BY DEF Process, envVars
  <2>3. CASE Live(handle)
    <3>1. seen' = "Online" /\ retained' = "Online" /\ outbox' = outbox /\ session = handle
      BY <2>1, <2>3 DEF PublishQos1, Receive, Retain, Live
    <3>2. OnlineMeansSession' /\ FirstSessionStaysAvailable'
      BY <1>2, <2>2, <3>1 DEF OnlineMeansSession, FirstSessionStaysAvailable
    <3>3. ASSUME ~dropped', NEW d \in Clients
          PROVE  Undisturbed(d)'
      <4>1. Undisturbed(d) /\ phase[handle] \notin InHandler
        BY <1>2, <2>2, <3>3 DEF SessionInv, Process
      <4>2. phase[d] \notin {"subscribing", "greeting"}
        BY <3>1, <4>1 DEF Undisturbed, InHandler
      <4>. QED  BY <2>2, <3>1, <4>1, <4>2 DEF Undisturbed
    <3>4. DiscoveryReachesBroker'
      BY <2>2 DEF SessionInv, DiscoveryReachesBroker
    <3>. QED  BY <3>2, <3>3, <3>4 DEF SessionInv
  <2>4. CASE ~Live(handle)
    <3>1. /\ outbox' = [outbox EXCEPT ![handle] = Enqueue(@, "Online")]
          /\ UNCHANGED <<seen, retained>>
      BY <2>1, <2>4 DEF PublishQos1
    <3>2. OnlineMeansSession' /\ FirstSessionStaysAvailable' /\ DiscoveryReachesBroker'
      BY <2>2, <3>1 DEF SessionInv, OnlineMeansSession, FirstSessionStaysAvailable, Live, Nobody,
         DiscoveryReachesBroker
    <3>3. ASSUME ~dropped', NEW d \in Clients
          PROVE  Undisturbed(d)'
      <4>1. Undisturbed(d) /\ outbox[d] \in Seq(Availability)
        BY <2>2, <3>3 DEF SessionInv, Typed, Types, ClientTypes
      <4>2. OnlyOnline(Enqueue(outbox[d], "Online"))
        BY <4>1, EnqueueType DEF Undisturbed, Availability
      <4>3. OnlyOnline(outbox'[d])
        BY <3>1, <4>1, <4>2 DEF Undisturbed, Typed, Types, ClientTypes
      <4>. QED  BY <2>2, <3>1, <4>1, <4>3 DEF Undisturbed
    <3>. QED  BY <3>2, <3>3 DEF SessionInv
  <2>. QED  BY <2>3, <2>4
<1>. QED  BY <1>1, <1>2

LEMMA SessionOnMqttConnect ==
    ASSUME Typed, SessionInv, NEW c \in Clients, OnMqttConnect(c)
    PROVE  SessionInv'
<1>1. /\ UNCHANGED <<handle, outbox, session, seen, retained, dropped>>
      /\ phase[c] = "subscribing"
      /\ phase' = [phase EXCEPT ![c] = "greeting"]
  BY DEF OnMqttConnect, envVars
<1>2. OnlineMeansSession' /\ FirstSessionStaysAvailable'
  BY <1>1 DEF SessionInv, OnlineMeansSession, FirstSessionStaysAvailable, Live, Nobody
<1>3. (~dropped => \A d \in Clients : Undisturbed(d))'
  BY <1>1 DEF SessionInv, Undisturbed, Typed, Types, ClientTypes
<1>4. ASSUME ~dropped', ~(handle' > 1)
      PROVE  discovery'
  <2>1. session = c
    BY <1>1, <1>4 DEF SessionInv, Undisturbed
  <2>2. c <= handle /\ handle \in Nat /\ c \in Nat /\ c >= 1
    BY <1>1, MaxClientsAssumption DEF Typed, TimerTaskOK, Types, ClientTypes, Clients, Nobody
  <2>3. handle = c
    BY <1>1, <1>4, <2>2
  <2>4. Live(handle)
    BY <2>1, <2>3 DEF Live
  <2>. QED  BY <1>1, <1>4, <2>4 DEF OnMqttConnect, SessionInv, DiscoveryReachesBroker
<1>5. DiscoveryReachesBroker'
  BY <1>4 DEF DiscoveryReachesBroker
<1>. QED  BY <1>2, <1>3, <1>5 DEF SessionInv

LEMMA SessionGreet ==
    ASSUME Typed, SessionInv, NEW c \in Clients, Greet(c)
    PROVE  SessionInv'
<1>1. /\ UNCHANGED <<handle, session, discoveryPublished, discovery, dropped>>
      /\ phase[c] = "greeting"
      /\ phase' = [phase EXCEPT ![c] = "connected"]
      /\ PublishQos1(c, "Offline")
  BY DEF Greet, flagVars, envVars
<1>2. retained' = retained /\ (seen' = "Offline" \/ seen' = seen)
  BY <1>1 DEF PublishQos1, Receive, Retain
<1>3. OnlineMeansSession'
  BY <1>1, <1>2 DEF SessionInv, OnlineMeansSession, Nobody
<1>4. ASSUME ~dropped
      PROVE  retained' = "Offline" /\ outbox' = outbox
  BY <1>1, <1>4 DEF SessionInv, Undisturbed, PublishQos1, Live, Receive, Retain
<1>5. FirstSessionStaysAvailable'
  BY <1>1, <1>4 DEF FirstSessionStaysAvailable
<1>6. (~dropped => \A d \in Clients : Undisturbed(d))'
  BY <1>1, <1>4 DEF SessionInv, Undisturbed, Typed, Types, ClientTypes
<1>7. DiscoveryReachesBroker'
  BY <1>1 DEF SessionInv, DiscoveryReachesBroker
<1>. QED  BY <1>3, <1>5, <1>6, <1>7 DEF SessionInv

LEMMA SessionDeliver ==
    ASSUME Typed, SessionInv, NEW c \in Clients, Deliver(c)
    PROVE  SessionInv'
<1>1. /\ UNCHANGED <<handle, phase, session, discoveryPublished, discovery, dropped>>
      /\ phase[c] = "connected" /\ session = c
      /\ outbox[c] # <<>> /\ outbox[c] \in Seq(Availability)
      /\ outbox' = [outbox EXCEPT ![c] = Tail(@)]
      /\ Receive(Head(outbox[c]))
  BY DEF Deliver, Live, flagVars, envVars, Typed, Types, ClientTypes
<1>2. OnlineMeansSession'
  BY <1>1, MaxClientsAssumption DEF OnlineMeansSession, Clients, Nobody
<1>3. ASSUME ~dropped
      PROVE  seen' = "Online" /\ \A d \in Clients : Undisturbed(d)'
  <2>1. \A d \in Clients : Undisturbed(d)
    BY <1>3 DEF SessionInv
  <2>2. Head(outbox[c]) = "Online" /\ OnlyOnline(Tail(outbox[c]))
    BY <1>1, <2>1, DequeueType DEF Undisturbed
  <2>3. \A d \in Clients : phase[d] \notin {"subscribing", "greeting"}
    BY <1>1, <2>1 DEF Undisturbed
  <2>4. \A d \in Clients : OnlyOnline(outbox'[d])
    BY <1>1, <2>1, <2>2 DEF Undisturbed, Typed, Types, ClientTypes
  <2>. QED  BY <1>1, <2>1, <2>2, <2>3, <2>4 DEF Undisturbed, Receive
<1>4. FirstSessionStaysAvailable' /\ DiscoveryReachesBroker'
  BY <1>1, <1>3 DEF SessionInv, FirstSessionStaysAvailable, DiscoveryReachesBroker
<1>. QED  BY <1>1, <1>2, <1>3, <1>4 DEF SessionInv

\* What expires was "Online", and so is the rest of the queue.
LEMMA SessionExpire ==
    ASSUME Typed, SessionInv, NEW c \in Clients, Expire(c)
    PROVE  SessionInv'
<1>1. /\ UNCHANGED <<handle, phase, brokerVars, discoveryPublished, dropped>>
      /\ outbox[c] # <<>> /\ outbox[c] \in Seq(Availability)
      /\ outbox' = [outbox EXCEPT ![c] = Tail(@)]
  BY DEF Expire, flagVars, Typed, Types, ClientTypes
<1>2. ASSUME ~dropped, NEW d \in Clients
      PROVE  Undisturbed(d)'
  <2>1. Undisturbed(c) /\ Undisturbed(d)
    BY <1>2 DEF SessionInv
  <2>2. OnlyOnline(Tail(outbox[c]))
    BY <1>1, <2>1, DequeueType DEF Undisturbed
  <2>3. OnlyOnline(outbox'[d])
    BY <1>1, <2>1, <2>2 DEF Undisturbed, Typed, Types, ClientTypes
  <2>. QED  BY <1>1, <2>1, <2>3 DEF Undisturbed, brokerVars
<1>3. OnlineMeansSession' /\ FirstSessionStaysAvailable' /\ DiscoveryReachesBroker'
  BY <1>1 DEF SessionInv, OnlineMeansSession, FirstSessionStaysAvailable, Live,
     DiscoveryReachesBroker, brokerVars, Nobody
<1>. QED  BY <1>1, <1>2, <1>3 DEF SessionInv

LEMMA SessionLose ==
    ASSUME Typed, SessionInv, NEW c \in Clients, Lose(c)
    PROVE  SessionInv'
<1>1. dropped' /\ UNCHANGED <<seen, retained>> /\ session' \in {session, Stale}
  BY DEF Lose
<1>2. OnlineMeansSession'
  BY <1>1, MaxClientsAssumption DEF SessionInv, OnlineMeansSession, Nobody, Stale
<1>. QED  BY <1>1, <1>2 DEF SessionInv, FirstSessionStaysAvailable, DiscoveryReachesBroker

\* Only a lost connection is told of.
LEMMA SessionDisconnected ==
    ASSUME Typed, SessionInv, NEW c \in Clients, OnMqttDisconnected(c) \/ RestartTimer(c)
    PROVE  SessionInv'
<1>1. /\ UNCHANGED <<handle, outbox, discoveryPublished, brokerVars, dropped>>
      /\ phase[c] \in {"lost", "restarting"}
  BY DEF OnMqttDisconnected, RestartTimer, flagVars, envVars
<1>2. dropped
  BY <1>1 DEF SessionInv, Undisturbed
<1>. QED  BY <1>1, <1>2 DEF SessionInv, OnlineMeansSession, FirstSessionStaysAvailable,
          DiscoveryReachesBroker, brokerVars, Nobody

LEMMA SessionStep ==
    ASSUME Typed, SessionInv, [Next]_vars
    PROVE  SessionInv'
<1>1. CASE \/ GetAddress \/ EventTaskStep \/ TimerFires \/ PathReturns \/ UNCHANGED vars
  BY <1>1, SessionUnchanged DEF GetAddress, EventTaskStep, StartTimer, SetOnLine, StopTimer,
     SetOffLine, TimerFires, PathReturns, vars, clientVars, flagVars, envVars
<1>2. CASE LoseAddress \/ PathFails
  BY <1>2, SessionAbandoned DEF LoseAddress, PathFails, clientVars, flagVars
<1>3. CASE InitClient
  <2>1. handle + 1 \in Clients /\ (handle > 1 => handle' > 1)
    BY <1>3, MaxClientsAssumption DEF InitClient, Typed, TimerTaskOK, Types, ClientTypes, Clients, Nobody
  <2>. QED  BY <1>3, <2>1, SessionIdlePhase DEF InitClient, flagVars, envVars
<1>4. CASE StartClient
  <2>1. handle \in Clients /\ (handle > 1 => handle' > 1)
    BY <1>4, MaxClientsAssumption DEF StartClient, Typed, TimerTaskOK, Types, ClientTypes, Clients, Nobody
  <2>. QED  BY <1>4, <2>1, SessionIdlePhase DEF StartClient, flagVars, envVars
<1>5. ASSUME NEW c \in Clients, Handler(c)
      PROVE  SessionInv'
  BY <1>5, SessionOnMqttConnect, SessionGreet, SessionDisconnected DEF Handler
<1>6. ASSUME NEW c \in Clients, Connect(c) \/ ConnectUnanswered(c)
      PROVE  SessionInv'
  <2>1. c # Stale
    BY MaxClientsAssumption DEF Clients, Stale
  <2>. QED  BY <1>6, <2>1, SessionAccept DEF Connect, ConnectUnanswered
<1>7. ASSUME NEW c \in Clients, Deliver(c) \/ Expire(c) \/ Lose(c)
      PROVE  SessionInv'
  BY <1>7, SessionDeliver, SessionExpire, SessionLose
<1>8. CASE Process
  BY <1>8, SessionProcess
<1>9. CASE BrokerDrops
  <2>1. /\ UNCHANGED <<handle, phase, outbox, discoveryPublished, discovery, dropped>>
        /\ session = Stale /\ session' = Nobody /\ seen' = "Offline" /\ retained' = "Offline"
    BY <1>9 DEF BrokerDrops, PublishWill, clientVars, flagVars, envVars
  <2>2. Stale \notin Clients
    BY MaxClientsAssumption DEF Stale, Clients
  <2>. QED  BY <2>1, <2>2 DEF SessionInv, OnlineMeansSession, Undisturbed, FirstSessionStaysAvailable,
            DiscoveryReachesBroker
<1>10. CASE Restart
  <2>1. /\ \A c \in Clients : phase'[c] = "none" /\ outbox'[c] = <<>>
        /\ ~discoveryPublished' /\ session' = Abandoned /\ UNCHANGED <<seen, retained>>
    BY <1>10 DEF Restart
  <2>2. session' \notin Clients /\ (session # Nobody => session' # Nobody)
    BY <2>1, MaxClientsAssumption DEF Abandoned, Clients, Nobody, Stale
  <2>3. OnlineMeansSession' /\ FirstSessionStaysAvailable' /\ DiscoveryReachesBroker'
    BY <2>1, <2>2 DEF SessionInv, OnlineMeansSession, FirstSessionStaysAvailable, Live, Nobody,
       DiscoveryReachesBroker
  <2>4. \A c \in Clients : Undisturbed(c)'
    BY <2>1 DEF Undisturbed, OnlyOnline
  <2>. QED  BY <2>3, <2>4 DEF SessionInv
<1>. QED
  BY <1>1, <1>2, <1>3, <1>4, <1>5, <1>6, <1>7, <1>8, <1>9, <1>10 DEF Next

LEMMA SessionCorrect == Spec => []SessionInv
BY TypedInit, TypedStep, SessionInit, SessionStep, PTL DEF Spec

\* Whatever clients, connections and restarts there were, nobody goes on seeing
\* "Online" of a device without a connection.
THEOREM OnlineNeedsSession == Spec => []OnlineMeansSession
<1>1. SessionInv => OnlineMeansSession
  BY DEF SessionInv
<1>. QED  BY <1>1, SessionCorrect, PTL

\* The discovery message is only missed after a second client or a lost connection.
THEOREM DiscoveryArrives == Spec => []DiscoveryReachesBroker
<1>1. SessionInv => DiscoveryReachesBroker
  BY DEF SessionInv
<1>. QED  BY <1>1, SessionCorrect, PTL

\* In the first connection of a boot no "Offline" follows an "Online".
THEOREM AvailabilityStays == Spec => []FirstSessionStaysAvailable
<1>1. SessionInv => FirstSessionStaysAvailable
  BY DEF SessionInv
<1>. QED  BY <1>1, SessionCorrect, PTL
-----------------------------------------------------------------------------
(***************************************************************************)
(* The sessions after the first.  _publishedOnline (IOT.cpp:797) is never  *)
(* cleared, so a will that follows the "Online" of a boot is final.        *)
(***************************************************************************)
\* Nothing says "Online" any more, and nothing that is queued will.
SaidOffline ==
    /\ publishedOnline
    /\ seen = "Offline" /\ retained = "Offline"
    /\ \A c \in Clients : \A i \in 1 .. Len(outbox[c]) : outbox[c][i] = "Offline"

\* A queue of "Offline" stays one.
LEMMA OfflineQueue ==
    ASSUME NEW q \in Seq(Availability), \A i \in 1 .. Len(q) : q[i] = "Offline"
    PROVE  /\ \A i \in 1 .. Len(Enqueue(q, "Offline")) : Enqueue(q, "Offline")[i] = "Offline"
           /\ \A i \in 1 .. Len(SendAgain("Offline", q)) : SendAgain("Offline", q)[i] = "Offline"
           /\ q # <<>> => Head(q) = "Offline" /\ \A i \in 1 .. Len(Tail(q)) : Tail(q)[i] = "Offline"
<1>1. \A i \in 1 .. Len(Enqueue(q, "Offline")) : Enqueue(q, "Offline")[i] = "Offline"
  BY DEF Enqueue, Availability
<1>2. \A i \in 1 .. Len(SendAgain("Offline", q)) : SendAgain("Offline", q)[i] = "Offline"
  BY DEF SendAgain, Availability
<1>3. q # <<>> => Head(q) = "Offline" /\ \A i \in 1 .. Len(Tail(q)) : Tail(q)[i] = "Offline"
  <2>. SUFFICES ASSUME q # <<>>
                PROVE  Head(q) = "Offline" /\ \A i \in 1 .. Len(Tail(q)) : Tail(q)[i] = "Offline"
    OBVIOUS
  <2>1. Len(q) >= 1
    BY EmptySeq
  <2>. QED  BY <2>1, HeadTailProperties
<1>. QED  BY <1>1, <1>2, <1>3

\* One queue changes as a queue of "Offline" does, and no other message arrives.
LEMMA OfflineKept ==
    ASSUME Typed, SaidOffline, NEW c \in Clients, publishedOnline' = publishedOnline,
           seen' = "Offline", retained' = "Offline",
           \/ outbox' = outbox
           \/ outbox' = [outbox EXCEPT ![c] = Enqueue(@, "Offline")]
           \/ outbox' = [outbox EXCEPT ![c] = SendAgain("Offline", @)]
           \/ outbox[c] # <<>> /\ outbox' = [outbox EXCEPT ![c] = Tail(@)]
    PROVE  SaidOffline'
<1>1. ASSUME NEW d \in Clients
      PROVE  \A i \in 1 .. Len(outbox'[d]) : outbox'[d][i] = "Offline"
  <2>1. outbox[d] \in Seq(Availability) /\ outbox \in [Clients -> Seq(Availability)]
    BY DEF Typed, Types, ClientTypes
  <2>2. \A i \in 1 .. Len(outbox[d]) : outbox[d][i] = "Offline"
    BY DEF SaidOffline
  <2>3. \/ outbox'[d] = outbox[d]
        \/ outbox'[d] = Enqueue(outbox[d], "Offline")
        \/ outbox'[d] = SendAgain("Offline", outbox[d])
        \/ outbox[d] # <<>> /\ outbox'[d] = Tail(outbox[d])
    BY <2>1
  <2>. QED  BY <2>1, <2>2, <2>3, OfflineQueue
<1>. QED  BY <1>1 DEF SaidOffline

LEMMA OfflineUnchanged ==
    ASSUME SaidOffline, UNCHANGED <<publishedOnline, seen, retained, outbox>>
    PROVE  SaidOffline'
BY DEF SaidOffline

LEMMA OfflineStep ==
    ASSUME Typed, SaidOffline, Next, ~Restart
    PROVE  SaidOffline'
<1>1. CASE \/ GetAddress \/ LoseAddress \/ EventTaskStep \/ TimerFires \/ InitClient
           \/ StartClient \/ PathFails \/ PathReturns
  BY <1>1, OfflineUnchanged DEF GetAddress, LoseAddress, EventTaskStep, StartTimer, SetOnLine,
     StopTimer, SetOffLine, TimerFires, InitClient, StartClient, PathFails, PathReturns,
     clientVars, flagVars, brokerVars
<1>2. CASE Process
  BY <1>2, OfflineUnchanged DEF Process, PublishOnline, SaidOffline
<1>3. CASE BrokerDrops
  BY <1>3 DEF BrokerDrops, PublishWill, SaidOffline, clientVars, flagVars
<1>4. ASSUME NEW c \in Clients, OnMqttConnect(c) \/ OnMqttDisconnected(c) \/ RestartTimer(c)
      PROVE  SaidOffline'
  BY <1>4, OfflineUnchanged DEF OnMqttConnect, OnMqttDisconnected, RestartTimer, flagVars,
     brokerVars
<1>5. ASSUME NEW c \in Clients, Greet(c)
      PROVE  SaidOffline'
  <2>1. /\ publishedOnline' = publishedOnline /\ seen' = "Offline" /\ retained' = "Offline"
        /\ outbox' \in {outbox, [outbox EXCEPT ![c] = Enqueue(@, "Offline")]}
    BY <1>5 DEF Greet, PublishQos1, Receive, Retain, SaidOffline, flagVars
  <2>. QED  BY <2>1, OfflineKept
<1>6. ASSUME NEW c \in Clients, Connect(c) \/ ConnectUnanswered(c)
      PROVE  SaidOffline'
  <2>1. /\ UNCHANGED <<publishedOnline, outbox>> /\ seen' = "Offline" /\ retained' = "Offline"
    BY <1>6 DEF Connect, ConnectUnanswered, Accept, PublishWill, SaidOffline, flagVars
  <2>. QED  BY <2>1, OfflineKept
<1>7. ASSUME NEW c \in Clients, Deliver(c)
      PROVE  SaidOffline'
  <2>1. outbox[c] # <<>> /\ outbox[c] \in Seq(Availability)
    BY <1>7 DEF Deliver, Typed, Types, ClientTypes
  <2>2. Head(outbox[c]) = "Offline"
    BY <2>1, OfflineQueue DEF SaidOffline
  <2>3. /\ publishedOnline' = publishedOnline /\ seen' = "Offline" /\ retained' = "Offline"
        /\ outbox' = [outbox EXCEPT ![c] = Tail(@)]
    BY <1>7, <2>2 DEF Deliver, Receive, Retain, SaidOffline, flagVars
  <2>. QED  BY <2>1, <2>3, OfflineKept
<1>8. ASSUME NEW c \in Clients, Lose(c)
      PROVE  SaidOffline'
  <2>1. /\ publishedOnline' = publishedOnline /\ seen' = "Offline" /\ retained' = "Offline"
        /\ outbox' \in {outbox, [outbox EXCEPT ![c] = SendAgain("Offline", @)]}
    BY <1>8 DEF Lose, SaidOffline, flagVars
  <2>. QED  BY <2>1, OfflineKept
<1>9. ASSUME NEW c \in Clients, Expire(c)
      PROVE  SaidOffline'
  <2>1. /\ publishedOnline' = publishedOnline /\ seen' = "Offline" /\ retained' = "Offline"
        /\ outbox[c] # <<>> /\ outbox' = [outbox EXCEPT ![c] = Tail(@)]
    BY <1>9 DEF Expire, SaidOffline, flagVars, brokerVars
  <2>. QED  BY <2>1, OfflineKept
<1>. QED  BY <1>1, <1>2, <1>3, <1>4, <1>5, <1>6, <1>7, <1>8, <1>9 DEF Next, Handler

\* A device whose will came after its "Online" is not available again before it is
\* restarted, whichever of its clients connects and however often: "Online" is
\* published once in a boot, for any number of clients.
THEOREM OfflineUntilRestart == Spec => [][SaidOffline /\ ~Restart => SaidOffline']_vars
<1>1. Typed /\ [Next]_vars => [SaidOffline /\ ~Restart => SaidOffline']_vars
  BY OfflineStep
<1>2. Spec => []Typed
  BY TypedInit, TypedStep, PTL DEF Spec
<1>. QED  BY <1>1, <1>2, PTL DEF Spec
-----------------------------------------------------------------------------
(***************************************************************************)
(* Somebody connects: the safety half of SessionReturns.                   *)
(***************************************************************************)
\* A device that is on line and not just going off line has a client, or its timer runs,
\* or the timer task is about to create a client.
OnLineIsServed ==
    onLine /\ eventTask # "testOnLine" => handle # Nobody \/ timer \/ timerTask = "init"

\* Every client that was created has been started, unless the timer task is at it; from
\* then on its own task drives it, whether or not the handle still points to it.
EveryClientIsStarted ==
    \A c \in Clients : c <= handle =>
        phase[c] # "none" /\ (phase[c] = "created" => timerTask = "start" /\ c = handle)

Served ==
    /\ eventTask = "setOnLine" => timer
    /\ OnLineIsServed
    /\ EveryClientIsStarted

LEMMA ServedStep ==
    ASSUME Typed, Served, [Next]_vars
    PROVE  Served'
<1>. USE MaxClientsAssumption
     DEF Typed, Types, ClientTypes, NetTypes, TimerTypes, Clients, Nobody, AtEvent
<1>1. CASE UNCHANGED <<netVars, timerVars, handle, phase>>
  BY <1>1 DEF Served, OnLineIsServed, EveryClientIsStarted, netVars, timerVars
<1>2. ASSUME UNCHANGED <<timerTask, handle, phase>> PROVE EveryClientIsStarted'
  BY <1>2 DEF Served, EveryClientIsStarted
<1>3. CASE GetAddress \/ LoseAddress \/ EventTaskStep
  <2>1. UNCHANGED <<timerTask, handle, phase>>
    BY <1>3 DEF GetAddress, LoseAddress, EventTaskStep, StartTimer, SetOnLine, StopTimer,
       SetOffLine, timerVars, clientVars
  <2>2. OnLineIsServed' /\ (eventTask' = "setOnLine" => timer')
    BY <1>3 DEF GetAddress, LoseAddress, EventTaskStep, StartTimer, SetOnLine, StopTimer,
       SetOffLine, timerVars, clientVars, Served, OnLineIsServed
  <2>. QED  BY <1>2, <2>1, <2>2 DEF Served
<1>4. CASE TimerFires
  <2>1. OnLineIsServed' /\ (eventTask' = "setOnLine" => timer')
    BY <1>4 DEF TimerFires, netVars, clientVars, Served, OnLineIsServed
  <2>2. EveryClientIsStarted'
    BY <1>4 DEF TimerFires, clientVars, Served, EveryClientIsStarted
  <2>. QED  BY <2>1, <2>2 DEF Served
<1>5. CASE InitClient
  <2>1. OnLineIsServed' /\ (eventTask' = "setOnLine" => timer')
    BY <1>5 DEF InitClient, netVars, Served, OnLineIsServed
  <2>2. EveryClientIsStarted'
    <3>1. /\ handle' = handle + 1 /\ handle + 1 \in 1 .. MaxClients /\ timerTask' = "start"
          /\ \A c \in 1 .. MaxClients : phase'[c] = IF c = handle + 1 THEN "created" ELSE phase[c]
      BY <1>5 DEF InitClient, TimerTaskOK
    <3>2. timerTask # "start"
      BY <1>5 DEF InitClient
    <3>. QED  BY <3>1, <3>2 DEF Served, EveryClientIsStarted
  <2>. QED  BY <2>1, <2>2 DEF Served
<1>6. CASE StartClient
  <2>1. OnLineIsServed' /\ (eventTask' = "setOnLine" => timer')
    BY <1>6 DEF StartClient, netVars, Served, OnLineIsServed
  <2>2. EveryClientIsStarted'
    BY <1>6 DEF StartClient, Served, EveryClientIsStarted, TimerTaskOK
  <2>. QED  BY <2>1, <2>2 DEF Served
\* The steps of a started client and of its connection
<1>7. ASSUME NEW c \in Clients, NEW p \in Phases \ {"none", "created"}, phase[c] # "created",
             phase' = [phase EXCEPT ![c] = p], UNCHANGED <<netVars, timerTask, handle>>,
             timer => timer'
      PROVE  Served'
  <2>1. OnLineIsServed' /\ (eventTask' = "setOnLine" => timer')
    BY <1>7 DEF netVars, Served, OnLineIsServed
  <2>2. EveryClientIsStarted'
    BY <1>7 DEF Served, EveryClientIsStarted
  <2>. QED  BY <2>1, <2>2 DEF Served
<1>8. ASSUME NEW c \in Clients, Handler(c) \/ Connect(c) \/ Lose(c)
      PROVE  Served'
  <2>1. CASE OnMqttConnect(c)
    BY <1>7, <2>1 DEF OnMqttConnect, timerVars, Phases
  <2>2. CASE Greet(c)
    BY <1>7, <2>2 DEF Greet, timerVars, Phases
  <2>3. CASE OnMqttDisconnected(c)
    BY <1>7, <2>3 DEF OnMqttDisconnected, timerVars, Phases
  <2>4. CASE RestartTimer(c)
    BY <1>7, <2>4 DEF RestartTimer, Phases
  <2>5. CASE Connect(c)
    BY <1>7, <2>5 DEF Connect, Accept, timerVars, Phases
  <2>6. CASE Lose(c)
    BY <1>7, <2>6 DEF Lose, timerVars, Phases
  <2>. QED  BY <1>8, <2>1, <2>2, <2>3, <2>4, <2>5, <2>6 DEF Handler
<1>9. ASSUME NEW c \in Clients, ConnectUnanswered(c) \/ Deliver(c) \/ Expire(c)
      PROVE  Served'
  BY <1>1, <1>9 DEF ConnectUnanswered, Accept, Deliver, Expire
<1>10. CASE Process \/ BrokerDrops \/ PathFails \/ PathReturns \/ UNCHANGED vars
  BY <1>1, <1>10 DEF Process, BrokerDrops, PathFails, PathReturns, vars, clientVars
<1>11. CASE Restart
  BY <1>11 DEF Restart, Served, OnLineIsServed, EveryClientIsStarted
<1>. QED  BY <1>3, <1>4, <1>5, <1>6, <1>8, <1>9, <1>10, <1>11 DEF Next

\* While the device is on line there is a client, or there is about to be one; and no
\* client is left created and not started.  GoOnline starts the timer before it sets
\* OnLine (IOT.cpp:536, 537), and when it fires in a device that is on line it creates a
\* client.  As clients connect by themselves, the session can come back.
THEOREM SomebodyConnects == Spec => [](OnLineIsServed /\ EveryClientIsStarted)
<1>1. Init => Served
  BY DEF Init, Served, OnLineIsServed, EveryClientIsStarted, Clients, Nobody
<1>2. Spec => []Typed
  BY TypedInit, TypedStep, PTL DEF Spec
<1>3. Typed /\ Served /\ [Next]_vars => Served'
  BY ServedStep
<1>4. Served => OnLineIsServed /\ EveryClientIsStarted
  BY DEF Served
<1>. QED  BY <1>1, <1>2, <1>3, <1>4, PTL DEF Spec
=============================================================================
