---------------------------- MODULE MqttSession ----------------------------
(***************************************************************************)
(* The MQTT session of class IOT (code/ESP32/main/IOT.cpp 516-552,         *)
(* 626-802) and of PLC (PLC.cpp 378-413, 415-482), with MQTT configured.   *)
(* Five kinds of tasks take part: the event task that runs GoOnline and    *)
(* GoOffline, the timer task that runs ConnectToMQTTServer, one task per   *)
(* client of the esp-mqtt library that runs HandleMQTT, and the loop task  *)
(* that runs Process.  The library, the network and the broker are the     *)
(* environment: a client reconnects by itself for ever, and all clients of *)
(* the device have the same client id, so that the broker ends the         *)
(* connection it has when another one comes.                               *)
(*                                                                         *)
(* Of the topics there are the availability topic (<root>/tele/LWT) and    *)
(* the discovery message; Readings is about the readings.                  *)
(***************************************************************************)
EXTENDS Naturals, Sequences

CONSTANT
    MaxClients    \* clients created between two restarts; the code has no limit

ASSUME MaxClientsAssumption == MaxClients \in Nat \ {0}

VARIABLES
    onLine,              \* IOT::_networkState is OnLine
    address,             \* the device has an IP address
    eventTask,           \* where the event task is
    timer,               \* mqttReconnectTimer is running
    timerTask,           \* where the timer task is in ConnectToMQTTServer
    handle,              \* _mqtt_client_handle: the clients are numbered, 0 is NULL
    phase,               \* what each client and its task are doing
    outbox,              \* messages with QoS 1 a client has still to get through
    publishedOnline,     \* IOT::_publishedOnline
    discoveryPublished,  \* PLC::_discoveryPublished
    session,             \* the connection the broker has for the client id: the client
                         \* behind it, or Stale if its other end is gone
    seen,                \* last message on the availability topic
    retained,            \* message retained on the availability topic
    discovery,           \* the broker has got the discovery message of this boot
    path,                \* the broker can be reached, given an address
    dropped,             \* a connection of this boot was lost or taken over (history)
    expired              \* an "Online" of this boot expired in an outbox (history)

netVars == <<onLine, address, eventTask>>
timerVars == <<timer, timerTask>>
clientVars == <<handle, phase, outbox>>
flagVars == <<publishedOnline, discoveryPublished>>
brokerVars == <<session, seen, retained, discovery>>
envVars == <<path, dropped, expired>>
vars == <<netVars, timerVars, clientVars, flagVars, brokerVars, envVars>>

-----------------------------------------------------------------------------
(***************************************************************************)
(* Types                                                                   *)
(***************************************************************************)
Clients == 1 .. MaxClients
Nobody == 0
Stale == MaxClients + 1

Availability == {"Online", "Offline"}
Phases == {"none",              \* not created
           "created",           \* initialised, not yet started
           "connecting",        \* the library tries to connect
           "subscribing",       \* MQTT_EVENT_CONNECTED: up to onMqttConnect
           "greeting",          \* ... about to publish "Offline"
           "connected",
           "lost",              \* MQTT_EVENT_DISCONNECTED: about to test the state
           "restarting"}        \* ... about to start the timer
InHandler == {"subscribing", "greeting", "lost", "restarting"}

TypeOK ==
    /\ onLine \in BOOLEAN
    /\ address \in BOOLEAN
    /\ eventTask \in {"idle", "startTimer", "setOnLine", "stopTimer", "testOnLine"}
    /\ timer \in BOOLEAN
    /\ timerTask \in {"idle", "init", "start"}
    /\ handle \in Nobody .. MaxClients
    /\ phase \in [Clients -> Phases]
    /\ outbox \in [Clients -> Seq(Availability)]
    /\ publishedOnline \in BOOLEAN
    /\ discoveryPublished \in BOOLEAN
    /\ session \in Nobody .. Stale
    /\ seen \in Availability
    /\ retained \in Availability
    /\ discovery \in BOOLEAN
    /\ path \in BOOLEAN
    /\ dropped \in BOOLEAN
    /\ expired \in BOOLEAN

\* Before the first boot nothing is retained, which subscribers treat as Offline.
Init ==
    /\ onLine = FALSE
    /\ address = FALSE
    /\ eventTask = "idle"
    /\ timer = FALSE
    /\ timerTask = "idle"
    /\ handle = Nobody
    /\ phase = [c \in Clients |-> "none"]
    /\ outbox = [c \in Clients |-> <<>>]
    /\ publishedOnline = FALSE
    /\ discoveryPublished = FALSE
    /\ session = Nobody
    /\ seen = "Offline"
    /\ retained = "Offline"
    /\ discovery = FALSE
    /\ path = TRUE
    /\ dropped = FALSE
    /\ expired = FALSE

-----------------------------------------------------------------------------
(***************************************************************************)
(* The broker (external) and publishing through the library (external)     *)
(***************************************************************************)
Reachable == address /\ path

\* What client c sends now arrives at the broker.
Live(c) == c \in Clients /\ session = c

\* The device's end of the connection is gone; the broker has yet to notice.
Abandoned == IF session = Nobody THEN Nobody ELSE Stale

\* "Online" is published as a retained message, "Offline" by HandleMQTT is not.
Retain(m) == IF m = "Online" THEN m ELSE retained

Receive(m) ==
    /\ seen' = m
    /\ retained' = Retain(m)

\* Mutant: lwt_retain = 0
PublishWillUnretained ==
    /\ seen' = "Offline"
    /\ UNCHANGED retained

\* The will of a connection the broker ends: lwt_msg, with lwt_retain.
PublishWill ==
    /\ seen' = "Offline"
    /\ retained' = "Offline"

\* The same message twice in a row is as good as once.
Enqueue(q, m) == IF q # <<>> /\ q[Len(q)] = m THEN q ELSE Append(q, m)
SendAgain(m, q) == IF q # <<>> /\ Head(q) = m THEN q ELSE <<m>> \o q

\* esp_mqtt_client_publish with QoS 1: a connected client sends at once, ahead
\* of what is queued; any other keeps the message until it can, or it expires.
PublishQos1(c, m) ==
    IF Live(c)
    THEN Receive(m) /\ UNCHANGED outbox
    ELSE /\ outbox' = [outbox EXCEPT ![c] = Enqueue(@, m)]
         /\ UNCHANGED <<seen, retained>>

-----------------------------------------------------------------------------
(***************************************************************************)
(* Mutants: plausible mistakes in the definitions below, used only to see  *)
(* that the properties notice them.                                        *)
(***************************************************************************)
StartTimerNever ==              \* GoOnline leaves the timer alone
    /\ eventTask = "startTimer"
    /\ eventTask' = "setOnLine"
    /\ UNCHANGED <<onLine, address, timerVars, clientVars, flagVars, brokerVars, envVars>>

OnMqttConnectQos1(c) ==         \* the discovery message is kept until it is acknowledged
    /\ phase[c] = "subscribing"
    /\ handle # c => phase[handle] \notin InHandler
    /\ phase' = [phase EXCEPT ![c] = "greeting"]
    /\ outbox' = IF discoveryPublished THEN outbox
                 ELSE [outbox EXCEPT ![handle] = Enqueue(@, "Discovery")]
    /\ discoveryPublished' = TRUE
    /\ UNCHANGED <<netVars, timerVars, handle, publishedOnline, brokerVars, envVars>>

OnMqttConnectIfOnLine(c) ==     \* publishes discovery only OnLine, and marks it published
    /\ phase[c] = "subscribing"
    /\ handle # c => phase[handle] \notin InHandler
    /\ phase' = [phase EXCEPT ![c] = "greeting"]
    /\ discovery' = (discovery \/ (~discoveryPublished /\ onLine /\ Live(handle)))
    /\ discoveryPublished' = TRUE
    /\ UNCHANGED <<netVars, timerVars, handle, outbox, publishedOnline,
                   session, seen, retained, envVars>>

PublishOnlineOnce ==            \* the flag is set whatever publishing returns
    /\ publishedOnline' = TRUE
    /\ IF ~publishedOnline /\ handle # Nobody
       THEN PublishQos1(handle, "Online")
       ELSE UNCHANGED <<outbox, seen, retained>>

GreetInTurn(c) ==               \* "Offline" waits for what is queued
    /\ phase[c] = "greeting"
    /\ phase' = [phase EXCEPT ![c] = "connected"]
    /\ outbox' = [outbox EXCEPT ![c] = Enqueue(@, "Offline")]
    /\ UNCHANGED <<netVars, timerVars, handle, flagVars, brokerVars, envVars>>

-----------------------------------------------------------------------------
(***************************************************************************)
(* GoOnline and GoOffline on the event task                                *)
(***************************************************************************)
AtEvent(label) == eventTask = label

\* The address is new, or the same one again (a renewed lease, or a client that
\* joins the access point of a device that is on line over Ethernet).
GetAddress ==
    /\ AtEvent("idle")
    /\ address' = TRUE
    /\ eventTask' = "startTimer"
    /\ UNCHANGED <<onLine, timerVars, clientVars, flagVars, brokerVars, envVars>>

\* GoOnline: xTimerStart ...
StartTimer ==
    /\ AtEvent("startTimer")
    /\ timer' = TRUE
    /\ eventTask' = "setOnLine"
    /\ UNCHANGED <<onLine, address, timerTask, clientVars, flagVars, brokerVars, envVars>>

\* ... and setState(OnLine)
SetOnLine ==
    /\ AtEvent("setOnLine")
    /\ onLine' = TRUE
    /\ eventTask' = "idle"
    /\ UNCHANGED <<address, timerVars, clientVars, flagVars, brokerVars, envVars>>

LoseAddress ==
    /\ AtEvent("idle") /\ address
    /\ address' = FALSE
    /\ eventTask' = "stopTimer"
    /\ session' = Abandoned
    /\ dropped' = (dropped \/ session \in Clients)
    /\ UNCHANGED <<onLine, timerVars, clientVars, flagVars, seen, retained,
                   discovery, path, expired>>

\* GoOffline: xTimerStop ...
StopTimer ==
    /\ AtEvent("stopTimer")
    /\ timer' = FALSE
    /\ eventTask' = "testOnLine"
    /\ UNCHANGED <<onLine, address, timerTask, clientVars, flagVars, brokerVars, envVars>>

\* ... and setState(OffLine); nothing stops the clients.
SetOffLine ==
    /\ AtEvent("testOnLine")
    /\ onLine' = FALSE
    /\ eventTask' = "idle"
    /\ UNCHANGED <<address, timerVars, clientVars, flagVars, brokerVars, envVars>>

-----------------------------------------------------------------------------
(***************************************************************************)
(* ConnectToMQTTServer on the timer task                                   *)
(***************************************************************************)
\* The 8 s of the timer outlast the call of setState that follows xTimerStart.
TimerFires ==
    /\ timer /\ timerTask = "idle" /\ ~AtEvent("setOnLine")
    /\ timer' = FALSE
    /\ timerTask' = IF onLine /\ handle < MaxClients THEN "init" ELSE "idle"
    /\ UNCHANGED <<netVars, clientVars, flagVars, brokerVars, envVars>>

\* esp_mqtt_client_init; the handle of the client before it is forgotten.
InitClient ==
    /\ timerTask = "init"
    /\ handle' = handle + 1
    /\ phase' = [phase EXCEPT ![handle + 1] = "created"]
    /\ timerTask' = "start"
    /\ UNCHANGED <<netVars, timer, outbox, flagVars, brokerVars, envVars>>

\* esp_mqtt_client_start
StartClient ==
    /\ timerTask = "start"
    /\ phase' = [phase EXCEPT ![handle] = "connecting"]
    /\ timerTask' = "idle"
    /\ UNCHANGED <<netVars, timer, handle, outbox, flagVars, brokerVars, envVars>>

-----------------------------------------------------------------------------
(***************************************************************************)
(* HandleMQTT on the task of client c, which keeps the client locked       *)
(***************************************************************************)
\* MQTT_EVENT_CONNECTED: subscribe and onMqttConnect, which publishes the
\* discovery message with QoS 0, through the handle and not through the client.
OnMqttConnect(c) ==
    /\ phase[c] = "subscribing"
    /\ handle # c => phase[handle] \notin InHandler
    /\ phase' = [phase EXCEPT ![c] = "greeting"]
    /\ discovery' = (discovery \/ (~discoveryPublished /\ Live(handle)))
    /\ discoveryPublished' = TRUE
    /\ UNCHANGED <<netVars, timerVars, handle, outbox, publishedOnline,
                   session, seen, retained, envVars>>

\* ... and "Offline" to the availability topic
Greet(c) ==
    /\ phase[c] = "greeting"
    /\ phase' = [phase EXCEPT ![c] = "connected"]
    /\ PublishQos1(c, "Offline")
    /\ UNCHANGED <<netVars, timerVars, handle, flagVars, session, discovery, envVars>>

\* MQTT_EVENT_DISCONNECTED: if OnLine ...
OnMqttDisconnected(c) ==
    /\ phase[c] = "lost"
    /\ phase' = [phase EXCEPT ![c] = IF onLine THEN "restarting" ELSE "connecting"]
    /\ UNCHANGED <<netVars, timerVars, handle, outbox, flagVars, brokerVars, envVars>>

\* ... xTimerStart
RestartTimer(c) ==
    /\ phase[c] = "restarting"
    /\ phase' = [phase EXCEPT ![c] = "connecting"]
    /\ timer' = TRUE
    /\ UNCHANGED <<netVars, timerTask, handle, outbox, flagVars, brokerVars, envVars>>

Handler(c) == OnMqttConnect(c) \/ Greet(c) \/ OnMqttDisconnected(c) \/ RestartTimer(c)

-----------------------------------------------------------------------------
(***************************************************************************)
(* Process on the loop task                                                *)
(***************************************************************************)
PublishOnline ==
    IF ~publishedOnline /\ handle # Nobody
    THEN /\ publishedOnline' = TRUE
         /\ PublishQos1(handle, "Online")
    ELSE UNCHANGED <<publishedOnline, outbox, seen, retained>>

\* The readings have changed: Process gets past the comparison.
Process ==
    /\ onLine
    /\ handle # Nobody => phase[handle] \notin InHandler
    /\ PublishOnline
    /\ UNCHANGED <<netVars, timerVars, handle, phase, discoveryPublished,
                   session, discovery, envVars>>

-----------------------------------------------------------------------------
(***************************************************************************)
(* The library and the broker                                              *)
(***************************************************************************)
\* The broker accepts a client; it ends the connection it had for the client id.
Accept(c, connection) ==
    /\ phase[c] = "connecting" /\ Reachable
    /\ session' = connection
    /\ IF session # Nobody THEN PublishWill ELSE UNCHANGED <<seen, retained>>
    /\ dropped' = (dropped \/ session \in Clients)
    /\ UNCHANGED <<netVars, timerVars, handle, outbox, flagVars, discovery, path, expired>>

Connect(c) ==
    /\ Accept(c, c)
    /\ phase' = [phase EXCEPT ![c] = "subscribing"]

\* The broker's answer is lost: the client will try again.
ConnectUnanswered(c) ==
    /\ Accept(c, Stale)
    /\ UNCHANGED phase

\* A queued message gets through.
Deliver(c) ==
    /\ phase[c] = "connected" /\ Live(c) /\ outbox[c] # <<>>
    /\ Receive(Head(outbox[c]))
    /\ outbox' = [outbox EXCEPT ![c] = Tail(@)]
    /\ UNCHANGED <<netVars, timerVars, handle, phase, flagVars, session, discovery, envVars>>

\* The task of a client deletes a message that has waited for 30 s
\* (CONFIG_MQTT_OUTBOX_EXPIRED_TIMEOUT_MS), before it looks whether it can send it.
Expire(c) ==
    /\ phase[c] \in {"connecting", "connected"} /\ outbox[c] # <<>>
    /\ outbox' = [outbox EXCEPT ![c] = Tail(@)]
    /\ expired' = (expired \/ Head(outbox[c]) = "Online")
    /\ UNCHANGED <<netVars, timerVars, handle, phase, flagVars, brokerVars, path, dropped>>

\* The connection of the client ends, or the client notices that it has.  The
\* acknowledgement of its last message may be lost with it: that one is sent again.
Lose(c) ==
    /\ phase[c] = "connected"
    /\ phase' = [phase EXCEPT ![c] = "lost"]
    /\ \/ UNCHANGED outbox
       \/ Live(c) /\ outbox' = [outbox EXCEPT ![c] = SendAgain(seen, @)]
    /\ session' = IF Live(c) THEN Stale ELSE session
    /\ dropped' = TRUE
    /\ UNCHANGED <<netVars, timerVars, handle, flagVars, seen, retained, discovery, path, expired>>

\* The broker notices that nobody is behind a connection any more.
BrokerDrops ==
    /\ session = Stale
    /\ session' = Nobody
    /\ PublishWill
    /\ UNCHANGED <<netVars, timerVars, clientVars, flagVars, discovery, envVars>>

\* An interruption that ends the connections.
PathFails ==
    /\ path
    /\ path' = FALSE
    /\ session' = Abandoned
    /\ dropped' = (dropped \/ session \in Clients)
    /\ UNCHANGED <<netVars, timerVars, clientVars, flagVars, seen, retained, discovery, expired>>

PathReturns ==
    /\ ~path
    /\ path' = TRUE
    /\ UNCHANGED <<netVars, timerVars, clientVars, flagVars, brokerVars, dropped, expired>>

\* Any restart of the device.
Restart ==
    /\ onLine' = FALSE
    /\ address' = FALSE
    /\ eventTask' = "idle"
    /\ timer' = FALSE
    /\ timerTask' = "idle"
    /\ handle' = Nobody
    /\ phase' = [c \in Clients |-> "none"]
    /\ outbox' = [c \in Clients |-> <<>>]
    /\ publishedOnline' = FALSE
    /\ discoveryPublished' = FALSE
    /\ session' = Abandoned
    /\ discovery' = FALSE
    /\ dropped' = FALSE
    /\ expired' = FALSE
    /\ UNCHANGED <<seen, retained, path>>

-----------------------------------------------------------------------------
EventTaskStep == StartTimer \/ SetOnLine \/ StopTimer \/ SetOffLine

Next ==
    \/ GetAddress \/ LoseAddress \/ EventTaskStep
    \/ TimerFires \/ InitClient \/ StartClient
    \/ \E c \in Clients :
         \/ Handler(c)
         \/ Connect(c) \/ ConnectUnanswered(c) \/ Deliver(c) \/ Expire(c) \/ Lose(c)
    \/ Process
    \/ BrokerDrops
    \/ PathFails \/ PathReturns
    \/ Restart

(***************************************************************************)
(* The scheduler runs every ready task; the library connects when it can   *)
(* and sends what is queued; the readings go on changing (Process).        *)
(***************************************************************************)
Fairness ==
    /\ WF_vars(EventTaskStep)
    /\ WF_vars(InitClient \/ StartClient)
    /\ SF_vars(TimerFires)
    /\ WF_vars(Process)
    /\ \A c \in Clients :
         /\ WF_vars(Handler(c))
         /\ WF_vars(Connect(c))
         /\ WF_vars(Deliver(c))
         /\ WF_vars(~Live(c) /\ Lose(c))

Spec == Init /\ [][Next]_vars
FairSpec == Spec /\ Fairness

-----------------------------------------------------------------------------
(***************************************************************************)
(* Properties                                                              *)
(***************************************************************************)
\* Nobody is told "Online" of a device the broker has no connection to: whatever
\* clients, connections and restarts there were, the will of the last connection
\* (IOT.cpp 709-712) has replaced it.
OnlineMeansSession ==
    seen = "Online" \/ retained = "Online" => session # Nobody

\* The one discovery message of a boot (PLC.cpp 479-480) reaches the broker, unless a
\* second client was created or a connection was lost meanwhile; then Home
\* Assistant does not learn of the device before the next restart.
DiscoveryReachesBroker ==
    discoveryPublished => discovery \/ handle > 1 \/ dropped

\* In the first connection of a boot the "Offline" of HandleMQTT (IOT.cpp:640) comes
\* before the "Online" of PublishOnline (797), however long that one was queued.
FirstSessionStaysAvailable ==
    Live(session) /\ ~dropped /\ retained = "Online" => seen = "Online"

\* With a network and a broker that stay, the device is connected again and again,
\* although nobody looks after the clients that were created before.
SessionReturns ==
    <>[]Reachable => []<>(\E c \in Clients : Live(c))

\* ... and a first connection that lasts becomes available, unless the "Online" queued
\* for it had expired: _publishedOnline (IOT.cpp 795-797) lets no other one follow.
FirstSessionIsAnnounced ==
    <>[]Reachable =>
        ( ((\E c \in Clients : Live(c)) /\ ~dropped)
              ~> (seen = "Online" \/ dropped \/ expired) )
=============================================================================
