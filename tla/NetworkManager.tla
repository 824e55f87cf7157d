--------------------------- MODULE NetworkManager ---------------------------
(***************************************************************************)
(* The network state machine of class IOT (code/ESP32/main/IOT.cpp) for a  *)
(* device configured for Wi-Fi or for Ethernet.  Three FreeRTOS tasks run  *)
(* its code without a lock: the application loop (IOT::Run), the Arduino   *)
(* event task (the WiFi.onEvent callback) and the default event loop task  *)
(* (on_ip_event).  Each of them may be inside GoOnline, GoOffline or       *)
(* setState while another one changes _networkState.                       *)
(*                                                                         *)
(* An action is a piece of code between two points at which another task   *)
(* can see or spoil something: setState stores _networkState first and     *)
(* runs the effects of the new state afterwards, one driver call per       *)
(* action.  The Wi-Fi driver, the cable and the clients of the access      *)
(* point are the environment.                                              *)
(***************************************************************************)
EXTENDS Naturals, Sequences, FiniteSets

CONSTANTS
    Clients,      \* stations that may join the device's access point
    Selections,   \* the values of _NetworkSelection the device is set up with
    Submittable,  \* the values the settings page may change it to
    MaxEvents     \* the environment adds no event to a queue this long

Modes == {"NotConnected", "WiFiMode", "EthernetMode"}

ASSUME SelectionsAssumption ==
    Selections \subseteq Modes /\ Submittable \subseteq Selections \ {"NotConnected"}
ASSUME ClientsAssumption == IsFiniteSet(Clients)
ASSUME MaxEventsAssumption == MaxEvents \in Nat

VARIABLES
    netState,     \* IOT::_networkState
    selection,    \* IOT::_NetworkSelection, as saved in EEPROM too
    apConnected,  \* IOT::_AP_Connected
    expired,      \* AP_TIMEOUT has passed since _waitInAPTimeStamp, or
                  \* WIFI_CONNECTION_TIMEOUT since _NetworkConnectionStart: the later one
    pc,           \* where each task is
    target,       \* the argument of the setState a task is in
    wifiEvents,   \* queue of the Arduino event task
    ipEvents,     \* queue of the default event loop task
    radio,        \* WiFi.mode: "off", "ap" or "sta"
    sta,          \* the station: "off", "joining" or "up" (has an address)
    clients,      \* clients of the access point that hold an address
    web,          \* the web server has been started
    mqttTimer,    \* mqttReconnectTimer is running
    mqttTried,    \* ConnectToMQTTServer ran since the timer was last started
    spi,          \* SPI2_HOST is initialised, which nothing undoes
    ethHandle,    \* _eth_handle: "null", or the driver's "installed", "started"
    ipHandler,    \* on_ip_event is registered
    cable,        \* the Ethernet cable is plugged in, with a DHCP server behind it
    ethUp         \* the Ethernet interface has an address

stateVars == <<netState, selection, apConnected, expired>>
taskVars == <<pc, target>>
wifiVars == <<radio, sta, clients, wifiEvents>>
serviceVars == <<web, mqttTimer, mqttTried>>
ethVars == <<spi, ethHandle, ipHandler, ethUp>>
envVars == <<cable, ipEvents>>
vars == <<stateVars, taskVars, wifiVars, serviceVars, ethVars, envVars>>

-----------------------------------------------------------------------------
(***************************************************************************)
(* Types                                                                   *)
(***************************************************************************)
Loop == "loop"
WifiTask == "wifiTask"
IpTask == "ipTask"
EventTasks == {WifiTask, IpTask}
Tasks == {Loop} \cup EventTasks

NetStates == {"Boot", "ApState", "Connecting", "OnLine", "OffLine"}
PastApState == {"Connecting", "OnLine", "OffLine"}   \* _networkState > ApState
WifiEvents == {"ApIpAssigned", "ApStaDisconnected", "StaGotIp", "StaDisconnected"}
IpEvents == {"EthGotIp", "EthLostIp"}

LoopLabels == {"idle", "giveUp", "set", "dropSta", "ethCheck", "ethStop", "apUp",
               "connect", "ethStart"}
EventLabels == {"idle", "goOnline", "services", "goOffline", "offCheck", "set",
                "radioOff", "ethCheck", "ethStop"}

TypeOK ==
    /\ netState \in NetStates
    /\ selection \in Modes
    /\ apConnected \in BOOLEAN
    /\ expired \in BOOLEAN
    /\ pc \in [Tasks -> LoopLabels \cup EventLabels]
    /\ pc[Loop] \in LoopLabels
    /\ \A t \in EventTasks : pc[t] \in EventLabels
    /\ target \in [Tasks -> NetStates]
    /\ wifiEvents \in Seq(WifiEvents)
    /\ ipEvents \in Seq(IpEvents)
    /\ radio \in {"off", "ap", "sta"}
    /\ sta \in {"off", "joining", "up"}
    /\ clients \subseteq Clients
    /\ web \in BOOLEAN
    /\ mqttTimer \in BOOLEAN
    /\ mqttTried \in BOOLEAN
    /\ spi \in BOOLEAN
    /\ ethHandle \in {"null", "installed", "started"}
    /\ ipHandler \in BOOLEAN
    /\ cable \in BOOLEAN
    /\ ethUp \in BOOLEAN

Init ==
    /\ netState = "Boot"
    /\ selection \in Selections
    /\ apConnected = FALSE
    /\ expired = FALSE
    /\ pc = [t \in Tasks |-> "idle"]
    /\ target = [t \in Tasks |-> "Boot"]
    /\ wifiEvents = <<>>
    /\ ipEvents = <<>>
    /\ radio = "off"
    /\ sta = "off"
    /\ clients = {}
    /\ web = FALSE
    /\ mqttTimer = FALSE
    /\ mqttTried = FALSE
    /\ spi = FALSE
    /\ ethHandle = "null"
    /\ ipHandler = FALSE
    /\ cable = TRUE
    /\ ethUp = FALSE

(***************************************************************************)
(* esp_restart, and an abort (a failed ESP_ERROR_CHECK): everything but    *)
(* the saved settings and the outside world starts again.                  *)
(***************************************************************************)
Restart ==
    /\ netState' = "Boot"
    /\ apConnected' = FALSE
    /\ expired' = FALSE
    /\ pc' = [t \in Tasks |-> "idle"]
    /\ target' = [t \in Tasks |-> "Boot"]
    /\ wifiEvents' = <<>>
    /\ ipEvents' = <<>>
    /\ radio' = "off"
    /\ sta' = "off"
    /\ clients' = {}
    /\ web' = FALSE
    /\ mqttTimer' = FALSE
    /\ mqttTried' = FALSE
    /\ spi' = FALSE
    /\ ethHandle' = "null"
    /\ ipHandler' = FALSE
    /\ ethUp' = FALSE
    /\ UNCHANGED cable

-----------------------------------------------------------------------------
(***************************************************************************)
(* Steps of a task                                                         *)
(***************************************************************************)
At(t, label) == pc[t] = label

\* At the end of a handler the argument of its setState is forgotten.
GoTo(t, label) ==
    /\ pc' = [pc EXCEPT ![t] = label]
    /\ target' = [target EXCEPT ![t] = IF label = "idle" THEN "Boot" ELSE @]

\* setState is about to be called with s.
CallSetState(t, s) ==
    /\ pc' = [pc EXCEPT ![t] = "set"]
    /\ target' = [target EXCEPT ![t] = s]

(***************************************************************************)
(* The Wi-Fi driver (external).  A mode without an access point sends its  *)
(* clients away; leaving station mode or WiFi.disconnect ends the station; *)
(* both are reported through the event queue.                              *)
(***************************************************************************)
Departures == [i \in 1 .. Cardinality(clients) |-> "ApStaDisconnected"]
StationEnd == IF sta = "off" THEN <<>> ELSE <<"StaDisconnected">>

WiFiMode(m) ==
    /\ radio' = m
    /\ sta' = IF m = "sta"
               THEN IF sta = "up" THEN "up" ELSE "joining"  \* begin keeps a good connection
               ELSE "off"
    /\ clients' = IF m = "ap" THEN clients ELSE {}
    /\ wifiEvents' = wifiEvents \o (IF m = "sta" THEN <<>> ELSE StationEnd)
                                \o (IF m = "ap" THEN <<>> ELSE Departures)

WiFiDisconnect ==   \* WiFi.disconnect(true): also switches the station mode off
    /\ sta' = "off"
    /\ radio' = IF radio = "sta" THEN "off" ELSE radio
    /\ wifiEvents' = wifiEvents \o StationEnd
    /\ UNCHANGED clients

-----------------------------------------------------------------------------
(***************************************************************************)
(* Mutants: plausible mistakes in the definitions below, used only to see  *)
(* that the properties notice them.                                        *)
(***************************************************************************)
RunOffLineWiFiOnly ==          \* retries a lost Wi-Fi network only
    /\ At(Loop, "idle") /\ netState = "OffLine" /\ selection = "WiFiMode"
    /\ CallSetState(Loop, "Connecting")
    /\ UNCHANGED <<stateVars, wifiVars, serviceVars, ethVars, envVars>>

FirstEffectDropsStation(old, s) ==     \* OffLine takes the path of ApState
    CASE s \in {"OffLine", "ApState"} -> "dropSta"
      [] s = "Connecting" -> "connect"
      [] OTHER -> "idle"

FirstEffectKeepsOnLine(old, s) ==      \* OnLine -> ApState keeps the network
    CASE s = "OffLine"    -> "radioOff"
      [] s = "ApState"    -> IF old = "Connecting" THEN "dropSta" ELSE "apUp"
      [] s = "Connecting" -> "connect"
      [] OTHER            -> "idle"

FlagAfterNoJoin(e) ==          \* a joining client does not set _AP_Connected
    IF e = "ApStaDisconnected" THEN FALSE ELSE apConnected

FlagAfterNoLeave(e) ==         \* a leaving client does not clear it
    IF e = "ApIpAssigned" THEN TRUE ELSE apConnected

StartServicesOnce(t) ==        \* the timer is started the first time only
    /\ At(t, "services")
    /\ mqttTimer' = (mqttTimer \/ ~mqttTried)
    /\ mqttTried' = FALSE
    /\ CallSetState(t, "OnLine")
    /\ UNCHANGED <<stateVars, wifiVars, web, ethVars, envVars>>

OffLineIfConnecting(t) ==      \* GoOffline tests for the wrong state
    /\ At(t, "offCheck")
    /\ IF netState = "Connecting" THEN CallSetState(t, "OffLine") ELSE GoTo(t, "idle")
    /\ UNCHANGED <<stateVars, wifiVars, serviceVars, ethVars, envVars>>

-----------------------------------------------------------------------------
(***************************************************************************)
(* The application loop: IOT::Run                                          *)
(***************************************************************************)
RunIn(s) == At(Loop, "idle") /\ netState = s

\* The flasher sends the Wi-Fi credentials over the serial line.
RunFlasherConfig ==
    /\ RunIn("Boot")
    /\ selection = "NotConnected"
    /\ selection' = "WiFiMode"
    /\ Restart

\* Settings are there, or FLASHER_TIMEOUT has passed without any.
RunBoot ==
    /\ RunIn("Boot")
    /\ CallSetState(Loop, "ApState")
    /\ UNCHANGED <<stateVars, wifiVars, serviceVars, ethVars, envVars>>

RunAp ==
    /\ RunIn("ApState")
    /\ ~apConnected
    /\ expired
    /\ CallSetState(Loop, "Connecting")
    /\ UNCHANGED <<stateVars, wifiVars, serviceVars, ethVars, envVars>>

RunConnecting ==
    /\ RunIn("Connecting")
    /\ expired
    /\ GoTo(Loop, "giveUp")
    /\ UNCHANGED <<stateVars, wifiVars, serviceVars, ethVars, envVars>>

GiveUp ==
    /\ At(Loop, "giveUp")
    /\ WiFiDisconnect
    /\ CallSetState(Loop, "ApState")
    /\ UNCHANGED <<stateVars, serviceVars, ethVars, envVars>>

RunOffLine ==
    /\ RunIn("OffLine")
    /\ CallSetState(Loop, "Connecting")
    /\ UNCHANGED <<stateVars, wifiVars, serviceVars, ethVars, envVars>>

-----------------------------------------------------------------------------
(***************************************************************************)
(* IOT::setState, on whichever task called it                              *)
(***************************************************************************)
\* The first effect of state s, entered from old.
FirstEffect(old, s) ==
    CASE s = "OffLine"    -> "radioOff"
      [] s = "ApState"    -> IF old \in {"Connecting", "OnLine"} THEN "dropSta" ELSE "apUp"
      [] s = "Connecting" -> "connect"
      [] OTHER            -> "idle"

StoreState(t) ==
    /\ At(t, "set")
    /\ netState' = target[t]
    /\ GoTo(t, FirstEffect(netState, target[t]))
    /\ UNCHANGED <<selection, apConnected, expired, wifiVars, serviceVars, ethVars, envVars>>

\* case OffLine
RadioOff(t) ==
    /\ At(t, "radioOff")
    /\ WiFiMode("off")
    /\ GoTo(t, "ethCheck")
    /\ UNCHANGED <<stateVars, serviceVars, ethVars, envVars>>

\* case ApState, coming from Connecting or OnLine
DropStation ==
    /\ At(Loop, "dropSta")
    /\ WiFiDisconnect
    /\ GoTo(Loop, "ethCheck")
    /\ UNCHANGED <<stateVars, serviceVars, ethVars, envVars>>

AfterDisconnect(t) == IF target[t] = "ApState" THEN "apUp" ELSE "idle"

\* DisconnectEthernet: if (_eth_handle != NULL)
DisconnectEthernetCheck(t) ==
    /\ At(t, "ethCheck")
    /\ GoTo(t, IF ethHandle = "null" THEN AfterDisconnect(t) ELSE "ethStop")
    /\ UNCHANGED <<stateVars, wifiVars, serviceVars, ethVars, envVars>>

\* ESP_ERROR_CHECK(esp_eth_stop) and the rest; the SPI bus stays initialised.
DisconnectEthernet(t) ==
    /\ At(t, "ethStop")
    /\ ethHandle = "started"
    /\ ethHandle' = "null"
    /\ ipHandler' = FALSE
    /\ ethUp' = FALSE
    /\ GoTo(t, AfterDisconnect(t))
    /\ UNCHANGED <<stateVars, wifiVars, serviceVars, spi, envVars>>

\* esp_eth_stop refuses a driver that does not run: ESP_ERROR_CHECK aborts.
AbortInDisconnectEthernet(t) ==
    /\ At(t, "ethStop")
    /\ ethHandle # "started"
    /\ Restart
    /\ UNCHANGED selection

\* case ApState: WiFi.mode(WIFI_AP), softAP, the captive DNS, the time stamp
AccessPointUp ==
    /\ At(Loop, "apUp")
    /\ WiFiMode("ap")
    /\ expired' = FALSE
    /\ GoTo(Loop, "idle")
    /\ UNCHANGED <<netState, selection, apConnected, web,
                   mqttTimer, mqttTried, ethVars, envVars>>

\* case Connecting
StampConnecting(label) ==
    /\ At(Loop, "connect")
    /\ expired' = FALSE
    /\ GoTo(Loop, label)
    /\ UNCHANGED <<netState, selection, apConnected, serviceVars, envVars>>

ConnectNothing ==
    /\ selection = "NotConnected"
    /\ StampConnecting("idle")
    /\ UNCHANGED <<wifiVars, ethVars>>

ConnectWiFi ==
    /\ selection = "WiFiMode"
    /\ StampConnecting("idle")
    /\ WiFiMode("sta")
    /\ UNCHANGED ethVars

\* ConnectEthernet up to the registration of on_ip_event.  The SPI bus can be
\* initialised once; later calls return there, and any call may fail, also the first.
ConnectEthernet ==
    /\ selection = "EthernetMode"
    /\ \/ /\ StampConnecting("idle")            \* no bus: it is taken, or fails
          /\ UNCHANGED ethVars
       \/ /\ ~spi
          /\ spi' = TRUE
          /\ \/ /\ StampConnecting("idle")      \* no W5500: nothing installed
                /\ UNCHANGED <<ethHandle, ipHandler>>
             \/ /\ StampConnecting("idle")      \* installed, then an early return
                /\ ethHandle' = "installed"
                /\ UNCHANGED ipHandler
             \/ /\ StampConnecting("ethStart")
                /\ ethHandle' = "installed"
                /\ ipHandler' = TRUE
          /\ UNCHANGED ethUp
    /\ UNCHANGED wifiVars

\* ... and esp_eth_start
StartEthernet ==
    /\ At(Loop, "ethStart")
    /\ GoTo(Loop, "idle")
    /\ \/ /\ ethHandle = "installed"
          /\ ethHandle' = "started"
       \/ UNCHANGED ethHandle
    /\ UNCHANGED <<stateVars, wifiVars, serviceVars, spi, ipHandler, ethUp, envVars>>

-----------------------------------------------------------------------------
(***************************************************************************)
(* The event tasks: the WiFi.onEvent callback and HandleIPEvent            *)
(***************************************************************************)
FlagAfter(e) == CASE e = "ApIpAssigned" -> TRUE
                  [] e = "ApStaDisconnected" -> FALSE
                  [] OTHER -> apConnected

OnWifiEvent ==
    /\ At(WifiTask, "idle")
    /\ wifiEvents # <<>>
    /\ wifiEvents' = Tail(wifiEvents)
    /\ apConnected' = FlagAfter(Head(wifiEvents))
    /\ GoTo(WifiTask, IF Head(wifiEvents) \in {"ApIpAssigned", "StaGotIp"}
                      THEN "goOnline" ELSE "goOffline")
    /\ UNCHANGED <<netState, selection, expired, radio, sta, clients,
                   serviceVars, ethVars, envVars>>

\* An event posted before the handler was unregistered is dispatched to nobody.
OnIpEvent ==
    /\ At(IpTask, "idle")
    /\ ipEvents # <<>>
    /\ ipEvents' = Tail(ipEvents)
    /\ GoTo(IpTask, IF ipHandler
                    THEN IF Head(ipEvents) = "EthGotIp" THEN "goOnline" ELSE "goOffline"
                    ELSE "idle")
    /\ UNCHANGED <<stateVars, wifiVars, serviceVars, ethVars, cable>>

\* GoOnline up to the test of _networkState
GoOnline(t) ==
    /\ At(t, "goOnline")
    /\ web' = TRUE
    /\ GoTo(t, IF netState \in PastApState THEN "services" ELSE "idle")
    /\ UNCHANGED <<stateVars, wifiVars, mqttTimer, mqttTried, ethVars, envVars>>

\* mDNS (a query of seconds), the Modbus server, xTimerStart; then setState(OnLine)
StartServices(t) ==
    /\ At(t, "services")
    /\ mqttTimer' = TRUE
    /\ mqttTried' = FALSE
    /\ CallSetState(t, "OnLine")
    /\ UNCHANGED <<stateVars, wifiVars, web, ethVars, envVars>>

\* GoOffline up to the test of _networkState
GoOffline(t) ==
    /\ At(t, "goOffline")
    /\ mqttTimer' = FALSE
    /\ GoTo(t, "offCheck")
    /\ UNCHANGED <<stateVars, wifiVars, web, mqttTried, ethVars, envVars>>

OffLineIfOnLine(t) ==
    /\ At(t, "offCheck")
    /\ IF netState = "OnLine"
       THEN CallSetState(t, "OffLine")
       ELSE GoTo(t, "idle")
    /\ UNCHANGED <<stateVars, wifiVars, serviceVars, ethVars, envVars>>

\* mqttReconnectTimerCF and ConnectToMQTTServer: a client is created if OnLine.
\* Its 8 s outlast the call of setState that follows xTimerStart.
MqttTimerFires ==
    /\ mqttTimer
    /\ \A t \in EventTasks : ~(At(t, "set") /\ target[t] = "OnLine")
    /\ mqttTimer' = FALSE
    /\ mqttTried' = (netState = "OnLine")
    /\ UNCHANGED <<stateVars, taskVars, wifiVars, web,
                   ethVars, envVars>>

-----------------------------------------------------------------------------
(***************************************************************************)
(* The web pages                                                           *)
(***************************************************************************)
\* POST /submit stores the settings; the state machine goes on as it was.
Submit(sel) ==
    /\ web
    /\ selection' = sel
    /\ UNCHANGED <<netState, apConnected, expired, taskVars, wifiVars, serviceVars, ethVars,
                   envVars>>

\* GET /reboot
Reboot ==
    /\ web
    /\ Restart
    /\ UNCHANGED selection

-----------------------------------------------------------------------------
(***************************************************************************)
(* Time and the outside world                                              *)
(***************************************************************************)
\* A window of 30 s outlasts a backlog of events: none opens a gap of more than
\* MaxEvents events (and those the driver adds) between the loop and the task.
NoBacklog == Len(wifiEvents) <= MaxEvents

WindowPasses ==
    /\ netState \in {"ApState", "Connecting"} /\ At(Loop, "idle")
    /\ ~expired /\ NoBacklog
    /\ expired' = TRUE
    /\ UNCHANGED <<netState, selection, apConnected, taskVars, wifiVars, serviceVars,
                   ethVars, envVars>>

QuietOutside == <<stateVars, taskVars, radio, serviceVars>>

WifiQueueOpen == Len(wifiEvents) < MaxEvents

ClientJoins(c) ==
    /\ radio = "ap" /\ c \notin clients /\ WifiQueueOpen
    /\ clients' = clients \cup {c}
    /\ wifiEvents' = Append(wifiEvents, "ApIpAssigned")
    /\ UNCHANGED <<QuietOutside, sta, ethVars, envVars>>

ClientLeaves(c) ==
    /\ c \in clients /\ WifiQueueOpen
    /\ clients' = clients \ {c}
    /\ wifiEvents' = Append(wifiEvents, "ApStaDisconnected")
    /\ UNCHANGED <<QuietOutside, sta, ethVars, envVars>>

StationGetsIp ==
    /\ sta = "joining" /\ WifiQueueOpen
    /\ sta' = "up"
    /\ wifiEvents' = Append(wifiEvents, "StaGotIp")
    /\ UNCHANGED <<QuietOutside, clients, ethVars, envVars>>

\* A failed attempt or a lost link; the driver tries again by itself.
StationFails ==
    /\ sta \in {"joining", "up"} /\ WifiQueueOpen
    /\ sta' = "joining"
    /\ wifiEvents' = Append(wifiEvents, "StaDisconnected")
    /\ UNCHANGED <<QuietOutside, clients, ethVars, envVars>>

StationResolves == sta = "joining" /\ (StationGetsIp \/ StationFails)

EthernetGetsIp ==
    /\ ethHandle = "started" /\ cable /\ ~ethUp /\ Len(ipEvents) < MaxEvents
    /\ ethUp' = TRUE
    /\ ipEvents' = Append(ipEvents, "EthGotIp")
    /\ UNCHANGED <<QuietOutside, sta, clients, wifiEvents, spi, ethHandle, ipHandler, cable>>

PlugCable ==
    /\ ~cable
    /\ cable' = TRUE
    /\ UNCHANGED <<QuietOutside, sta, clients, wifiEvents, ethVars, ipEvents>>

\* Nobody looks at the cable before the SPI bus is up.
UnplugCable ==
    /\ cable /\ spi /\ Len(ipEvents) < MaxEvents
    /\ cable' = FALSE
    /\ ethUp' = FALSE
    /\ ipEvents' = IF ethUp THEN Append(ipEvents, "EthLostIp") ELSE ipEvents
    /\ UNCHANGED <<QuietOutside, sta, clients, wifiEvents, spi, ethHandle, ipHandler>>

-----------------------------------------------------------------------------
LoopStep ==
    \/ RunBoot \/ RunAp \/ RunConnecting \/ GiveUp \/ RunOffLine
    \/ StoreState(Loop) \/ DropStation
    \/ DisconnectEthernetCheck(Loop) \/ DisconnectEthernet(Loop)
    \/ AbortInDisconnectEthernet(Loop)
    \/ AccessPointUp \/ ConnectNothing \/ ConnectWiFi \/ ConnectEthernet \/ StartEthernet

HandlerStep(t) ==
    \/ GoOnline(t) \/ StartServices(t) \/ GoOffline(t) \/ OffLineIfOnLine(t)
    \/ StoreState(t) \/ RadioOff(t)
    \/ DisconnectEthernetCheck(t) \/ DisconnectEthernet(t) \/ AbortInDisconnectEthernet(t)

WifiTaskStep == OnWifiEvent \/ HandlerStep(WifiTask)
IpTaskStep == OnIpEvent \/ HandlerStep(IpTask)

Environment ==
    \/ \E c \in Clients : ClientJoins(c) \/ ClientLeaves(c)
    \/ StationGetsIp \/ StationFails
    \/ EthernetGetsIp \/ PlugCable \/ UnplugCable

Next ==
    \/ LoopStep
    \/ RunFlasherConfig
    \/ WifiTaskStep
    \/ IpTaskStep
    \/ MqttTimerFires
    \/ \E sel \in Submittable : Submit(sel)
    \/ Reboot
    \/ WindowPasses
    \/ Environment

(***************************************************************************)
(* The scheduler runs every ready task, the clock goes on, and the drivers *)
(* finish what they began: a station that is joining gets an address or    *)
(* reports a failure, a started Ethernet with a good cable gets one.       *)
(***************************************************************************)
Fairness ==
    /\ WF_vars(LoopStep)
    /\ WF_vars(WifiTaskStep)
    /\ WF_vars(IpTaskStep)
    /\ WF_vars(MqttTimerFires)
    /\ WF_vars(WindowPasses)
    /\ WF_vars(StationResolves)
    /\ WF_vars(EthernetGetsIp)

Spec == Init /\ [][Next]_vars
FairSpec == Spec /\ Fairness

-----------------------------------------------------------------------------
(***************************************************************************)
(* Properties                                                              *)
(***************************************************************************)
\* Wi-Fi is selected, and no ConnectEthernet got as far as its SPI bus.
WiFiOnly == selection = "WiFiMode" /\ ~spi

AllIdle == \A t \in Tasks : At(t, "idle")

\* Something of the device answers: its access point, its station or its Ethernet.
HasNetwork == radio = "ap" \/ sta = "up" \/ ethUp

\* One event task takes the network down, Ethernet and its handler with it, while the
\* other one is in GoOnline for that Ethernet and may be past the test of the state.
TornDownWhileGoingOnline ==
    /\ pc[WifiTask] \in {"radioOff", "ethCheck", "ethStop"}
    /\ \/ pc[IpTask] \in {"goOnline", "services"}
       \/ At(IpTask, "set") /\ target[IpTask] = "OnLine"

\* "Network not available, fall back to AP mode" (IOT.cpp:478): whatever fails, the
\* state machine comes out of Connecting and OffLine again and again, and again and
\* again there is a network to reach the device on: its access point or another.
\* There is one way to lose it for ever: Ethernet was torn down under a GoOnline, which
\* then set OnLine.  No handler is left that could report a loss, nothing times out.
FallsBack ==
    /\ []<>(netState \in {"ApState", "OnLine"})
    /\ []<>HasNetwork \/ (<>TornDownWhileGoingOnline /\ <>[](netState = "OnLine"))

\* Before Ethernet had its bus: being OnLine with neither a station nor a client
\* of the access point, which the races between the loop and the event task can
\* produce, does not last.
FalseOnLineEnds ==
    (netState = "OnLine" /\ sta # "up" /\ clients = {} /\ ~spi)
        ~> (netState # "OnLine" \/ sta = "up" \/ clients # {} \/ spi)

\* Before Ethernet had its bus: a device that is OnLine is going to connect
\* to the MQTT server or has done so.  GoOnline starts the timer before it sets
\* the state, GoOffline stops it before it tests the state.
OnLineStartsMqtt ==
    netState = "OnLine" /\ AllIdle /\ WiFiOnly => mqttTimer \/ mqttTried

\* "if AP client is connected, stay in AP mode" (IOT.cpp:463): the loop decides
\* to leave the access point only if no client has an address, apart from one
\* whose event is still on its way.
ApClientHoldsAp ==
    [][ netState = "ApState" /\ At(Loop, "idle") /\ target'[Loop] = "Connecting"
          /\ pc'[Loop] = "set"
        => clients = {} \/ wifiEvents # <<>> ]_vars

\* "went offline, try again..." (IOT.cpp:484): with a cable that stays good, a device
\* that went OffLine because Ethernet lost its address comes OnLine again, or restarts.
OffLineTriesAgain ==
    <>[]cable => ( (netState = "OffLine" /\ At(IpTask, "radioOff"))
                       ~> netState \in {"OnLine", "Boot"} )

\* Whichever task tore Ethernet down, and however the teardowns of the loop and of
\* the event tasks overlapped: a settled ApState has neither a driver nor a handler
\* of the Ethernet left that an event could still reach; only the SPI bus stays.
SettledApReleased ==
    netState = "ApState" /\ AllIdle => ethHandle = "null" /\ ~ipHandler

\* An access point that a late RadioOff switched off under ApState comes back or
\* is left: _AP_Connected does not keep the device waiting for a client that is gone.
DeadApEnds ==
    (netState = "ApState" /\ AllIdle /\ radio # "ap")
        ~> (netState # "ApState" \/ radio = "ap")
=============================================================================
