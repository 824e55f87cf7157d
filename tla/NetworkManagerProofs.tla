------------------------- MODULE NetworkManagerProofs -------------------------
(***************************************************************************)
(* Proofs about NetworkManager: for any clients of the access point, any   *)
(* settings and any length of the event queues.                            *)
(***************************************************************************)
EXTENDS NetworkManager, FiniteSetTheorems, TLAPS

-----------------------------------------------------------------------------
(***************************************************************************)
(* The inductive invariants                                                *)
(***************************************************************************)
\* A task that is about to look at the Ethernet driver and take it down.
TearsDown(t) == pc[t] \in {"radioOff", "dropSta", "ethCheck", "ethStop"}

\* The loop has given up connecting and is on its way to ApState.
GivesUp == At(Loop, "giveUp") \/ (At(Loop, "set") /\ target[Loop] = "ApState")

\* While Ethernet is installed, the state machine is past ApState or some task is about
\* to take it down.  A loop that has given up does not look at it again if the state is
\* OffLine when it stores ApState, so then the task that stored OffLine has to.
EthernetAttended ==
    /\ ethHandle = "null" => ~ipHandler
    /\ pc[Loop] \in {"connect", "ethStart"} => netState \in PastApState
    /\ ethHandle # "null" =>
           \/ \E t \in Tasks : TearsDown(t)
           \/ netState \in {"Connecting", "OnLine"}
           \/ netState = "OffLine" /\ ~GivesUp

\* Without Ethernet only the Wi-Fi event task goes on line, and unless it is just
\* going off line, an OnLine device has its timer running or has used it.
MqttAttended ==
    ~spi =>
        /\ At(IpTask, "idle") /\ ~ipHandler
        /\ At(WifiTask, "set") /\ target[WifiTask] = "OnLine" => mqttTimer
        /\ netState = "OnLine" =>
               \/ mqttTimer \/ mqttTried
               \/ At(WifiTask, "offCheck")
               \/ At(WifiTask, "set") /\ target[WifiTask] = "OffLine"
-----------------------------------------------------------------------------
(***************************************************************************)
(* Type correctness                                                        *)
(***************************************************************************)
Labels(t) == IF t = Loop THEN LoopLabels ELSE EventLabels

\* The event tasks set no other states than these, the loop the two others.
Targets(t) == IF t = Loop THEN {"ApState", "Connecting"} ELSE {"OnLine", "OffLine"}

TaskTypes ==
    /\ pc \in [Tasks -> LoopLabels \cup EventLabels]
    /\ target \in [Tasks -> NetStates]
    /\ \A t \in Tasks :
           /\ pc[t] \in Labels(t)
           /\ target[t] \in Targets(t) \cup {"Boot"}
           /\ At(t, "set") => target[t] \in Targets(t)

StateTypes ==
    /\ netState \in NetStates
    /\ selection \in Modes
    /\ apConnected \in BOOLEAN
    /\ expired \in BOOLEAN

WifiTypes ==
    /\ radio \in {"off", "ap", "sta"}
    /\ sta \in {"off", "joining", "up"}
    /\ clients \subseteq Clients
    /\ wifiEvents \in Seq(WifiEvents)

OtherTypes ==
    /\ web \in BOOLEAN /\ mqttTimer \in BOOLEAN /\ mqttTried \in BOOLEAN
    /\ spi \in BOOLEAN /\ ethHandle \in {"null", "installed", "started"}
    /\ ipHandler \in BOOLEAN /\ ethUp \in BOOLEAN
    /\ cable \in BOOLEAN /\ ipEvents \in Seq(IpEvents)

\* TypeOK in the groups of variables that the actions leave alone together
Types == TaskTypes /\ StateTypes /\ WifiTypes /\ OtherTypes

LEMMA TypeParts == Types => TypeOK
BY DEF Types, TypeOK, TaskTypes, StateTypes, WifiTypes, OtherTypes, Labels, Tasks, EventTasks,
       Loop, WifiTask, IpTask

LEMMA TaskNames ==
    /\ Loop \in Tasks /\ EventTasks \subseteq Tasks /\ Loop \notin EventTasks
    /\ WifiTask \in EventTasks /\ IpTask \in EventTasks /\ WifiTask # IpTask
    /\ Tasks = {Loop} \cup EventTasks
BY DEF Tasks, EventTasks, Loop, WifiTask, IpTask

LEMMA GoToTypes ==
    ASSUME TaskTypes, NEW t \in Tasks, NEW label \in Labels(t), label # "set", GoTo(t, label)
    PROVE  TaskTypes'
<1>1. pc' \in [Tasks -> LoopLabels \cup EventLabels]
    BY DEF TaskTypes, GoTo, Labels
<1>2. target' \in [Tasks -> NetStates]
    BY DEF TaskTypes, GoTo, NetStates
<1>3. ASSUME NEW u \in Tasks
      PROVE  /\ pc'[u] = IF u = t THEN label ELSE pc[u]
             /\ target'[u] = target[u] \/ target'[u] = "Boot"
             /\ u # t => target'[u] = target[u]
    BY DEF TaskTypes, GoTo
<1> QED
    BY <1>1, <1>2, <1>3 DEF TaskTypes, At

LEMMA SetTypes ==
    ASSUME TaskTypes, NEW t \in Tasks, NEW s \in Targets(t), CallSetState(t, s)
    PROVE  TaskTypes'
<1>1. "set" \in LoopLabels /\ "set" \in EventLabels /\ s \in NetStates
    BY DEF Targets, LoopLabels, EventLabels, NetStates
<1>2. pc' \in [Tasks -> LoopLabels \cup EventLabels] /\ target' \in [Tasks -> NetStates]
    BY <1>1 DEF TaskTypes, CallSetState
<1>3. ASSUME NEW u \in Tasks
      PROVE  /\ pc'[u] = IF u = t THEN "set" ELSE pc[u]
             /\ target'[u] = IF u = t THEN s ELSE target[u]
    BY DEF TaskTypes, CallSetState
<1> QED
    BY <1>1, <1>2, <1>3 DEF TaskTypes, Labels, At

LEMMA QueueTypes ==
    ASSUME WifiTypes
    PROVE  /\ Departures \in Seq(WifiEvents)
           /\ StationEnd \in Seq(WifiEvents)
           /\ <<>> \in Seq(WifiEvents)
<1>1. Cardinality(clients) \in Nat
    BY ClientsAssumption, FS_Subset, FS_CardinalityType DEF WifiTypes
<1>2. Departures \in [1 .. Cardinality(clients) -> WifiEvents]
    BY DEF Departures, WifiEvents
<1>3. Departures \in Seq(WifiEvents)
    BY <1>1, <1>2
<1>4. <<>> \in Seq(WifiEvents)
    OBVIOUS
<1>5. <<"StaDisconnected">> \in Seq(WifiEvents)
    BY DEF WifiEvents
<1>6. StationEnd = <<>> \/ StationEnd = <<"StaDisconnected">>
    BY DEF StationEnd
<1> QED
    BY <1>3, <1>4, <1>5, <1>6

LEMMA WiFiModeTypes ==
    ASSUME WifiTypes, NEW m \in {"off", "ap", "sta"}, WiFiMode(m)
    PROVE  WifiTypes'
<1>1. radio' \in {"off", "ap", "sta"} /\ sta' \in {"off", "joining", "up"}
    BY DEF WiFiMode
<1>2. clients' \subseteq Clients
    BY DEF WiFiMode, WifiTypes
<1>3. wifiEvents' \in Seq(WifiEvents)
    BY QueueTypes DEF WiFiMode, WifiTypes
<1> QED
    BY <1>1, <1>2, <1>3 DEF WifiTypes

LEMMA WiFiDisconnectTypes ==
    ASSUME WifiTypes, WiFiDisconnect
    PROVE  WifiTypes'
<1>1. wifiEvents' \in Seq(WifiEvents)
    BY QueueTypes DEF WiFiDisconnect, WifiTypes
<1> QED
    BY <1>1 DEF WiFiDisconnect, WifiTypes

LEMMA RestartTypes ==
    ASSUME Types, Restart, selection' \in Modes
    PROVE  Types'
<1>1. TaskTypes'
    BY DEF Restart, TaskTypes, Labels, LoopLabels, EventLabels, NetStates, At
<1>2. WifiTypes'
    BY DEF Restart, WifiTypes
<1>3. OtherTypes'
    <2>1. <<>> \in Seq(IpEvents)
        OBVIOUS
    <2>2. cable \in BOOLEAN
        BY DEF Types, OtherTypes
    <2> QED
        BY <2>1, <2>2 DEF Restart, OtherTypes
<1>4. StateTypes'
    BY DEF Restart, StateTypes, NetStates
<1> QED
    BY <1>1, <1>2, <1>3, <1>4 DEF Types
\* The labels of both kinds of tasks, for the steps that both take.
LEMMA SharedLabels ==
    ASSUME TaskTypes, NEW t \in Tasks
    PROVE  /\ "idle" \in Labels(t) /\ "ethStop" \in Labels(t) /\ "ethCheck" \in Labels(t)
           /\ AfterDisconnect(t) \in Labels(t) /\ AfterDisconnect(t) # "set"
           /\ At(t, "set") => FirstEffect(netState, target[t]) \in Labels(t)
           /\ FirstEffect(netState, target[t]) # "set"
<1>1. CASE t = Loop
    <2>1. target[t] \in {"Boot", "ApState", "Connecting"}
        BY <1>1 DEF TaskTypes, Targets
    <2> QED
        BY <1>1, <2>1 DEF Labels, LoopLabels, AfterDisconnect, FirstEffect
<1>2. CASE t # Loop
    <2>1. target[t] \in {"Boot", "OnLine", "OffLine"}
        BY <1>2 DEF TaskTypes, Targets
    <2> QED
        BY <1>2, <2>1 DEF Labels, EventLabels, AfterDisconnect, FirstEffect
<1> QED
    BY <1>1, <1>2

LEMMA SetStateTypes ==
    ASSUME Types, NEW t \in Tasks,
           \/ StoreState(t) \/ DisconnectEthernetCheck(t) \/ DisconnectEthernet(t)
           \/ AbortInDisconnectEthernet(t)
    PROVE  Types'
<1> USE DEF Types
<1>1. CASE StoreState(t)
    <2>1. TaskTypes'
        BY <1>1, SharedLabels, GoToTypes DEF StoreState
    <2>2. netState' \in NetStates
        BY <1>1 DEF StoreState, TaskTypes
    <2> QED
        BY <1>1, <2>1, <2>2 DEF StoreState, StateTypes, WifiTypes, OtherTypes,
               wifiVars, serviceVars, ethVars, envVars
<1>2. CASE DisconnectEthernetCheck(t)
    <2>1. TaskTypes'
        BY <1>2, SharedLabels, GoToTypes DEF DisconnectEthernetCheck
    <2> QED
        BY <1>2, <2>1 DEF DisconnectEthernetCheck, StateTypes, WifiTypes, OtherTypes,
               stateVars, wifiVars, serviceVars, ethVars, envVars
<1>3. CASE DisconnectEthernet(t)
    <2>1. TaskTypes'
        BY <1>3, SharedLabels, GoToTypes DEF DisconnectEthernet
    <2> QED
        BY <1>3, <2>1 DEF DisconnectEthernet, StateTypes, WifiTypes, OtherTypes,
               stateVars, wifiVars, serviceVars, envVars
<1>4. CASE AbortInDisconnectEthernet(t)
    BY <1>4, RestartTypes DEF AbortInDisconnectEthernet, StateTypes
<1> QED
    BY <1>1, <1>2, <1>3, <1>4

LEMMA LoopTypes ==
    ASSUME Types,
           \/ RunBoot \/ RunAp \/ RunConnecting \/ GiveUp \/ RunOffLine \/ DropStation
           \/ AccessPointUp \/ ConnectNothing \/ ConnectWiFi \/ ConnectEthernet \/ StartEthernet
    PROVE  Types'
<1> USE DEF Types
<1>1. /\ Loop \in Tasks
      /\ \A label \in {"idle", "giveUp", "ethCheck", "ethStart"} :
             label \in Labels(Loop) /\ label # "set"
      /\ "ApState" \in Targets(Loop) /\ "Connecting" \in Targets(Loop)
    BY TaskNames DEF Labels, LoopLabels, Targets
<1>2. CASE RunBoot \/ RunAp \/ RunConnecting \/ RunOffLine
    <2>1. TaskTypes'
        BY <1>1, <1>2, SetTypes, GoToTypes DEF RunBoot, RunAp, RunConnecting, RunOffLine
    <2> QED
        BY <1>2, <2>1 DEF RunBoot, RunAp, RunConnecting, RunOffLine, StateTypes, WifiTypes,
               OtherTypes, stateVars, wifiVars, serviceVars, ethVars, envVars
<1>3. CASE GiveUp \/ DropStation
    <2>1. TaskTypes'
        BY <1>1, <1>3, SetTypes, GoToTypes DEF GiveUp, DropStation
    <2>2. WifiTypes'
        BY <1>3, WiFiDisconnectTypes DEF GiveUp, DropStation
    <2> QED
        BY <1>3, <2>1, <2>2 DEF GiveUp, DropStation, StateTypes, OtherTypes,
               stateVars, serviceVars, ethVars, envVars
<1>4. CASE AccessPointUp
    <2>1. TaskTypes'
        BY <1>1, <1>4, GoToTypes DEF AccessPointUp
    <2>2. WifiTypes'
        BY <1>4, WiFiModeTypes DEF AccessPointUp
    <2> QED
        BY <1>4, <2>1, <2>2 DEF AccessPointUp, StateTypes, OtherTypes, ethVars, envVars
<1>5. ASSUME NEW label \in {"idle", "ethStart"}, StampConnecting(label)
      PROVE  TaskTypes' /\ StateTypes'
    <2>1. TaskTypes'
        BY <1>1, <1>5, GoToTypes DEF StampConnecting
    <2> QED
        BY <1>5, <2>1 DEF StampConnecting, StateTypes
<1>6. CASE ConnectNothing
    BY <1>5, <1>6 DEF ConnectNothing, StampConnecting, WifiTypes, OtherTypes,
           wifiVars, serviceVars, ethVars, envVars
<1>7. CASE ConnectWiFi
    <2>1. WifiTypes'
        BY <1>7, WiFiModeTypes DEF ConnectWiFi
    <2> QED
        BY <1>5, <1>7, <2>1 DEF ConnectWiFi, StampConnecting, OtherTypes,
               serviceVars, ethVars, envVars
<1>8. CASE ConnectEthernet
    <2>1. StampConnecting("idle") \/ StampConnecting("ethStart")
        BY <1>8 DEF ConnectEthernet
    <2>2. TaskTypes' /\ StateTypes'
        BY <1>5, <2>1
    <2>3. UNCHANGED serviceVars /\ UNCHANGED envVars
        BY <2>1 DEF StampConnecting
    <2> QED
        BY <1>8, <2>2, <2>3 DEF ConnectEthernet, WifiTypes, OtherTypes,
               wifiVars, serviceVars, ethVars, envVars
<1>9. CASE StartEthernet
    <2>1. TaskTypes'
        BY <1>1, <1>9, GoToTypes DEF StartEthernet
    <2> QED
        BY <1>9, <2>1 DEF StartEthernet, StateTypes, WifiTypes, OtherTypes,
               stateVars, wifiVars, serviceVars, envVars
<1> QED
    BY <1>2, <1>3, <1>4, <1>6, <1>7, <1>8, <1>9

LEMMA EventTypes ==
    ASSUME Types
    PROVE  /\ OnWifiEvent \/ OnIpEvent => Types'
           /\ \A t \in EventTasks :
                  GoOnline(t) \/ StartServices(t) \/ GoOffline(t) \/ OffLineIfOnLine(t)
                      \/ RadioOff(t) => Types'
<1> USE DEF Types
<1>1. ASSUME NEW t \in EventTasks
      PROVE  /\ t \in Tasks
             /\ \A label \in {"idle", "goOnline", "goOffline", "services", "offCheck", "ethCheck"} :
                    label \in Labels(t) /\ label # "set"
             /\ "OnLine" \in Targets(t) /\ "OffLine" \in Targets(t)
    BY TaskNames DEF Labels, EventLabels, Targets
<1>2. CASE OnWifiEvent
    <2>1. TaskTypes'
        BY <1>1, <1>2, TaskNames, GoToTypes DEF OnWifiEvent
    <2>2. apConnected' \in BOOLEAN
        BY <1>2 DEF OnWifiEvent, FlagAfter, StateTypes
    <2>3. wifiEvents' \in Seq(WifiEvents)
        BY <1>2 DEF OnWifiEvent, WifiTypes
    <2> QED
        BY <1>2, <2>1, <2>2, <2>3 DEF OnWifiEvent, StateTypes, WifiTypes, OtherTypes,
               serviceVars, ethVars, envVars
<1>3. CASE OnIpEvent
    <2>1. TaskTypes'
        BY <1>1, <1>3, TaskNames, GoToTypes DEF OnIpEvent
    <2>2. ipEvents' \in Seq(IpEvents)
        BY <1>3 DEF OnIpEvent, OtherTypes
    <2> QED
        BY <1>3, <2>1, <2>2 DEF OnIpEvent, StateTypes, WifiTypes, OtherTypes,
               stateVars, wifiVars, serviceVars, ethVars
<1>4. ASSUME NEW t \in EventTasks, GoOnline(t) \/ StartServices(t) \/ GoOffline(t)
      PROVE  Types'
    <2>1. TaskTypes'
        BY <1>1, <1>4, SetTypes, GoToTypes DEF GoOnline, StartServices, GoOffline
    <2>2. StateTypes' /\ WifiTypes'
        BY <1>4 DEF GoOnline, StartServices, GoOffline, StateTypes, WifiTypes,
               stateVars, wifiVars
    <2>3. OtherTypes'
        BY <1>4 DEF GoOnline, StartServices, GoOffline, OtherTypes, ethVars, envVars
    <2> QED
        BY <2>1, <2>2, <2>3
<1>5. ASSUME NEW t \in EventTasks, OffLineIfOnLine(t)
      PROVE  Types'
    <2>1. TaskTypes'
        BY <1>1, <1>5, SetTypes, GoToTypes DEF OffLineIfOnLine
    <2> QED
        BY <1>5, <2>1 DEF OffLineIfOnLine, StateTypes, WifiTypes, OtherTypes,
               stateVars, wifiVars, serviceVars, ethVars, envVars
<1>6. ASSUME NEW t \in EventTasks, RadioOff(t)
      PROVE  Types'
    <2>1. TaskTypes'
        BY <1>1, <1>6, GoToTypes DEF RadioOff
    <2>2. WifiTypes'
        BY <1>6, WiFiModeTypes DEF RadioOff
    <2> QED
        BY <1>6, <2>1, <2>2 DEF RadioOff, StateTypes, OtherTypes,
               stateVars, serviceVars, ethVars, envVars
<1> QED
    BY <1>2, <1>3, <1>4, <1>5, <1>6

LEMMA OutsideTypes ==
    ASSUME Types, Environment \/ WindowPasses \/ MqttTimerFires
    PROVE  Types'
<1> USE DEF Types
<1> USE DEF QuietOutside, stateVars, taskVars, wifiVars, serviceVars, ethVars, envVars
<1>1. CASE MqttTimerFires
    <2>1. TaskTypes' /\ StateTypes' /\ WifiTypes'
        BY <1>1 DEF MqttTimerFires, TaskTypes, StateTypes, WifiTypes, At
    <2>2. OtherTypes'
        BY <1>1 DEF MqttTimerFires, OtherTypes
    <2> QED
        BY <2>1, <2>2
<1>2. CASE WindowPasses
    <2>1. TaskTypes' /\ StateTypes'
        BY <1>2 DEF WindowPasses, TaskTypes, StateTypes, At
    <2>2. WifiTypes' /\ OtherTypes'
        BY <1>2 DEF WindowPasses, WifiTypes, OtherTypes
    <2> QED
        BY <2>1, <2>2
<1>3. ASSUME Environment
      PROVE  UNCHANGED <<stateVars, taskVars, radio, serviceVars>>
    BY <1>3 DEF Environment, ClientJoins, ClientLeaves, StationGetsIp, StationFails,
           EthernetGetsIp, PlugCable, UnplugCable
<1>4. ASSUME \E c \in Clients : ClientJoins(c) \/ ClientLeaves(c)
      PROVE  WifiTypes' /\ OtherTypes'
    <2>1. PICK c \in Clients : ClientJoins(c) \/ ClientLeaves(c)
        BY <1>4
    <2>2. wifiEvents' \in Seq(WifiEvents)
        BY <2>1 DEF ClientJoins, ClientLeaves, WifiTypes, WifiEvents
    <2>3. clients' \subseteq Clients
        BY <2>1 DEF ClientJoins, ClientLeaves, WifiTypes
    <2> QED
        BY <2>1, <2>2, <2>3 DEF ClientJoins, ClientLeaves, WifiTypes, OtherTypes
<1>5. ASSUME StationGetsIp \/ StationFails
      PROVE  WifiTypes' /\ OtherTypes'
    <2>1. wifiEvents' \in Seq(WifiEvents)
        BY <1>5 DEF StationGetsIp, StationFails, WifiTypes, WifiEvents
    <2> QED
        BY <1>5, <2>1 DEF StationGetsIp, StationFails, WifiTypes, OtherTypes
<1>6. ASSUME EthernetGetsIp \/ PlugCable \/ UnplugCable
      PROVE  WifiTypes' /\ OtherTypes'
    <2>1. ipEvents' \in Seq(IpEvents)
        BY <1>6 DEF EthernetGetsIp, PlugCable, UnplugCable, OtherTypes, IpEvents
    <2> QED
        BY <1>6, <2>1 DEF EthernetGetsIp, PlugCable, UnplugCable, WifiTypes, OtherTypes
<1>7. CASE Environment
    <2>1. TaskTypes' /\ StateTypes'
        BY <1>3, <1>7 DEF TaskTypes, StateTypes, At
    <2> QED
        BY <1>4, <1>5, <1>6, <1>7, <2>1 DEF Environment
<1> QED
    BY <1>1, <1>2, <1>7

LEMMA PageTypes ==
    ASSUME Types, RunFlasherConfig \/ Reboot \/ \E sel \in Submittable : Submit(sel)
    PROVE  Types'
<1>1. CASE RunFlasherConfig \/ Reboot
    <2>1. Restart /\ selection' \in Modes
        BY <1>1 DEF RunFlasherConfig, Reboot, Types, StateTypes, Modes
    <2> QED
        BY <2>1, RestartTypes
<1>2. CASE \E sel \in Submittable : Submit(sel)
    <2>1. PICK sel \in Submittable : Submit(sel)
        BY <1>2
    <2>2. sel \in Modes
        BY SelectionsAssumption
    <2> QED
        BY <2>1, <2>2 DEF Submit, Types, TaskTypes, StateTypes, WifiTypes, OtherTypes,
               At, taskVars, wifiVars, serviceVars, ethVars, envVars
<1> QED
    BY <1>1, <1>2

LEMMA TypesInit == Init => Types
<1> SUFFICES ASSUME Init PROVE Types
    OBVIOUS
<1>1. TaskTypes
    BY DEF Init, TaskTypes, Labels, LoopLabels, EventLabels, NetStates, At
<1>2. StateTypes
    BY SelectionsAssumption DEF Init, StateTypes, NetStates
<1>3. <<>> \in Seq(WifiEvents) /\ <<>> \in Seq(IpEvents)
    OBVIOUS
<1> QED
    BY <1>1, <1>2, <1>3 DEF Init, Types, WifiTypes, OtherTypes

LEMMA TypesStep ==
    ASSUME Types, [Next]_vars
    PROVE  Types'
<1>1. CASE UNCHANGED vars
    BY <1>1 DEF vars, stateVars, taskVars, wifiVars, serviceVars, ethVars, envVars,
           Types, TaskTypes, StateTypes, WifiTypes, OtherTypes, At
<1>2. CASE LoopStep
    BY <1>2, TaskNames, LoopTypes, SetStateTypes DEF LoopStep
<1>3. CASE WifiTaskStep \/ IpTaskStep
    BY <1>3, TaskNames, EventTypes, SetStateTypes DEF WifiTaskStep, IpTaskStep, HandlerStep
<1>4. CASE RunFlasherConfig \/ Reboot \/ \E sel \in Submittable : Submit(sel)
    BY <1>4, PageTypes
<1>5. CASE MqttTimerFires \/ WindowPasses \/ Environment
    BY <1>5, OutsideTypes
<1> QED
    BY <1>1, <1>2, <1>3, <1>4, <1>5 DEF Next

LEMMA TypesInvariant == Spec => []Types
BY TypesInit, TypesStep, PTL DEF Spec

\* Every variable keeps its type, however the tasks and the drivers interleave.
THEOREM TypeCorrect == Spec => []TypeOK
BY TypesInvariant, TypeParts, PTL
-----------------------------------------------------------------------------
(***************************************************************************)
(* The Ethernet teardown                                                   *)
(***************************************************************************)
\* What a step of task t does to the places of all tasks.
Moves(t, label) == \A u \in Tasks : pc'[u] = IF u = t THEN label ELSE pc[u]

LEMMA MoveFacts ==
    ASSUME TaskTypes, NEW t \in Tasks
    PROVE  /\ \A label : GoTo(t, label) => Moves(t, label)
           /\ \A label : GoTo(t, label) /\ label # "idle" => target' = target
           /\ \A label : GoTo(t, label) => \A u \in Tasks : u # t => target'[u] = target[u]
           /\ \A s : CallSetState(t, s) =>
                  Moves(t, "set") /\ \A u \in Tasks : target'[u] = IF u = t THEN s ELSE target[u]
BY DEF TaskTypes, GoTo, CallSetState, Moves

\* A step that neither touches the Ethernet nor the state, taken by a task that was not
\* tearing down, and that is not the loop's decision to give up.
LEMMA EthernetBystander ==
    ASSUME EthernetAttended, UNCHANGED <<netState, ethHandle, ipHandler>>,
           NEW t \in Tasks, NEW label, Moves(t, label),
           TearsDown(t) => label \in {"radioOff", "dropSta", "ethCheck", "ethStop"},
           label \notin {"connect", "ethStart"},
           GivesUp' => GivesUp \/ netState # "OffLine"
    PROVE  EthernetAttended'
<1>1. ASSUME NEW u \in Tasks, TearsDown(u) PROVE TearsDown(u)'
    BY <1>1 DEF TearsDown, Moves
<1>2. pc'[Loop] \in {"connect", "ethStart"} => pc[Loop] \in {"connect", "ethStart"}
    BY TaskNames DEF Moves
<1> QED
    BY <1>1, <1>2 DEF EthernetAttended

\* GivesUp depends on the loop alone.
LEMMA GivesUpOfLoop ==
    ASSUME TaskTypes, NEW t \in EventTasks, NEW label, Moves(t, label), target'[Loop] = target[Loop]
    PROVE  GivesUp' = GivesUp
BY TaskNames DEF Moves, GivesUp, At

LEMMA EthernetLoop ==
    ASSUME Types, EthernetAttended,
           \/ RunBoot \/ RunAp \/ RunConnecting \/ GiveUp \/ RunOffLine \/ DropStation
           \/ AccessPointUp \/ ConnectNothing \/ ConnectWiFi \/ ConnectEthernet \/ StartEthernet
    PROVE  EthernetAttended'
<1> USE DEF Types, stateVars, ethVars
<1>1. Loop \in Tasks
    BY TaskNames
<1>2. CASE RunBoot \/ RunAp \/ RunOffLine \/ RunConnecting \/ GiveUp
    <2>1. PICK label \in {"set", "giveUp"} : Moves(Loop, label)
        BY <1>1, <1>2, MoveFacts DEF RunBoot, RunAp, RunOffLine, RunConnecting, GiveUp
    <2>2. UNCHANGED <<netState, ethHandle, ipHandler>> /\ ~TearsDown(Loop)
        BY <1>2 DEF RunBoot, RunAp, RunOffLine, RunConnecting, GiveUp, RunIn, At, TearsDown
    <2>3. GivesUp' => GivesUp \/ netState # "OffLine"
        <3>1. CASE RunBoot \/ RunAp \/ RunConnecting
            BY <3>1 DEF RunBoot, RunAp, RunConnecting, RunIn
        <3>2. CASE GiveUp
            BY <3>2 DEF GiveUp, GivesUp
        <3>3. CASE RunOffLine
            BY <1>1, <3>3, MoveFacts DEF RunOffLine, GivesUp, At, Moves
        <3> QED
            BY <1>2, <3>1, <3>2, <3>3
    <2> QED
        BY <1>1, <2>1, <2>2, <2>3, EthernetBystander
<1>3. CASE DropStation
    <2>1. Moves(Loop, "ethCheck") /\ UNCHANGED <<netState, ethHandle, ipHandler>>
        BY <1>1, <1>3, MoveFacts DEF DropStation
    <2>2. ~GivesUp'
        BY <1>1, <2>1 DEF GivesUp, Moves, At
    <2> QED
        BY <1>1, <2>1, <2>2, EthernetBystander
<1>4. CASE AccessPointUp \/ ConnectNothing \/ ConnectWiFi
    <2>1. Moves(Loop, "idle") /\ UNCHANGED <<netState, ethHandle, ipHandler>>
        BY <1>1, <1>4, MoveFacts DEF AccessPointUp, ConnectNothing, ConnectWiFi, StampConnecting
    <2>2. ~GivesUp' /\ ~TearsDown(Loop)
        BY <1>1, <1>4, <2>1 DEF GivesUp, Moves, At, TearsDown, AccessPointUp, ConnectNothing,
               ConnectWiFi, StampConnecting
    <2> QED
        BY <1>1, <2>1, <2>2, EthernetBystander
<1>5. CASE ConnectEthernet
    <2>1. PICK label \in {"idle", "ethStart"} : StampConnecting(label)
        BY <1>5 DEF ConnectEthernet
    <2>2. At(Loop, "connect") /\ Moves(Loop, label) /\ UNCHANGED netState
        BY <1>1, <2>1, MoveFacts DEF StampConnecting
    <2>3. netState \in PastApState /\ ~GivesUp'
        BY <1>1, <2>2 DEF EthernetAttended, At, GivesUp, Moves
    <2>4. ethHandle' = "null" => ~ipHandler'
        BY <1>5 DEF ConnectEthernet, EthernetAttended
    <2> QED
        BY <2>2, <2>3, <2>4 DEF EthernetAttended, PastApState
<1>6. CASE StartEthernet
    <2>1. At(Loop, "ethStart") /\ Moves(Loop, "idle") /\ UNCHANGED netState
        BY <1>1, <1>6, MoveFacts DEF StartEthernet
    <2>2. netState \in PastApState /\ ~GivesUp'
        BY <1>1, <2>1 DEF EthernetAttended, At, GivesUp, Moves
    <2>3. ethHandle' = "null" => ~ipHandler'
        BY <1>6 DEF StartEthernet, EthernetAttended
    <2> QED
        BY <2>1, <2>2, <2>3 DEF EthernetAttended, PastApState
<1> QED
    BY <1>2, <1>3, <1>4, <1>5, <1>6

LEMMA EthernetSetState ==
    ASSUME Types, EthernetAttended, NEW t \in Tasks,
           \/ StoreState(t) \/ DisconnectEthernetCheck(t) \/ DisconnectEthernet(t)
           \/ AbortInDisconnectEthernet(t)
    PROVE  EthernetAttended'
<1> USE DEF Types, stateVars, ethVars
<1>1. Loop \in Tasks /\ (t = Loop \/ t \in EventTasks)
    BY TaskNames
<1>2. CASE StoreState(t)
    <2> DEFINE label == FirstEffect(netState, target[t])
    <2>1. Moves(t, label) /\ netState' = target[t] /\ UNCHANGED <<ethHandle, ipHandler>>
        BY <1>2, MoveFacts DEF StoreState
    <2>2. At(t, "set") /\ target[t] \in Targets(t)
        BY <1>2 DEF StoreState, TaskTypes
    <2>3. ASSUME NEW u \in Tasks, TearsDown(u) PROVE TearsDown(u)'
        BY <2>1, <2>2, <2>3 DEF TearsDown, Moves, At
    <2>4. CASE t = Loop
        <3>1. ~GivesUp'
            <4>1. label # "set" /\ label # "giveUp"
                BY DEF FirstEffect
            <4> QED
                BY <1>1, <2>1, <2>4, <4>1 DEF GivesUp, Moves, At
        <3>2. CASE target[t] = "ApState"
            <4>1. label = "dropSta" \/ (label = "apUp" /\ netState \notin {"Connecting", "OnLine"})
                BY <3>2 DEF FirstEffect
            <4>2. GivesUp
                BY <2>2, <2>4, <3>2 DEF GivesUp
            <4>3. label = "dropSta" => TearsDown(t)'
                BY <2>1 DEF Moves, TearsDown
            <4>4. ethHandle # "null" => \E u \in Tasks : TearsDown(u)'
                BY <2>3, <4>1, <4>2, <4>3 DEF EthernetAttended
            <4>5. pc'[Loop] \notin {"connect", "ethStart"}
                BY <1>1, <2>1, <2>4, <4>1 DEF Moves
            <4> QED
                BY <2>1, <4>4, <4>5 DEF EthernetAttended
        <3>3. CASE target[t] = "Connecting"
            BY <2>1, <3>1, <3>3 DEF EthernetAttended, PastApState
        <3> QED
            BY <2>2, <2>4, <3>2, <3>3 DEF Targets
    <2>5. CASE t \in EventTasks
        <3>1. target[t] \in {"OnLine", "OffLine"} /\ t # Loop
            BY <2>2, <2>5, TaskNames DEF Targets
        <3>2. target[t] = "OffLine" => TearsDown(t)'
            BY <2>1 DEF FirstEffect, TearsDown, Moves
        <3> QED
            BY <1>1, <2>1, <3>1, <3>2 DEF EthernetAttended, Moves, PastApState
    <2> QED
        BY <1>1, <2>4, <2>5
<1>3. CASE DisconnectEthernetCheck(t)
    <2> DEFINE label == IF ethHandle = "null" THEN AfterDisconnect(t) ELSE "ethStop"
    <2>1. Moves(t, label) /\ UNCHANGED <<netState, ethHandle, ipHandler>>
        BY <1>3, MoveFacts DEF DisconnectEthernetCheck
    <2>2. ethHandle # "null" => TearsDown(t)'
        BY <2>1 DEF Moves, TearsDown
    <2>3. pc'[Loop] \in {"connect", "ethStart"} => pc[Loop] \in {"connect", "ethStart"}
        BY <1>1, <2>1 DEF Moves, AfterDisconnect
    <2> QED
        BY <2>1, <2>2, <2>3 DEF EthernetAttended
<1>4. CASE DisconnectEthernet(t)
    <2>1. Moves(t, AfterDisconnect(t)) /\ UNCHANGED netState /\ ethHandle' = "null" /\ ~ipHandler'
        BY <1>4, MoveFacts DEF DisconnectEthernet
    <2>2. pc'[Loop] \in {"connect", "ethStart"} => pc[Loop] \in {"connect", "ethStart"}
        BY <1>1, <2>1 DEF Moves, AfterDisconnect
    <2> QED
        BY <2>1, <2>2 DEF EthernetAttended
<1>5. CASE AbortInDisconnectEthernet(t)
    BY <1>1, <1>5 DEF AbortInDisconnectEthernet, Restart, EthernetAttended
<1> QED
    BY <1>2, <1>3, <1>4, <1>5

LEMMA EthernetEvents ==
    ASSUME Types, EthernetAttended, NEW t \in EventTasks,
           \/ OnWifiEvent /\ t = WifiTask
           \/ OnIpEvent /\ t = IpTask
           \/ GoOnline(t) \/ StartServices(t) \/ GoOffline(t) \/ OffLineIfOnLine(t) \/ RadioOff(t)
    PROVE  EthernetAttended'
<1> USE DEF Types, stateVars, ethVars
<1>1. t \in Tasks /\ Loop \in Tasks /\ t # Loop
    BY TaskNames
<1> DEFINE Labeled(label) ==
          /\ Moves(t, label)
          /\ target'[Loop] = target[Loop]
          /\ TearsDown(t) => label = "ethCheck"
          /\ label \in {"idle", "goOnline", "goOffline", "services", "offCheck", "set", "ethCheck"}
<1>2. \E label : Labeled(label)
    <2>1. CASE OnWifiEvent /\ t = WifiTask
        <3>1. At(t, "idle") /\ (GoTo(t, "goOnline") \/ GoTo(t, "goOffline"))
            BY <2>1 DEF OnWifiEvent
        <3>2. Labeled("goOnline") \/ Labeled("goOffline")
            BY <1>1, <3>1, MoveFacts DEF TearsDown, At
        <3> QED
            BY <3>2
    <2>2. CASE OnIpEvent /\ t = IpTask
        <3>1. At(t, "idle") /\ (GoTo(t, "idle") \/ GoTo(t, "goOnline") \/ GoTo(t, "goOffline"))
            BY <2>2 DEF OnIpEvent
        <3>2. Labeled("idle") \/ Labeled("goOnline") \/ Labeled("goOffline")
            BY <1>1, <3>1, MoveFacts DEF TearsDown, At
        <3> QED
            BY <3>2
    <2>3. CASE GoOnline(t) \/ GoOffline(t)
        <3>1. ~TearsDown(t) /\ (GoTo(t, "idle") \/ GoTo(t, "services") \/ GoTo(t, "offCheck"))
            BY <2>3 DEF GoOnline, GoOffline, TearsDown, At
        <3>2. Labeled("idle") \/ Labeled("services") \/ Labeled("offCheck")
            BY <1>1, <3>1, MoveFacts
        <3> QED
            BY <3>2
    <2>4. CASE StartServices(t) \/ OffLineIfOnLine(t)
        <3>1. ~TearsDown(t) /\ (GoTo(t, "idle") \/ \E s : CallSetState(t, s))
            BY <2>4 DEF StartServices, OffLineIfOnLine, TearsDown, At
        <3>2. Labeled("idle") \/ Labeled("set")
            BY <1>1, <3>1, MoveFacts
        <3> QED
            BY <3>2
    <2>5. CASE RadioOff(t)
        <3>1. Labeled("ethCheck")
            BY <1>1, <2>5, MoveFacts DEF RadioOff
        <3> QED
            BY <3>1
    <2> QED
        BY <2>1, <2>2, <2>3, <2>4, <2>5
<1>3. UNCHANGED <<netState, ethHandle, ipHandler>>
    BY DEF OnWifiEvent, OnIpEvent, GoOnline, StartServices, GoOffline, OffLineIfOnLine, RadioOff
<1>4. GivesUp' = GivesUp
    BY <1>2, GivesUpOfLoop
<1> QED
    BY <1>1, <1>2, <1>3, <1>4, EthernetBystander

LEMMA EthernetStep ==
    ASSUME Types, EthernetAttended, [Next]_vars
    PROVE  EthernetAttended'
<1>1. CASE UNCHANGED <<netState, ethHandle, ipHandler, pc, target>>
    BY <1>1 DEF EthernetAttended, TearsDown, GivesUp, At
<1>2. CASE UNCHANGED vars
    BY <1>1, <1>2 DEF vars, stateVars, taskVars, ethVars
<1>3. CASE LoopStep
    BY <1>3, TaskNames, EthernetLoop, EthernetSetState DEF LoopStep
<1>4. CASE WifiTaskStep \/ IpTaskStep
    BY <1>4, TaskNames, EthernetEvents, EthernetSetState DEF WifiTaskStep, IpTaskStep, HandlerStep
<1>5. CASE RunFlasherConfig \/ Reboot
    <2>1. Restart
        BY <1>5 DEF RunFlasherConfig, Reboot
    <2> QED
        BY <2>1, TaskNames DEF Restart, EthernetAttended
<1>6. CASE MqttTimerFires \/ WindowPasses \/ \E sel \in Submittable : Submit(sel)
    <2>1. UNCHANGED <<netState, ethHandle, ipHandler, pc, target>>
        BY <1>6 DEF MqttTimerFires, WindowPasses, Submit, stateVars, taskVars, ethVars
    <2> QED
        BY <1>1, <2>1
<1>7. CASE Environment
    <2>1. UNCHANGED <<netState, ethHandle, ipHandler, pc, target>>
        <3>1. CASE \E c \in Clients : ClientJoins(c) \/ ClientLeaves(c)
            BY <3>1 DEF ClientJoins, ClientLeaves, QuietOutside, stateVars, taskVars, ethVars
        <3>2. CASE StationGetsIp \/ StationFails
            BY <3>2 DEF StationGetsIp, StationFails, QuietOutside, stateVars, taskVars, ethVars
        <3>3. CASE PlugCable \/ UnplugCable
            BY <3>3 DEF PlugCable, UnplugCable, QuietOutside, stateVars, taskVars, ethVars
        <3>4. CASE EthernetGetsIp
            BY <3>4 DEF EthernetGetsIp, QuietOutside, stateVars, taskVars, ethVars
        <3> QED
            BY <1>7, <3>1, <3>2, <3>3, <3>4 DEF Environment
    <2> QED
        BY <1>1, <2>1
<1> QED
    BY <1>2, <1>3, <1>4, <1>5, <1>6, <1>7 DEF Next

\* While Ethernet is installed, either the state machine is past ApState or a task is
\* about to take it down, whatever the loop and the event tasks did to each other.
THEOREM Attendance == Spec => []EthernetAttended
<1>1. Init => EthernetAttended
    BY TaskNames DEF Init, EthernetAttended
<1>2. Types /\ EthernetAttended /\ [Next]_vars => EthernetAttended'
    BY EthernetStep
<1> QED
    BY <1>1, <1>2, TypesInvariant, PTL DEF Spec

\* A settled ApState has neither a driver nor a handler of the Ethernet left, whichever
\* task tore them down and however the teardowns overlapped.
THEOREM SettledApIsReleased == Spec => []SettledApReleased
<1>1. EthernetAttended => SettledApReleased
    BY DEF EthernetAttended, SettledApReleased, AllIdle, TearsDown, At
<1> QED
    BY <1>1, Attendance, PTL

-----------------------------------------------------------------------------
(***************************************************************************)
(* The MQTT timer                                                          *)
(***************************************************************************)
\* MqttAttended without its condition on the SPI bus
TimerAttended ==
    /\ At(IpTask, "idle") /\ ~ipHandler
    /\ At(WifiTask, "set") /\ target[WifiTask] = "OnLine" => mqttTimer
    /\ netState = "OnLine" =>
           \/ mqttTimer \/ mqttTried
           \/ At(WifiTask, "offCheck")
           \/ At(WifiTask, "set") /\ target[WifiTask] = "OffLine"

\* A step of the loop that does not set OnLine leaves the event tasks and the timer alone.
LEMMA TimerLoop ==
    ASSUME Types, TimerAttended, LoopStep, ~spi, ~spi'
    PROVE  TimerAttended'
<1> USE DEF Types, stateVars, ethVars, serviceVars
<1>1. Loop \in Tasks /\ WifiTask \in Tasks /\ IpTask \in Tasks /\ Loop # WifiTask /\ Loop # IpTask
    BY TaskNames
<1>2. ASSUME NEW label, Moves(Loop, label), \A u \in Tasks : u # Loop => target'[u] = target[u],
             ~ipHandler', UNCHANGED <<mqttTimer, mqttTried>>,
             netState' = "OnLine" => netState = "OnLine"
      PROVE  TimerAttended'
    BY <1>1, <1>2 DEF TimerAttended, Moves, At
<1>3. CASE RunBoot \/ RunAp \/ RunConnecting \/ GiveUp \/ RunOffLine \/ DropStation
    BY <1>1, <1>2, <1>3, MoveFacts DEF RunBoot, RunAp, RunConnecting, GiveUp, RunOffLine,
           DropStation, TimerAttended
<1>4. CASE AccessPointUp \/ ConnectNothing \/ ConnectWiFi \/ StartEthernet
    BY <1>1, <1>2, <1>4, MoveFacts DEF AccessPointUp, ConnectNothing, ConnectWiFi, StartEthernet,
           StampConnecting, TimerAttended
<1>5. CASE ConnectEthernet      \* without a bus: nothing but the time stamp
    <2>1. StampConnecting("idle") /\ UNCHANGED ipHandler
        BY <1>5 DEF ConnectEthernet
    <2> QED
        BY <1>1, <1>2, <2>1, MoveFacts DEF StampConnecting, TimerAttended
<1>6. CASE StoreState(Loop)
    <2>1. netState' \in {"ApState", "Connecting"}
        BY <1>1, <1>6 DEF StoreState, TaskTypes, Targets
    <2> QED
        BY <1>1, <1>2, <1>6, <2>1, MoveFacts DEF StoreState, TimerAttended
<1>7. CASE DisconnectEthernetCheck(Loop) \/ DisconnectEthernet(Loop)
    BY <1>1, <1>2, <1>7, MoveFacts DEF DisconnectEthernetCheck, DisconnectEthernet, TimerAttended
<1>8. CASE AbortInDisconnectEthernet(Loop)
    BY <1>1, <1>8 DEF AbortInDisconnectEthernet, Restart, TimerAttended, At
<1> QED
    BY <1>3, <1>4, <1>5, <1>6, <1>7, <1>8 DEF LoopStep

LEMMA TimerWifi ==
    ASSUME Types, TimerAttended, WifiTaskStep, ~spi, ~spi'
    PROVE  TimerAttended'
<1> USE DEF Types, stateVars, ethVars, serviceVars
<1>1. WifiTask \in Tasks /\ IpTask \in Tasks /\ WifiTask # IpTask
      /\ Targets(WifiTask) = {"OnLine", "OffLine"}
    BY TaskNames DEF Targets
<1>2. ASSUME NEW label, Moves(WifiTask, label), ~ipHandler'
      PROVE  /\ At(IpTask, "idle")' /\ ~ipHandler'
             /\ At(WifiTask, label)'
             /\ \A other : other # label => ~At(WifiTask, other)'
    BY <1>1, <1>2 DEF TimerAttended, Moves, At
\* The steps that end a handler or go on within it, and neither store nor stop a timer
<1>3. ASSUME NEW label, Moves(WifiTask, label), label # "set", ~ipHandler',
             UNCHANGED <<netState, mqttTried>>, mqttTimer => mqttTimer',
             ~At(WifiTask, "set"), At(WifiTask, "offCheck") => netState # "OnLine"
      PROVE  TimerAttended'
    BY <1>2, <1>3 DEF TimerAttended
<1>4. CASE OnWifiEvent \/ GoOnline(WifiTask) \/ RadioOff(WifiTask)
    BY <1>1, <1>3, <1>4, MoveFacts DEF OnWifiEvent, GoOnline, RadioOff, At, TimerAttended
<1>5. CASE StartServices(WifiTask)
    <2>1. Moves(WifiTask, "set") /\ mqttTimer' /\ ~ipHandler'
        BY <1>1, <1>5, MoveFacts DEF StartServices, TimerAttended
    <2> QED
        BY <1>2, <2>1 DEF TimerAttended
<1>6. CASE GoOffline(WifiTask)
    <2>1. Moves(WifiTask, "offCheck") /\ ~ipHandler'
        BY <1>1, <1>6, MoveFacts DEF GoOffline, TimerAttended
    <2> QED
        BY <1>2, <2>1 DEF TimerAttended
<1>7. CASE OffLineIfOnLine(WifiTask)
    <2>1. CASE netState = "OnLine"
        <3>1. /\ Moves(WifiTask, "set") /\ ~ipHandler'
              /\ target'[WifiTask] = "OffLine"
            BY <1>1, <1>7, <2>1, MoveFacts DEF OffLineIfOnLine, TimerAttended
        <3> QED
            BY <1>2, <3>1 DEF TimerAttended
    <2>2. CASE netState # "OnLine"
        BY <1>1, <1>3, <1>7, <2>2, MoveFacts DEF OffLineIfOnLine, At, TimerAttended
    <2> QED
        BY <2>1, <2>2
<1>8. CASE StoreState(WifiTask)
    <2>1. /\ At(WifiTask, "set") /\ target[WifiTask] \in {"OnLine", "OffLine"}
          /\ netState' = target[WifiTask] /\ ~ipHandler'
          /\ UNCHANGED <<mqttTimer, mqttTried>>
        BY <1>1, <1>8 DEF StoreState, TaskTypes, TimerAttended
    <2>2. PICK label : Moves(WifiTask, label) /\ label # "set"
        BY <1>1, <1>8, MoveFacts, SharedLabels DEF StoreState
    <2> QED
        BY <1>2, <2>1, <2>2 DEF TimerAttended
<1>9. CASE DisconnectEthernetCheck(WifiTask) \/ DisconnectEthernet(WifiTask)
    BY <1>1, <1>3, <1>9, MoveFacts, SharedLabels DEF DisconnectEthernetCheck, DisconnectEthernet,
           At, TimerAttended
<1>10. CASE AbortInDisconnectEthernet(WifiTask)
    BY <1>1, <1>10 DEF AbortInDisconnectEthernet, Restart, TimerAttended, At
<1> QED
    BY <1>4, <1>5, <1>6, <1>7, <1>8, <1>9, <1>10 DEF WifiTaskStep, HandlerStep

LEMMA TimerStep ==
    ASSUME Types, MqttAttended, [Next]_vars
    PROVE  MqttAttended'
<1> SUFFICES ASSUME ~spi' PROVE TimerAttended'
    BY DEF MqttAttended, TimerAttended
<1> USE DEF stateVars, taskVars, ethVars, serviceVars
<1>1. WifiTask \in Tasks /\ IpTask \in Tasks /\ WifiTask \in EventTasks
    BY TaskNames
<1>2. CASE Restart
    BY <1>1, <1>2 DEF Restart, TimerAttended, At
<1>3. ASSUME ~spi PROVE TimerAttended
    BY <1>3 DEF MqttAttended, TimerAttended
<1>4. ASSUME UNCHANGED <<netState, ipHandler, spi, pc, target, mqttTimer, mqttTried>>
      PROVE  TimerAttended'
    BY <1>3, <1>4 DEF TimerAttended, At
<1>5. CASE UNCHANGED vars
    BY <1>4, <1>5 DEF vars
<1>6. CASE LoopStep
    <2>1. Restart \/ ~spi
        BY <1>6 DEF LoopStep, RunBoot, RunAp, RunConnecting, GiveUp, RunOffLine, StoreState,
               DropStation, DisconnectEthernetCheck, DisconnectEthernet, AbortInDisconnectEthernet,
               AccessPointUp, ConnectNothing, ConnectWiFi, ConnectEthernet, StartEthernet
    <2> QED
        BY <1>2, <1>3, <1>6, <2>1, TimerLoop
<1>7. CASE WifiTaskStep
    <2>1. Restart \/ ~spi
        BY <1>7 DEF WifiTaskStep, HandlerStep, OnWifiEvent, GoOnline, StartServices, GoOffline,
               OffLineIfOnLine, StoreState, RadioOff, DisconnectEthernetCheck, DisconnectEthernet,
               AbortInDisconnectEthernet
    <2> QED
        BY <1>2, <1>3, <1>7, <2>1, TimerWifi
<1>8. CASE IpTaskStep
    <2>1. Restart \/ ~spi
        BY <1>8 DEF IpTaskStep, HandlerStep, OnIpEvent, GoOnline, StartServices, GoOffline,
               OffLineIfOnLine, StoreState, RadioOff, DisconnectEthernetCheck, DisconnectEthernet,
               AbortInDisconnectEthernet
    <2>2. CASE ~spi
        <3>1. At(IpTask, "idle") /\ ~ipHandler
            BY <1>3, <2>2 DEF TimerAttended
        <3>2. OnIpEvent
            BY <1>8, <3>1 DEF IpTaskStep, HandlerStep, GoOnline, StartServices, GoOffline,
                   OffLineIfOnLine, StoreState, RadioOff, DisconnectEthernetCheck,
                   DisconnectEthernet, AbortInDisconnectEthernet, At
        <3>3. /\ GoTo(IpTask, "idle")
              /\ UNCHANGED <<netState, ipHandler, mqttTimer, mqttTried>>
            BY <3>1, <3>2 DEF OnIpEvent
        <3>4. /\ At(IpTask, "idle")' /\ pc'[WifiTask] = pc[WifiTask]
              /\ target'[WifiTask] = target[WifiTask]
            BY <1>1, <3>3, MoveFacts, TaskNames DEF Types, Moves, At
        <3> QED
            BY <1>3, <2>2, <3>3, <3>4 DEF TimerAttended, At
    <2> QED
        BY <1>2, <2>1, <2>2
<1>9. CASE MqttTimerFires
    <2>1. /\ UNCHANGED <<netState, ipHandler, pc, target, spi>>
          /\ ~(At(WifiTask, "set") /\ target[WifiTask] = "OnLine")
          /\ mqttTried' = (netState = "OnLine")
        BY <1>1, <1>9 DEF MqttTimerFires
    <2> QED
        BY <1>3, <2>1 DEF TimerAttended, At
<1>10. CASE RunFlasherConfig \/ Reboot
    BY <1>2, <1>10 DEF RunFlasherConfig, Reboot
<1>11. CASE WindowPasses \/ \E sel \in Submittable : Submit(sel)
    BY <1>4, <1>11 DEF WindowPasses, Submit
<1>12. CASE Environment
    <2>1. UNCHANGED <<netState, ipHandler, pc, target, mqttTimer, mqttTried, spi>>
        <3>1. CASE \E c \in Clients : ClientJoins(c) \/ ClientLeaves(c)
            BY <3>1 DEF ClientJoins, ClientLeaves, QuietOutside
        <3>2. CASE StationGetsIp \/ StationFails
            BY <3>2 DEF StationGetsIp, StationFails, QuietOutside
        <3>3. CASE PlugCable \/ UnplugCable
            BY <3>3 DEF PlugCable, UnplugCable, QuietOutside
        <3>4. CASE EthernetGetsIp
            BY <3>4 DEF EthernetGetsIp, QuietOutside
        <3> QED
            BY <1>12, <3>1, <3>2, <3>3, <3>4 DEF Environment
    <2> QED
        BY <1>4, <2>1
<1> QED
    BY <1>5, <1>6, <1>7, <1>8, <1>9, <1>10, <1>11, <1>12 DEF Next

\* Before Ethernet had its bus, a device that is OnLine when its tasks are idle is
\* going to connect to the MQTT server, or has done so.
THEOREM OnLineHasMqtt == Spec => []OnLineStartsMqtt
<1>1. Init => MqttAttended
    BY TaskNames DEF Init, MqttAttended, At
<1>2. Types /\ MqttAttended /\ [Next]_vars => MqttAttended'
    BY TimerStep
<1>3. MqttAttended => OnLineStartsMqtt
    BY TaskNames DEF MqttAttended, OnLineStartsMqtt, AllIdle, WiFiOnly, At
<1> QED
    BY <1>1, <1>2, <1>3, TypesInvariant, PTL DEF Spec
-----------------------------------------------------------------------------
(***************************************************************************)
(* The clients of the access point                                         *)
(***************************************************************************)
\* No event of q after the i-th clears _AP_Connected.
KeptAfter(q, i) == \A j \in i + 1 .. Len(q) : q[j] # "ApStaDisconnected"

\* The value of _AP_Connected, now flag, once all events of q have been handled.
FlagAfterAll(q, flag) ==
    \/ flag /\ KeptAfter(q, 0)
    \/ \E i \in 1 .. Len(q) : q[i] = "ApIpAssigned" /\ KeptAfter(q, i)

FlagToCome == FlagAfterAll(wifiEvents, apConnected)

LEMMA FlagAfterNone ==
    ASSUME NEW flag \in BOOLEAN
    PROVE  FlagAfterAll(<<>>, flag) <=> flag
BY DEF FlagAfterAll, KeptAfter

\* Events about the station change nothing, a join sets the flag, a departure clears it.
LEMMA FlagAfterMore ==
    ASSUME NEW q \in Seq(WifiEvents), NEW e \in WifiEvents, NEW flag \in BOOLEAN
    PROVE  FlagAfterAll(Append(q, e), flag) <=>
               \/ e = "ApIpAssigned"
               \/ e # "ApStaDisconnected" /\ FlagAfterAll(q, flag)
<1> DEFINE r == Append(q, e)
<1>1. /\ Len(q) \in Nat /\ Len(r) = Len(q) + 1 /\ r[Len(q) + 1] = e
      /\ \A i \in 1 .. Len(q) : r[i] = q[i]
    OBVIOUS
<1>2. ASSUME NEW i \in 0 .. Len(q)
      PROVE  KeptAfter(r, i) <=> e # "ApStaDisconnected" /\ KeptAfter(q, i)
    BY <1>1 DEF KeptAfter
<1>3. KeptAfter(r, Len(q) + 1)
    BY <1>1 DEF KeptAfter
<1>4. (\E i \in 1 .. Len(r) : r[i] = "ApIpAssigned" /\ KeptAfter(r, i)) <=>
          \/ e = "ApIpAssigned"
          \/ \E i \in 1 .. Len(q) : q[i] = "ApIpAssigned" /\ KeptAfter(r, i)
    BY <1>1, <1>3
<1>5. CASE e = "ApIpAssigned"
    BY <1>4, <1>5 DEF FlagAfterAll
<1>6. CASE e # "ApIpAssigned"
    BY <1>1, <1>2, <1>4, <1>6 DEF FlagAfterAll
<1> QED
    BY <1>5, <1>6

LEMMA FlagAfterDepartures ==
    ASSUME NEW q \in Seq(WifiEvents), NEW s \in Seq({"ApStaDisconnected"}), NEW flag \in BOOLEAN
    PROVE  FlagAfterAll(q \o s, flag) <=> s = <<>> /\ FlagAfterAll(q, flag)
<1>1. CASE s = <<>>
    <2>1. q \o s = q
        BY <1>1
    <2> QED
        BY <1>1, <2>1
<1>2. CASE s # <<>>
    <2> DEFINE r == q \o s
    <2>1. /\ Len(q) \in Nat /\ Len(s) \in Nat \ {0} /\ Len(r) = Len(q) + Len(s)
          /\ r[Len(r)] = "ApStaDisconnected"
          /\ \A i \in Len(q) + 1 .. Len(r) : r[i] = "ApStaDisconnected"
        BY <1>2
    <2>2. ASSUME NEW i \in Nat, KeptAfter(r, i) PROVE i >= Len(r)
        BY <2>1, <2>2 DEF KeptAfter
    <2>3. ~FlagAfterAll(r, flag)
        BY <2>1, <2>2 DEF FlagAfterAll
    <2> QED
        BY <1>2, <2>3
<1> QED
    BY <1>1, <1>2

\* Handling the first event changes the flag and not what it will be in the end.
LEMMA FlagAfterHandling ==
    ASSUME NEW q \in Seq(WifiEvents), q # <<>>, NEW flag \in BOOLEAN, NEW next \in BOOLEAN,
           next <=> Head(q) = "ApIpAssigned" \/ (Head(q) # "ApStaDisconnected" /\ flag)
    PROVE  FlagAfterAll(Tail(q), next) <=> FlagAfterAll(q, flag)
<1> DEFINE r == Tail(q)
<1>1. /\ Len(r) \in Nat /\ Len(q) = Len(r) + 1
      /\ \A i \in 1 .. Len(r) : r[i] = q[i + 1]
      /\ Head(q) = q[1]
    OBVIOUS
<1>2. ASSUME NEW i \in 0 .. Len(r) PROVE KeptAfter(r, i) <=> KeptAfter(q, i + 1)
    <2>1. ASSUME KeptAfter(r, i), NEW j \in (i + 1) + 1 .. Len(q)
          PROVE  q[j] # "ApStaDisconnected"
        <3>1. j - 1 \in i + 1 .. Len(r) /\ q[j] = r[j - 1]
            BY <1>1, <2>1
        <3> QED
            BY <2>1, <3>1 DEF KeptAfter
    <2>2. ASSUME KeptAfter(q, i + 1), NEW j \in i + 1 .. Len(r)
          PROVE  r[j] # "ApStaDisconnected"
        <3>1. j + 1 \in (i + 1) + 1 .. Len(q) /\ r[j] = q[j + 1]
            BY <1>1
        <3> QED
            BY <2>2, <3>1 DEF KeptAfter
    <2> QED
        BY <2>1, <2>2 DEF KeptAfter
<1>3. KeptAfter(q, 0) <=> q[1] # "ApStaDisconnected" /\ KeptAfter(q, 1)
    BY <1>1 DEF KeptAfter
<1>4. (\E i \in 1 .. Len(q) : q[i] = "ApIpAssigned" /\ KeptAfter(q, i)) <=>
          \/ q[1] = "ApIpAssigned" /\ KeptAfter(q, 1)
          \/ \E i \in 1 .. Len(r) : r[i] = "ApIpAssigned" /\ KeptAfter(r, i)
    <2>1. ASSUME NEW i \in 1 .. Len(q), q[i] = "ApIpAssigned", KeptAfter(q, i), i # 1
          PROVE  \E k \in 1 .. Len(r) : r[k] = "ApIpAssigned" /\ KeptAfter(r, k)
        <3>1. i - 1 \in 1 .. Len(r) /\ r[i - 1] = q[i] /\ (i - 1) + 1 = i
            BY <1>1, <2>1
        <3>2. KeptAfter(r, i - 1)
            BY <1>2, <2>1, <3>1
        <3> QED
            BY <2>1, <3>1, <3>2
    <2>2. ASSUME NEW k \in 1 .. Len(r), r[k] = "ApIpAssigned", KeptAfter(r, k)
          PROVE  \E i \in 1 .. Len(q) : q[i] = "ApIpAssigned" /\ KeptAfter(q, i)
        <3>1. k + 1 \in 1 .. Len(q) /\ r[k] = q[k + 1]
            BY <1>1
        <3> QED
            BY <1>2, <2>2, <3>1
    <2>3. 1 \in 1 .. Len(q)
        BY <1>1
    <2> QED
        BY <2>1, <2>2, <2>3
<1>5. KeptAfter(r, 0) <=> KeptAfter(q, 1)
    BY <1>1, <1>2
<1> QED
    BY <1>1, <1>3, <1>4, <1>5 DEF FlagAfterAll

LEMMA DepartingClients ==
    ASSUME WifiTypes
    PROVE  /\ Departures \in Seq({"ApStaDisconnected"})
           /\ Departures = <<>> <=> clients = {}
<1>1. Cardinality(clients) \in Nat /\ (Cardinality(clients) = 0 <=> clients = {})
    BY ClientsAssumption, FS_Subset, FS_CardinalityType, FS_EmptySet DEF WifiTypes
<1>2. /\ Departures \in [1 .. Cardinality(clients) -> {"ApStaDisconnected"}]
      /\ Len(Departures) = Cardinality(clients)
    BY <1>1 DEF Departures
<1> QED
    BY <1>1, <1>2

LEMMA StationEvents ==
    ASSUME WifiTypes, apConnected \in BOOLEAN
    PROVE  /\ wifiEvents \o StationEnd \in Seq(WifiEvents)
           /\ FlagAfterAll(wifiEvents \o StationEnd, apConnected) <=> FlagToCome
<1>1. wifiEvents \in Seq(WifiEvents)
    BY DEF WifiTypes
<1>2. CASE StationEnd = <<>>
    <2>1. wifiEvents \o StationEnd = wifiEvents
        BY <1>1, <1>2
    <2> QED
        BY <1>1, <2>1 DEF FlagToCome
<1>3. CASE StationEnd = <<"StaDisconnected">>
    <2>1. "StaDisconnected" \in WifiEvents
        BY DEF WifiEvents
    <2>2. wifiEvents \o StationEnd = Append(wifiEvents, "StaDisconnected")
        BY <1>1, <1>3
    <2> QED
        BY <1>1, <2>1, <2>2, FlagAfterMore DEF FlagToCome
<1> QED
    BY <1>2, <1>3 DEF StationEnd

\* What the access point and the flag that its events will leave behind do in one step.
ApUnchanged == (FlagToCome' <=> FlagToCome) /\ clients' = clients
ApJoined == FlagToCome' /\ \E c \in Clients \ clients : clients' = clients \cup {c}
ApLeft == ~FlagToCome' /\ \E c \in clients : clients' = clients \ {c}
ApClosed == ~FlagToCome' /\ clients' = {}
ApStep == ApUnchanged \/ ApJoined \/ ApLeft \/ ApClosed

LEMMA ApOfRadio ==
    ASSUME WifiTypes, apConnected \in BOOLEAN, apConnected' = apConnected,
           WiFiDisconnect \/ \E m \in {"off", "ap", "sta"} : WiFiMode(m)
    PROVE  ApStep
<1>1. CASE WiFiDisconnect
    BY <1>1, StationEvents DEF WiFiDisconnect, FlagToCome, ApStep, ApUnchanged
<1>2. ASSUME NEW m \in {"off", "ap", "sta"}, WiFiMode(m)
      PROVE  ApStep
    <2> DEFINE q == wifiEvents \o (IF m = "sta" THEN <<>> ELSE StationEnd)
    <2>1. q \in Seq(WifiEvents) /\ (FlagAfterAll(q, apConnected) <=> FlagToCome)
        <3>1. CASE m = "sta"
            <4>1. wifiEvents \in Seq(WifiEvents) /\ q = wifiEvents
                BY <3>1 DEF WifiTypes
            <4> QED
                BY <4>1 DEF FlagToCome
        <3>2. CASE m # "sta"
            BY <3>2, StationEvents
        <3> QED
            BY <3>1, <3>2
    <2>2. CASE m = "ap"
        <3>1. wifiEvents' = q /\ clients' = clients
            BY <1>2, <2>1, <2>2 DEF WiFiMode
        <3> QED
            BY <2>1, <3>1 DEF FlagToCome, ApStep, ApUnchanged
    <2>3. CASE m # "ap"
        <3>1. wifiEvents' = q \o Departures /\ clients' = {}
            BY <1>2, <2>3 DEF WiFiMode
        <3>2. /\ Departures \in Seq({"ApStaDisconnected"})
              /\ Departures = <<>> <=> clients = {}
            BY DepartingClients
        <3>3. FlagAfterAll(q \o Departures, apConnected) <=>
                  Departures = <<>> /\ FlagAfterAll(q, apConnected)
            <4> HIDE DEF q
            <4> QED
                BY <2>1, <3>2, FlagAfterDepartures
        <3>4. FlagToCome' <=> FlagAfterAll(q \o Departures, apConnected)
            BY <3>1 DEF FlagToCome
        <3>5. FlagToCome' <=> clients = {} /\ FlagToCome
            BY <2>1, <3>2, <3>3, <3>4
        <3> QED
            BY <3>1, <3>5 DEF ApStep, ApUnchanged, ApClosed
    <2> QED
        BY <2>2, <2>3
<1> QED
    BY <1>1, <1>2

LEMMA ApOfEnvironment ==
    ASSUME Types, Environment
    PROVE  ApStep
<1> USE DEF QuietOutside, stateVars
<1>1. wifiEvents \in Seq(WifiEvents) /\ clients \subseteq Clients /\ apConnected \in BOOLEAN
    BY DEF Types, WifiTypes, StateTypes
<1>2. ASSUME NEW e \in WifiEvents, wifiEvents' = Append(wifiEvents, e), apConnected' = apConnected
      PROVE  FlagToCome' <=> \/ e = "ApIpAssigned"
                             \/ e # "ApStaDisconnected" /\ FlagToCome
    BY <1>1, <1>2, FlagAfterMore DEF FlagToCome
<1>3. ASSUME NEW c \in Clients, ClientJoins(c)
      PROVE  ApStep
    <2>1. FlagToCome'
        BY <1>2, <1>3 DEF ClientJoins, WifiEvents
    <2> QED
        BY <1>3, <2>1 DEF ClientJoins, ApStep, ApJoined
<1>4. ASSUME NEW c \in Clients, ClientLeaves(c)
      PROVE  ApStep
    <2>1. ~FlagToCome'
        BY <1>2, <1>4 DEF ClientLeaves, WifiEvents
    <2> QED
        BY <1>4, <2>1 DEF ClientLeaves, ApStep, ApLeft
<1>5. CASE StationGetsIp \/ StationFails
    <2>1. FlagToCome' <=> FlagToCome
        BY <1>2, <1>5 DEF StationGetsIp, StationFails, WifiEvents
    <2> QED
        BY <1>5, <2>1 DEF StationGetsIp, StationFails, ApStep, ApUnchanged
<1>6. CASE EthernetGetsIp \/ PlugCable \/ UnplugCable
    BY <1>6 DEF EthernetGetsIp, PlugCable, UnplugCable, FlagToCome, ApStep, ApUnchanged
<1> QED
    BY <1>3, <1>4, <1>5, <1>6 DEF Environment

\* The steps of the tasks: only those that switch the radio, and the handler of an event.
LEMMA ApOfTasks ==
    ASSUME Types, LoopStep \/ WifiTaskStep \/ IpTaskStep, ~Restart
    PROVE  ApStep
<1> USE DEF Types, stateVars, wifiVars
<1>1. /\ wifiEvents \in Seq(WifiEvents) /\ apConnected \in BOOLEAN
    BY DEF WifiTypes, StateTypes
<1>2. CASE UNCHANGED <<apConnected, wifiEvents, clients>>
    BY <1>2 DEF FlagToCome, ApStep, ApUnchanged
<1>3. CASE GiveUp \/ DropStation \/ AccessPointUp \/ ConnectWiFi \/ \E t \in EventTasks : RadioOff(t)
    <2>1. /\ apConnected' = apConnected
          /\ WiFiDisconnect \/ \E m \in {"off", "ap", "sta"} : WiFiMode(m)
        BY <1>3 DEF GiveUp, DropStation, AccessPointUp, ConnectWiFi, RadioOff, StampConnecting
    <2> QED
        BY <1>1, <2>1, ApOfRadio
<1>4. CASE OnWifiEvent
    <2>1. /\ wifiEvents # <<>> /\ wifiEvents' = Tail(wifiEvents) /\ clients' = clients
          /\ apConnected' = FlagAfter(Head(wifiEvents))
        BY <1>4 DEF OnWifiEvent
    <2>2. /\ apConnected' \in BOOLEAN
          /\ apConnected' <=> \/ Head(wifiEvents) = "ApIpAssigned"
                              \/ Head(wifiEvents) # "ApStaDisconnected" /\ apConnected
        BY <1>1, <2>1 DEF FlagAfter
    <2>3. FlagToCome' <=> FlagToCome
        BY <1>1, <2>1, <2>2, FlagAfterHandling DEF FlagToCome
    <2> QED
        BY <2>1, <2>3 DEF ApStep, ApUnchanged
<1>5. CASE RunBoot \/ RunAp \/ RunConnecting \/ RunOffLine \/ ConnectNothing \/ ConnectEthernet
           \/ StartEthernet \/ OnIpEvent
    BY <1>2, <1>5 DEF RunBoot, RunAp, RunConnecting, RunOffLine, ConnectNothing, ConnectEthernet,
           StartEthernet, OnIpEvent, StampConnecting
<1>6. ASSUME NEW t \in Tasks,
             \/ StoreState(t) \/ DisconnectEthernetCheck(t) \/ DisconnectEthernet(t)
             \/ GoOnline(t) \/ StartServices(t) \/ GoOffline(t) \/ OffLineIfOnLine(t)
      PROVE  ApStep
    BY <1>2, <1>6 DEF StoreState, DisconnectEthernetCheck, DisconnectEthernet, GoOnline,
           StartServices, GoOffline, OffLineIfOnLine
<1>7. ASSUME NEW t \in Tasks PROVE ~AbortInDisconnectEthernet(t)
    BY DEF AbortInDisconnectEthernet
<1> QED
    BY <1>3, <1>4, <1>5, <1>6, <1>7, TaskNames
    DEF LoopStep, WifiTaskStep, IpTaskStep, HandlerStep

LEMMA ApOfNext ==
    ASSUME Types, [Next]_vars
    PROVE  ApStep
<1>1. CASE UNCHANGED <<apConnected, wifiEvents, clients>>
    BY <1>1 DEF FlagToCome, ApStep, ApUnchanged
<1>2. CASE UNCHANGED vars
    BY <1>1, <1>2 DEF vars, stateVars, wifiVars
<1>3. CASE Restart
    <2>1. ~FlagToCome' /\ clients' = {}
        BY <1>3, FlagAfterNone DEF Restart, FlagToCome
    <2> QED
        BY <2>1 DEF ApStep, ApClosed
<1>4. CASE LoopStep \/ WifiTaskStep \/ IpTaskStep
    BY <1>3, <1>4, ApOfTasks
<1>5. CASE RunFlasherConfig \/ Reboot
    BY <1>3, <1>5 DEF RunFlasherConfig, Reboot
<1>6. CASE MqttTimerFires \/ WindowPasses \/ \E sel \in Submittable : Submit(sel)
    BY <1>1, <1>6 DEF MqttTimerFires, WindowPasses, Submit, stateVars, wifiVars
<1>7. CASE Environment
    BY <1>7, ApOfEnvironment
<1> QED
    BY <1>2, <1>4, <1>5, <1>6, <1>7 DEF Next

\* _AP_Connected never outlives the clients: when the events on their way have been
\* handled, it is set only if some client still has an address.  Without this the loop
\* would wait in ApState for a client that is gone (the safety half of DeadApEnds).
NoGhostClient == FlagToCome => clients # {}

THEOREM NoGhost == Spec => []NoGhostClient
<1>1. Init => NoGhostClient
    BY FlagAfterNone DEF Init, NoGhostClient, FlagToCome
<1>2. Types /\ NoGhostClient /\ [Next]_vars => NoGhostClient'
    BY ApOfNext DEF NoGhostClient, ApStep, ApUnchanged, ApJoined, ApLeft, ApClosed
<1> QED
    BY <1>1, <1>2, TypesInvariant, PTL DEF Spec

\* The loop decides to leave the access point in RunAp alone.
LEMMA LeavesAp ==
    ASSUME Types, [Next]_vars, netState = "ApState", At(Loop, "idle"),
           pc'[Loop] = "set", target'[Loop] = "Connecting"
    PROVE  ~apConnected
<1> USE DEF Types, taskVars, QuietOutside
<1>1. Loop \in Tasks /\ pc[Loop] = "idle"
    BY TaskNames DEF At
<1>2. pc'[Loop] # pc[Loop]
    BY <1>1
<1>3. CASE LoopStep
    <2>1. CASE RunBoot \/ RunOffLine \/ RunConnecting
        BY <2>1 DEF RunBoot, RunOffLine, RunConnecting, RunIn
    <2>2. CASE RunAp
        BY <2>2 DEF RunAp
    <2>3. ~(GiveUp \/ StoreState(Loop) \/ DropStation \/ DisconnectEthernetCheck(Loop)
              \/ DisconnectEthernet(Loop) \/ AbortInDisconnectEthernet(Loop) \/ AccessPointUp
              \/ StartEthernet)
        BY <1>1 DEF GiveUp, StoreState, DropStation, DisconnectEthernetCheck, DisconnectEthernet,
               AbortInDisconnectEthernet, AccessPointUp, StartEthernet, At
    <2>4. ~(ConnectNothing \/ ConnectWiFi \/ ConnectEthernet)
        BY <1>1 DEF ConnectNothing, ConnectWiFi, ConnectEthernet, StampConnecting, At
    <2> QED
        BY <1>3, <2>1, <2>2, <2>3, <2>4 DEF LoopStep
<1>4. ~Restart
    BY <1>1 DEF Restart
<1>5. ASSUME NEW t \in EventTasks PROVE ~HandlerStep(t)
    <2>1. t \in Tasks /\ t # Loop
        BY TaskNames
    <2>2. ASSUME NEW label, Moves(t, label) PROVE FALSE
        BY <1>1, <1>2, <2>1, <2>2 DEF Moves
    <2> QED
        BY <1>4, <2>1, <2>2, MoveFacts
        DEF HandlerStep, GoOnline, StartServices, GoOffline, OffLineIfOnLine, StoreState,
            RadioOff, DisconnectEthernetCheck, DisconnectEthernet, AbortInDisconnectEthernet
<1>6. ~OnWifiEvent /\ ~OnIpEvent
    <2>1. ASSUME NEW t \in EventTasks, NEW label PROVE ~GoTo(t, label)
        BY <1>1, <1>2, TaskNames, MoveFacts DEF Moves
    <2> QED
        BY <2>1, TaskNames DEF OnWifiEvent, OnIpEvent
<1>7. ~(RunFlasherConfig \/ Reboot \/ MqttTimerFires \/ WindowPasses \/ UNCHANGED vars
          \/ \E sel \in Submittable : Submit(sel))
    BY <1>2, <1>4 DEF RunFlasherConfig, Reboot, MqttTimerFires, WindowPasses, Submit, vars
<1>8. ~Environment
    BY <1>2 DEF Environment, ClientJoins, ClientLeaves, StationGetsIp, StationFails,
           EthernetGetsIp, PlugCable, UnplugCable
<1> QED
    BY <1>3, <1>5, <1>6, <1>7, <1>8, TaskNames DEF Next, WifiTaskStep, IpTaskStep

\* With one client, the flag that the queued events will leave is whether it is there.
ClientFollowed == FlagToCome <=> clients # {}

\* With at most one client, the loop leaves the access point only when that client has no
\* address, or an event is on its way: "if AP client is connected, stay in AP mode"
\* (IOT.cpp:463), whatever the tasks do to each other.  The run NetworkTwoClients shows
\* that it is false for two.
THEOREM OneClientHoldsAp ==
    ASSUME \E c : Clients \subseteq {c}
    PROVE  Spec => ApClientHoldsAp
<1>1. Init => ClientFollowed
    BY FlagAfterNone DEF Init, ClientFollowed, FlagToCome
<1>2. Types /\ ClientFollowed /\ [Next]_vars => ClientFollowed'
    <2> SUFFICES ASSUME Types, ClientFollowed, [Next]_vars PROVE ClientFollowed'
        OBVIOUS
    <2>1. clients \subseteq Clients
        BY DEF Types, WifiTypes
    <2>2. ApLeft => clients' = {}
        BY <2>1 DEF ApLeft
    <2> QED
        BY <2>2, ApOfNext DEF ClientFollowed, ApStep, ApUnchanged, ApJoined, ApLeft, ApClosed
<1>3. Types /\ ClientFollowed /\ [Next]_vars =>
          ( netState = "ApState" /\ At(Loop, "idle") /\ target'[Loop] = "Connecting"
                /\ pc'[Loop] = "set"
              => clients = {} \/ wifiEvents # <<>> )
    <2>1. ASSUME Types, ClientFollowed, wifiEvents = <<>>, ~apConnected PROVE clients = {}
        BY <2>1, FlagAfterNone DEF ClientFollowed, FlagToCome, Types, StateTypes
    <2> QED
        BY <2>1, LeavesAp
<1> QED
    BY <1>1, <1>2, <1>3, TypesInvariant, PTL DEF Spec, ApClientHoldsAp
-----------------------------------------------------------------------------
(***************************************************************************)
(* An OnLine device without a network                                      *)
(***************************************************************************)
Leaving == {"StaDisconnected", "ApStaDisconnected"}

Unconnected == sta # "up" /\ clients = {}

\* The last event on its way takes the device off line.
LastLeaves == wifiEvents # <<>> /\ wifiEvents[Len(wifiEvents)] \in Leaving

\* The Wi-Fi event task is between an event and the setState that follows it.
GoesOnLine ==
    pc[WifiTask] \in {"goOnline", "services"} \/ (At(WifiTask, "set") /\ target[WifiTask] = "OnLine")
GoesOffLine ==
    pc[WifiTask] \in {"goOffline", "offCheck"} \/ (At(WifiTask, "set") /\ target[WifiTask] = "OffLine")

\* Before Ethernet had its bus: without a network the last event is a loss, and once that
\* is being handled, the event task does not go on line, nor leave OnLine standing.
LossAttended ==
    ~spi /\ Unconnected =>
        \/ LastLeaves
        \/ wifiEvents = <<>> /\ ~GoesOnLine /\ (netState = "OnLine" => GoesOffLine)

\* What a step may do to the network and to the queue of its events.
LossReported == Unconnected' => LastLeaves' \/ (Unconnected /\ wifiEvents' = wifiEvents)

LEMMA LastOfMore ==
    ASSUME NEW q \in Seq(WifiEvents), NEW s \in Seq(Leaving)
    PROVE  /\ q \o s \in Seq(WifiEvents)
           /\ s = <<>> => q \o s = q
           /\ s # <<>> => q \o s # <<>> /\ (q \o s)[Len(q \o s)] \in Leaving
<1>1. q \o s \in Seq(WifiEvents)
    <2>1. s \in Seq(WifiEvents)
        BY DEF Leaving, WifiEvents
    <2> QED
        BY <2>1
<1>2. s = <<>> => q \o s = q
    OBVIOUS
<1>3. ASSUME s # <<>> PROVE q \o s # <<>> /\ (q \o s)[Len(q \o s)] \in Leaving
    <2>1. /\ Len(q) \in Nat /\ Len(s) \in Nat \ {0} /\ Len(q \o s) = Len(q) + Len(s)
          /\ (q \o s)[Len(q) + Len(s)] = s[Len(s)] /\ s[Len(s)] \in Leaving
        BY <1>3
    <2>2. q \o s # <<>>
        BY <2>1
    <2> QED
        BY <2>1, <2>2
<1> QED
    BY <1>1, <1>2, <1>3

\* The driver reports a station or clients that it ends.
LEMMA LossOfRadio ==
    ASSUME WifiTypes, WiFiDisconnect \/ \E m \in {"off", "ap", "sta"} : WiFiMode(m)
    PROVE  LossReported
<1>1. wifiEvents \in Seq(WifiEvents)
    BY DEF WifiTypes
<1>2. /\ Departures \in Seq(Leaving)
      /\ Departures = <<>> <=> clients = {}
    <2>1. Departures \in Seq({"ApStaDisconnected"}) /\ (Departures = <<>> <=> clients = {})
        BY DepartingClients
    <2> QED
        BY <2>1 DEF Leaving
<1>3. /\ StationEnd \in Seq(Leaving)
      /\ StationEnd = <<>> <=> sta = "off"
    <2>1. <<"StaDisconnected">> \in Seq(Leaving) /\ <<>> \in Seq(Leaving)
          /\ <<"StaDisconnected">> # <<>>
        BY DEF Leaving
    <2> QED
        BY <2>1 DEF StationEnd
<1>4. CASE WiFiDisconnect
    <2>1. wifiEvents' = wifiEvents \o StationEnd /\ clients' = clients
        BY <1>4 DEF WiFiDisconnect
    <2>2. CASE sta = "off"
        BY <1>1, <1>3, <2>1, <2>2, LastOfMore DEF LossReported, Unconnected
    <2>3. CASE sta # "off"
        <3>1. LastLeaves'
            BY <1>1, <1>3, <2>1, <2>3, LastOfMore DEF LastLeaves
        <3> QED
            BY <3>1 DEF LossReported
    <2> QED
        BY <2>2, <2>3
<1>5. ASSUME NEW m \in {"off", "ap", "sta"}, WiFiMode(m)
      PROVE  LossReported
    <2>1. PICK a \in {<<>>, StationEnd} : a = IF m = "sta" THEN <<>> ELSE StationEnd
        OBVIOUS
    <2>2. PICK b \in {<<>>, Departures} : b = IF m = "ap" THEN <<>> ELSE Departures
        OBVIOUS
    <2>3. a \in Seq(Leaving) /\ b \in Seq(Leaving)
        <3>1. <<>> \in Seq(Leaving)
            OBVIOUS
        <3> QED
            BY <1>2, <1>3, <3>1
    <2>4. wifiEvents' = (wifiEvents \o a) \o b
        BY <1>5, <2>1, <2>2, <2>3, <1>1 DEF WiFiMode
    <2>5. wifiEvents \o a \in Seq(WifiEvents)
        BY <1>1, <2>3, LastOfMore
    <2>6. CASE b # <<>>
        <3>1. LastLeaves'
            BY <2>3, <2>4, <2>5, <2>6, LastOfMore DEF LastLeaves
        <3> QED
            BY <3>1 DEF LossReported
    <2>7. CASE b = <<>>
        <3>1. wifiEvents' = wifiEvents \o a
            BY <2>3, <2>4, <2>5, <2>7, LastOfMore
        <3>2. CASE a # <<>>
            <4>1. LastLeaves'
                BY <1>1, <2>3, <3>1, <3>2, LastOfMore DEF LastLeaves
            <4> QED
                BY <4>1 DEF LossReported
        <3>3. CASE a = <<>>
            <4>1. wifiEvents' = wifiEvents
                BY <1>1, <2>3, <3>1, <3>3, LastOfMore
            <4>2. ASSUME Unconnected' PROVE Unconnected
                <5>1. m # "sta" => sta = "off"
                    BY <1>3, <2>1, <3>3
                <5>2. m # "ap" => clients = {}
                    BY <1>2, <2>2, <2>7
                <5>3. m = "sta" => (sta = "up" => sta' = "up")
                    BY <1>5 DEF WiFiMode
                <5>4. m = "ap" => clients' = clients
                    BY <1>5 DEF WiFiMode
                <5> QED
                    BY <4>2, <5>1, <5>2, <5>3, <5>4 DEF Unconnected
            <4> QED
                BY <4>1, <4>2 DEF LossReported
        <3> QED
            BY <3>2, <3>3
    <2> QED
        BY <2>6, <2>7
<1> QED
    BY <1>4, <1>5

LEMMA LossOfEnvironment ==
    ASSUME Types, Environment
    PROVE  LossReported
<1>1. wifiEvents \in Seq(WifiEvents)
    BY DEF Types, WifiTypes
<1>2. ASSUME NEW e \in Leaving, wifiEvents' = Append(wifiEvents, e)
      PROVE  LossReported
    <2>1. LastLeaves'
        BY <1>1, <1>2 DEF LastLeaves
    <2> QED
        BY <2>1 DEF LossReported
<1>3. ASSUME NEW c \in Clients, ClientJoins(c)
      PROVE  LossReported
    BY <1>3 DEF ClientJoins, LossReported, Unconnected
<1>4. ASSUME NEW c \in Clients, ClientLeaves(c)
      PROVE  LossReported
    BY <1>2, <1>4 DEF ClientLeaves, Leaving
<1>5. CASE StationGetsIp
    BY <1>5 DEF StationGetsIp, LossReported, Unconnected
<1>6. CASE StationFails
    BY <1>2, <1>6 DEF StationFails, Leaving
<1>7. CASE EthernetGetsIp \/ PlugCable \/ UnplugCable
    BY <1>7 DEF EthernetGetsIp, PlugCable, UnplugCable, LossReported, Unconnected
<1> QED
    BY <1>3, <1>4, <1>5, <1>6, <1>7 DEF Environment

\* A step that reports what it ends, leaves the Wi-Fi event task where it is and does not
\* set OnLine.
LEMMA LossBystander ==
    ASSUME LossAttended, ~spi, LossReported,
           pc'[WifiTask] = pc[WifiTask], target'[WifiTask] = target[WifiTask],
           netState' = "OnLine" => netState = "OnLine"
    PROVE  LossAttended'
<1>1. (GoesOnLine' <=> GoesOnLine) /\ (GoesOffLine' <=> GoesOffLine)
    BY DEF GoesOnLine, GoesOffLine, At
<1>2. wifiEvents' = wifiEvents => (LastLeaves' <=> LastLeaves)
    BY DEF LastLeaves
<1> QED
    BY <1>1, <1>2 DEF LossAttended, LossReported

LEMMA LossOfLoop ==
    ASSUME Types, LossAttended, LoopStep, ~spi, ~Restart
    PROVE  LossAttended'
<1> USE DEF Types, stateVars, wifiVars
<1>1. Loop \in Tasks /\ WifiTask \in Tasks /\ Loop # WifiTask
    BY TaskNames
<1>2. ASSUME NEW label, Moves(Loop, label), \A u \in Tasks : u # Loop => target'[u] = target[u],
             LossReported, netState' = "OnLine" => netState = "OnLine"
      PROVE  LossAttended'
    BY <1>1, <1>2, LossBystander DEF Moves
<1>3. UNCHANGED <<sta, clients, wifiEvents>> => LossReported
    BY DEF LossReported, Unconnected
<1>4. CASE RunBoot \/ RunAp \/ RunConnecting \/ RunOffLine
    BY <1>1, <1>2, <1>3, <1>4, MoveFacts DEF RunBoot, RunAp, RunConnecting, RunOffLine
<1>5. CASE GiveUp \/ DropStation \/ AccessPointUp \/ ConnectWiFi
    <2>1. LossReported
        BY <1>5, LossOfRadio DEF GiveUp, DropStation, AccessPointUp, ConnectWiFi
    <2> QED
        BY <1>1, <1>2, <1>5, <2>1, MoveFacts
        DEF GiveUp, DropStation, AccessPointUp, ConnectWiFi, StampConnecting
<1>6. CASE ConnectNothing \/ ConnectEthernet \/ StartEthernet
    <2>1. PICK label : GoTo(Loop, label)
        BY <1>6 DEF ConnectNothing, ConnectEthernet, StartEthernet, StampConnecting
    <2>2. UNCHANGED <<netState, sta, clients, wifiEvents>>
        BY <1>6 DEF ConnectNothing, ConnectEthernet, StartEthernet, StampConnecting
    <2> QED
        BY <1>1, <1>2, <1>3, <2>1, <2>2, MoveFacts
<1>7. CASE StoreState(Loop)
    <2>1. netState' \in {"ApState", "Connecting"}
        BY <1>1, <1>7 DEF StoreState, TaskTypes, Targets
    <2> QED
        BY <1>1, <1>2, <1>3, <1>7, <2>1, MoveFacts DEF StoreState
<1>8. CASE DisconnectEthernetCheck(Loop) \/ DisconnectEthernet(Loop)
    BY <1>1, <1>2, <1>3, <1>8, MoveFacts DEF DisconnectEthernetCheck, DisconnectEthernet
<1> QED
    BY <1>4, <1>5, <1>6, <1>7, <1>8 DEF LoopStep, AbortInDisconnectEthernet

LEMMA LossOfWifiTask ==
    ASSUME Types, LossAttended, WifiTaskStep, ~spi, ~Restart
    PROVE  LossAttended'
<1> USE DEF Types, stateVars, wifiVars
<1>1. WifiTask \in Tasks /\ Targets(WifiTask) = {"OnLine", "OffLine"}
    BY TaskNames DEF Targets
\* A step that reports nothing and, if the last event is being handled, does what it must
<1>2. ASSUME UNCHANGED <<sta, clients, wifiEvents>>,
             ~GoesOnLine => ~GoesOnLine',
             ~GoesOnLine /\ (netState = "OnLine" => GoesOffLine)
                 => (netState' = "OnLine" => GoesOffLine')
      PROVE  LossAttended'
    BY <1>2 DEF LossAttended, Unconnected, LastLeaves
<1>3. ASSUME NEW label, Moves(WifiTask, label)
      PROVE  pc'[WifiTask] = label
    BY <1>1, <1>3 DEF Moves
<1>4. CASE OnWifiEvent
    <2>1. /\ wifiEvents # <<>> /\ wifiEvents' = Tail(wifiEvents)
          /\ UNCHANGED <<sta, clients, netState>>
          /\ pc'[WifiTask] = IF Head(wifiEvents) \in {"ApIpAssigned", "StaGotIp"}
                             THEN "goOnline" ELSE "goOffline"
        BY <1>1, <1>3, <1>4, MoveFacts DEF OnWifiEvent
    <2>2. /\ wifiEvents \in Seq(WifiEvents) /\ Len(wifiEvents) \in Nat \ {0}
          /\ Len(wifiEvents') = Len(wifiEvents) - 1
          /\ Head(wifiEvents) = wifiEvents[1]
          /\ \A i \in 1 .. Len(wifiEvents) - 1 : wifiEvents'[i] = wifiEvents[i + 1]
          /\ wifiEvents' \in Seq(WifiEvents)
        BY <2>1 DEF WifiTypes
    <2>3. ASSUME LastLeaves, wifiEvents' # <<>> PROVE LastLeaves'
        <3>1. Len(wifiEvents) - 1 \in 1 .. Len(wifiEvents) - 1
            BY <2>2, <2>3
        <3>2. wifiEvents'[Len(wifiEvents')] = wifiEvents[Len(wifiEvents)]
            BY <2>2, <3>1
        <3> QED
            BY <2>3, <3>2 DEF LastLeaves
    <2>4. ASSUME LastLeaves, wifiEvents' = <<>> PROVE pc'[WifiTask] = "goOffline"
        <3>1. Len(wifiEvents) = 1
            BY <2>2, <2>4
        <3> QED
            BY <2>1, <2>2, <2>4, <3>1 DEF LastLeaves, Leaving
    <2>5. pc'[WifiTask] = "goOffline" => ~GoesOnLine' /\ GoesOffLine'
        BY DEF GoesOnLine, GoesOffLine, At
    <2> QED
        BY <2>1, <2>3, <2>4, <2>5 DEF LossAttended, Unconnected
<1>5. CASE GoOnline(WifiTask) \/ StartServices(WifiTask)
    <2>1. GoesOnLine /\ UNCHANGED <<sta, clients, wifiEvents>>
        BY <1>5 DEF GoOnline, StartServices, GoesOnLine, At
    <2> QED
        BY <2>1 DEF LossAttended, Unconnected, LastLeaves
<1>6. CASE GoOffline(WifiTask)
    <2>1. pc'[WifiTask] = "offCheck" /\ UNCHANGED <<netState, sta, clients, wifiEvents>>
        BY <1>1, <1>3, <1>6, MoveFacts DEF GoOffline
    <2> QED
        BY <1>2, <2>1 DEF GoesOnLine, GoesOffLine, At
<1>7. CASE OffLineIfOnLine(WifiTask)
    <2>1. UNCHANGED <<netState, sta, clients, wifiEvents>>
        BY <1>7 DEF OffLineIfOnLine
    <2>2. CASE netState = "OnLine"
        <3>1. pc'[WifiTask] = "set" /\ target'[WifiTask] = "OffLine"
            BY <1>1, <1>3, <1>7, <2>2, MoveFacts DEF OffLineIfOnLine
        <3> QED
            BY <1>2, <2>1, <3>1 DEF GoesOnLine, GoesOffLine, At
    <2>3. CASE netState # "OnLine"
        <3>1. pc'[WifiTask] = "idle"
            BY <1>1, <1>3, <1>7, <2>3, MoveFacts DEF OffLineIfOnLine
        <3> QED
            BY <1>2, <2>1, <2>3, <3>1 DEF GoesOnLine, At
    <2> QED
        BY <2>2, <2>3
<1>8. CASE StoreState(WifiTask)
    <2>1. /\ At(WifiTask, "set") /\ target[WifiTask] \in {"OnLine", "OffLine"}
          /\ netState' = target[WifiTask]
          /\ UNCHANGED <<sta, clients, wifiEvents>>
        BY <1>1, <1>8 DEF StoreState, TaskTypes
    <2>2. CASE target[WifiTask] = "OnLine"
        <3>1. GoesOnLine
            BY <2>1, <2>2 DEF GoesOnLine
        <3> QED
            BY <2>1, <3>1 DEF LossAttended, Unconnected, LastLeaves
    <2>3. CASE target[WifiTask] = "OffLine"
        <3>1. pc'[WifiTask] = "radioOff"
            BY <1>1, <1>3, <1>8, <2>3, MoveFacts DEF StoreState, FirstEffect
        <3> QED
            BY <1>2, <2>1, <2>3, <3>1 DEF GoesOnLine, At
    <2> QED
        BY <2>1, <2>2, <2>3
<1>9. CASE RadioOff(WifiTask)
    <2>1. /\ pc[WifiTask] = "radioOff" /\ pc'[WifiTask] = "ethCheck" /\ netState' = netState
        BY <1>1, <1>3, <1>9, MoveFacts DEF RadioOff, At
    <2>2. LossReported
        BY <1>9, LossOfRadio DEF RadioOff
    <2>3. ~GoesOffLine /\ ~GoesOnLine'
        BY <2>1 DEF GoesOffLine, GoesOnLine, At
    <2> QED
        BY <2>1, <2>2, <2>3 DEF LossAttended, LossReported, LastLeaves
<1>10. CASE DisconnectEthernetCheck(WifiTask) \/ DisconnectEthernet(WifiTask)
    <2>1. /\ pc[WifiTask] \in {"ethCheck", "ethStop"}
          /\ UNCHANGED <<netState, sta, clients, wifiEvents>>
        BY <1>10 DEF DisconnectEthernetCheck, DisconnectEthernet, At
    <2>2. AfterDisconnect(WifiTask) = "idle"
        BY <1>1 DEF AfterDisconnect, TaskTypes
    <2>3. pc'[WifiTask] \in {"idle", "ethStop"}
        BY <1>1, <1>3, <1>10, <2>2, MoveFacts DEF DisconnectEthernetCheck, DisconnectEthernet
    <2> QED
        BY <1>2, <2>1, <2>3 DEF GoesOnLine, GoesOffLine, At
<1> QED
    BY <1>4, <1>5, <1>6, <1>7, <1>8, <1>9, <1>10
    DEF WifiTaskStep, HandlerStep, AbortInDisconnectEthernet

LEMMA LossStep ==
    ASSUME Types, MqttAttended, LossAttended, [Next]_vars
    PROVE  LossAttended'
<1> USE DEF stateVars, taskVars, wifiVars
<1>1. WifiTask \in Tasks /\ IpTask \in Tasks /\ WifiTask # IpTask
    BY TaskNames
<1>2. CASE Restart
    <2>1. wifiEvents' = <<>> /\ netState' = "Boot" /\ pc'[WifiTask] = "idle"
        BY <1>1, <1>2 DEF Restart
    <2> QED
        BY <2>1 DEF LossAttended, GoesOnLine, At
<1>3. ASSUME spi, ~Restart PROVE spi'
    <2>1. CASE LoopStep
        BY <1>3, <2>1 DEF LoopStep, RunBoot, RunAp, RunConnecting, GiveUp, RunOffLine, StoreState,
               DropStation, DisconnectEthernetCheck, DisconnectEthernet, AbortInDisconnectEthernet,
               AccessPointUp, ConnectNothing, ConnectWiFi, ConnectEthernet, StartEthernet, ethVars
    <2>2. CASE WifiTaskStep \/ IpTaskStep
        BY <1>3, <2>2 DEF WifiTaskStep, IpTaskStep, HandlerStep, OnWifiEvent, OnIpEvent, GoOnline,
               StartServices, GoOffline, OffLineIfOnLine, StoreState, RadioOff,
               DisconnectEthernetCheck, DisconnectEthernet, AbortInDisconnectEthernet, ethVars
    <2>3. CASE MqttTimerFires \/ WindowPasses \/ UNCHANGED vars \/ \E sel \in Submittable : Submit(sel)
        BY <1>3, <2>3 DEF MqttTimerFires, WindowPasses, Submit, ethVars, vars
    <2>4. CASE Environment
        BY <1>3, <2>4 DEF Environment, ClientJoins, ClientLeaves, StationGetsIp, StationFails,
               EthernetGetsIp, PlugCable, UnplugCable, ethVars
    <2>5. CASE RunFlasherConfig \/ Reboot
        BY <1>3, <2>5 DEF RunFlasherConfig, Reboot
    <2> QED
        BY <2>1, <2>2, <2>3, <2>4, <2>5 DEF Next
<1>4. ASSUME UNCHANGED <<netState, pc, target, sta, clients, wifiEvents>>, ~spi
      PROVE  LossAttended'
    BY <1>4 DEF LossAttended, Unconnected, LastLeaves, GoesOnLine, GoesOffLine, At
<1> SUFFICES ASSUME ~spi, ~Restart PROVE LossAttended'
    BY <1>2, <1>3 DEF LossAttended
<1>5. CASE LoopStep
    BY <1>5, LossOfLoop
<1>6. CASE WifiTaskStep
    BY <1>6, LossOfWifiTask
<1>7. CASE IpTaskStep
    <2>1. At(IpTask, "idle") /\ ~ipHandler
        BY DEF MqttAttended
    <2>2. OnIpEvent
        BY <1>7, <2>1 DEF IpTaskStep, HandlerStep, GoOnline, StartServices, GoOffline,
               OffLineIfOnLine, StoreState, RadioOff, DisconnectEthernetCheck,
               DisconnectEthernet, AbortInDisconnectEthernet, At
    <2>3. /\ pc'[WifiTask] = pc[WifiTask] /\ target'[WifiTask] = target[WifiTask]
          /\ UNCHANGED <<netState, sta, clients, wifiEvents>>
        BY <1>1, <2>2, MoveFacts DEF OnIpEvent, Types, Moves
    <2>4. LossReported
        BY <2>3 DEF LossReported, Unconnected
    <2> QED
        BY <2>3, <2>4, LossBystander
<1>8. CASE MqttTimerFires \/ WindowPasses \/ UNCHANGED vars \/ \E sel \in Submittable : Submit(sel)
    BY <1>4, <1>8 DEF MqttTimerFires, WindowPasses, Submit, vars
<1>9. CASE Environment
    <2>1. LossReported
        BY <1>9, LossOfEnvironment
    <2>2. UNCHANGED <<netState, pc, target>>
        BY <1>9 DEF Environment, ClientJoins, ClientLeaves, StationGetsIp, StationFails,
               EthernetGetsIp, PlugCable, UnplugCable, QuietOutside
    <2> QED
        BY <2>1, <2>2, LossBystander
<1> QED
    BY <1>5, <1>6, <1>7, <1>8, <1>9 DEF Next, RunFlasherConfig, Reboot

\* Before Ethernet had its bus: a device that is OnLine without a station and without
\* clients has the event of the loss as the last of those on their way, or is handling
\* it.  However the loop and the event task overlap, no OnLine is left standing that
\* nobody is going to look at (the safety half of FalseOnLineEnds).
LossNoticed ==
    ~spi /\ netState = "OnLine" /\ sta # "up" /\ clients = {} => LastLeaves \/ GoesOffLine

THEOREM LossIsNoticed == Spec => []LossNoticed
<1>1. Init => MqttAttended /\ LossAttended
    BY TaskNames DEF Init, MqttAttended, LossAttended, GoesOnLine, At
<1>2. Types /\ MqttAttended /\ LossAttended /\ [Next]_vars => (MqttAttended /\ LossAttended)'
    BY TimerStep, LossStep
<1>3. LossAttended => LossNoticed
    BY DEF LossAttended, LossNoticed, Unconnected
<1> QED
    BY <1>1, <1>2, <1>3, TypesInvariant, PTL DEF Spec
====
