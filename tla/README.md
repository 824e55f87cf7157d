# EdgeBox-PLC in TLA+

TLA+ models of the firmware in `code/ESP32/main`, a remote I/O controller for the
EdgeBox-ESP-100: digital and analog inputs, digital outputs, and the network services
(web pages, Modbus TCP, MQTT) over Wi-Fi, Ethernet or a 4G modem. The models are checked
with TLC on small instances; the main safety properties are proved with TLAPS for all
values of the constants. Line numbers below are of files in `code/ESP32/main`
(`platformio.ini` and `sdkconfig.edgebox-esp-100` are in `code/ESP32`).

## The system

The program has no locks of its own. What makes it hard is that six tasks run its code on two
cores and share plain member variables:

| task | what it runs |
|---|---|
| loop task (`main.cpp` 61-80) | `PLC::CleanUp` every 5 s, `PLC::Monitor` and then `PLC::Process` every 200 ms; `Process` calls `IOT::Run` |
| Arduino event task | the `WiFi.onEvent` callback (`IOT.cpp` 52-86) |
| default event loop task | `on_ip_event` -> `HandleIPEvent` (804-837), for Ethernet and PPP |
| FreeRTOS timer task | `mqttReconnectTimerCF` -> `ConnectToMQTTServer` (694-721) |
| MQTT client tasks | `HandleMQTT` (626-692), `PLC::onMqttConnect`, `PLC::onMqttMessage` |
| AsyncTCP task | web pages (`/submit`, `/reboot`, `/update`), websockets, all Modbus workers |

### Inventory

| component | state | operations | interacts with | what makes it correct |
|---|---|---|---|---|
| Network state machine (`IOT.cpp`) | `_networkState`, `_NetworkSelection`, `_AP_Connected`, time stamps, Ethernet handles | `Run`, `setState`, `GoOnline`, `GoOffline`, `ConnectEthernet`, `DisconnectEthernet` | Wi-Fi driver and event queues; starts the services; `Process` reads its state | it never gets stuck; the state it shows is the state of the network; what a mode acquired is released when it is left |
| Digital outputs (`PLC.cpp` 188-363, 484-514, `Coil.cpp`) | pins, `_digitalOutputCoils` | FC01, FC05, FC0F, MQTT "Write Coil" | Modbus server, MQTT | a write changes what it names and nothing else; a read reports the pins |
| Analog inputs (`AnalogSensor.cpp`, `PLC::Monitor`) | rolling sum, count, limits, `_analogInputs` | `Run`, `AddReading`, `Level`, setters, FC04 | loop, Modbus and web tasks | a level is in range; no division by zero; recovery from changed limits |
| Readings (`PLC::Process`, websocket) | `_lastMessagePublished`, websocket clients | `Process`, connect callback | MQTT, home page | a page that is open shows the current readings |
| MQTT session (`IOT.cpp` 626-802, `PLC.cpp` 415-482) | client handle, timer, `_publishedOnline`, `_discoveryPublished` | timer, `HandleMQTT`, `Publish*` | network state machine, broker | connects again; discovery arrives; availability is current |
| 4G modem link (`network_dce.cpp`, `IOT.cpp` 946-1019) | `dce`, `_netif`, modem power | `ConnectModem`, `DisconnectModem` | esp_modem, state machine | no use after free; complete teardown; gets on line |
| esp_modem (managed component) | mode of the DCE, lock, read callback, PPP session | commands, mode changes | modem link | terminal, PPP and mode stay together; a task that waits comes back |
| Settings (`loadSettings`, `saveSettings`, `/submit`) | variables of `IOT` and `PLC`, RAM copy, EEPROM | load, save, form, flasher, factory reset | web pages, restarts | what is acknowledged is kept; a form is kept whole or not at all |
| Digital inputs (`DigitalSensor.cpp`, FC02) | pins, `_digitalInputDiscretes` | FC02 | Modbus server | a read reports the pins |
| Web log, firmware update, start-up, web pages | | | | see "Not modelled" |

The hazards of each of these, at the line where they bite, are listed in `PROJECT.json`.

## Modules

### NetworkManager

`netState`, `selection` and `apConnected` are the member variables of the same meaning. `pc`
says where each of the three tasks that run the state machine is, `target` is the argument of
the `setState` it is in. An action is the code between two points at which another task can see
or spoil something:

* `setState` (554-624) stores the state first (`StoreState`) and then runs its effects one driver
  call at a time: `RadioOff`, `DropStation`, `DisconnectEthernetCheck`, `DisconnectEthernet`,
  `AccessPointUp`, `ConnectWiFi`, `ConnectEthernet`, `StartEthernet`. `FirstEffect` is the `switch`.
* `Run` (414-488) is `RunFlasherConfig`, `RunBoot`, `RunAp`, `RunConnecting`, `GiveUp`, `RunOffLine`.
* `GoOnline` (516-539) is `GoOnline` up to the test of the state, then `StartServices`, which ends
  in `setState(OnLine)`. `GoOffline` (541-552) stops the timer (`GoOffline`) and then tests
  (`OffLineIfOnLine`).
* `ESP_ERROR_CHECK(esp_eth_stop)` (1025) aborts on a driver that does not run: the device restarts.
* The environment is the Wi-Fi driver (`WiFiMode`, `WiFiDisconnect`, station and client events),
  the Ethernet cable and the queues of the two event tasks.

`expired` stands for both time windows (`AP_TIMEOUT`, `WIFI_CONNECTION_TIMEOUT`): it is reset where
the code takes a time stamp. Time is otherwise not counted. Two facts about time are used:
the 8 s of the MQTT timer outlast the `setState` call that follows `xTimerStart`
(guard of `MqttTimerFires`), and a window of 30 s outlasts a backlog of events (`NoBacklog`
in `WindowPasses`).

Left out: `ModemMode` (in ModemLink), the captive DNS, mDNS, the web log, the start of the Modbus
server, the LED; and `HandleMQTT`, which starts the timer again when a client loses its server
(it can only start it; in MqttSession). The name of the selection `APMode` is
not used by the code.

### CoilBank and CoilRegisters

`CoilBank` has the output pins, the coil table `_digitalOutputCoils` (`shadow`), the input pins, their
table `_digitalInputDiscretes` (`discretes`) and the Modbus worker that is running. A worker is a
begin action (range checks, table update), one action per pin it touches and an end action that
sends the reply: `BeginRead`, `RefreshShadow`, `EndRead` for FC01, `BeginReadInputs`,
`RefreshDiscretes`, `EndReadInputs` for FC02, `BeginWriteCoil`, `WritePin` for FC05,
`BeginWriteCoils`, `WritePins`, `EndWriteCoils` for FC0F, and `Refuse...` for what is refused at
once. The workers run one at a time on the AsyncTCP task, while `MqttWriteCoil` writes an output
and `InputChanges` an input between any two of their steps. Addresses lose the base address in
16 bits (`Relative`, `RelativeInput`). `CoilData` belongs to eModbus and is modelled by what the
workers rely on: `set` refuses ranges outside the table, empty ranges and missing bytes, `slice`
returns nothing for a range outside the table. FC01 and FC02 append data to a response that has an
error set; the reply has both side by side, the layout of messages is left out. FC04 is in
AnalogInputs.

`CoilRegisters` is the abstract specification: a request names a contiguous range of coils and a
value for each; these coils take their values in any order, and no other coil ever changes,
unless there is another writer. `CoilBank` implements it (`RegistersSpec`): `Unwritten` is the
refinement mapping, the coils the running write has still to reach. Writing *every* pin from the
table, as FC0F does, is a stutter for the others exactly because the table agrees with the pins;
MQTT commands break that, so the promise holds for other pins only while `useMqtt` is FALSE.

### AnalogInputs

The rolling sum of each channel in unsigned 32-bit arithmetic (`WORD` is the modulus), with
`AddReading` split where another task can read it: `Sample` (clamping and average), `MakeRoom`
(a new sample, or dropping the rounded average) and `AddValue`. The loop passes `Monitor`, `Run`
and `Process` in this order; the AsyncTCP task may restart the device with a division by zero
(`ReadRegisterCrash`), change limits and the number of channels in use. A form with several
parameters is that many steps. FC04 loads the sum and the count next to each other; this is one
step. Scaling and rounding in `Level` are left out, as are numbers of inputs above `AI_PINS`,
which the form should not send and which would leave the arrays.

### Readings

`PLC::Process` (378-413) with the home page's websocket (162-186). The loop task takes a snapshot and
compares it with `_lastMessagePublished` (`Snapshot`), then calls `PublishOnline` (`Announce`) and
`Publish`, remembers the message (`Remember`) and sends it to the pages (`Broadcast`); `step` says
where it is, `message` is its local `s`. The AsyncTCP task acts between any two of these: the
middleware admits a page (`Admit`), the library counts it when the handshake is done (`Count`) and
calls back, which clears `_lastMessagePublished` (`Greet`). Clearing and copying the String are not
atomic; whatever an overlap leaves either is the message or equals none, so it acts like one of
the two orders. A reading is a model value. The library (clients, queues) and the browser
(`Take`, `Close`) are external; a page keeps `QueueLength` messages and misses what comes when they are full.
Of MQTT there is only whether a client exists; what becomes of it belongs to MqttSession.

### MqttSession

One boot after the other of a device with MQTT. `eventTask` is where `GoOnline`/`GoOffline` is
(`StartTimer`, `SetOnLine`, `StopTimer`, `SetOffLine`), `timerTask` where `ConnectToMQTTServer`
(694-721) is: `TimerFires` tests the state, `InitClient` makes a client and overwrites
`_mqtt_client_handle`, `StartClient` starts it. `phase[c]` is where the task of client `c` is in
`HandleMQTT`; a client is locked during its handler (`InHandler`), which is what a `Process` or
an `OnMqttConnect` that publishes through it waits for. `Process` is the step of the loop task that
publishes "Online". esp-mqtt and the broker are external: clients reconnect by themselves for ever, QoS 1
messages wait in the `outbox`, are deleted when they have waited for 30 s (`Expire`; `expired` remembers that of an
"Online") and are sent again when their acknowledgement may be lost, the broker
has one connection (`session`) per client id, ends it with the will (`PublishWill`) when another
client takes it over, and notices only later that the other end of a connection is gone (`Stale`,
`BrokerDrops`). Of the topics there are availability (last message seen, and retained) and
discovery; `discovery` and the history variables `dropped` and `expired` are of the present boot. `MaxClients` bounds the clients of one boot; the code has no bound. Left out: the status query (660-676), "Write Coil" (in CoilBank) and the contents of messages.

### ModemLink

`pc` is where the loop task and the event task are in `ConnectModem` (959-1003), `DisconnectModem`
(1005-1019) or what these call in `network_dce.cpp` and esp_modem: one action per command to the modem and
per step that another task can see. `dce`, `netif`, `power`, `handler` are the variables of the
program, `dceMode`, `lock` (`DTE::internal_lock`) and `readCb` those of esp_modem.
`DCE_Mode::set` is `StartNetwork`, `SetPdpContext`, `Dial`, `Resume`, `EnterData` towards DATA and
`StopNetwork`, `ExitData`, `Escape` towards COMMAND. `Command` is `DTE::command`: what is left in
the UART (`rx`) is taken for the answer, what comes after the time is over stays there for the next
command. The modem (`Answers`) is silent, refuses, answers late, loses its carrier; `good` says that
it does none of this, and may change at any time. `late` and `raced` are history. `AbortInit`,
`UseFreedDce` are the ways in which the program aborts, and `Restart` follows.
A PIN is one nondeterministic step of `InitNetwork`. `retryCount` is that of `ConnectModem`.
The network state machine is reduced to the changes that call these functions.

### Settings and SettingsStore

`ram` is what the variables of `IOT` and `PLC` hold, `buffer` what the RAM copy of the EEPROM library
parses to (nothing, if a text did not fit), `flash` the same of the EEPROM. `Submit` is the part of
`/submit` in `IOT`, `SubmitInputs` `PLC::onSubmitForm`, `Write` and `Commit` are `saveSettings`,
`Reply` is `SendNetworkSettings`; `LoadSettings`, `FactoryReset` are `IOT::Init`, `Flasher`,
`DoneWaiting` are `Run` in `Boot`; `Restart` may come between any two. What a load makes of a saved
text is a conversion by its own rules: `int16_t` turns a port above 32767 negative and
`as<uint16_t>()` loads that as 0 (`Int16`, `AsUint16`); only channels in use are saved
(`SavedChannels`). A text field is its length, one port stands for three. `_digitalInputs`
is saved the same way as the number of analog inputs and left out.

`SettingsStore` is the abstract specification: a form changes the settings as a whole; it is kept, as far as it
survives a save at all (`Survivor`), or not at all; a restart goes back to what was kept. `Settings` implements it
(`StoreSpec`) with `inUse`, `kept` and `target` computed from `ram`, `flash` and the step.

## Runs

| run | instance | what it shows |
|---|---|---|
| `network` | one AP client, three selections, queues of 1, settings change at any time (603413 states) | `OnLineStartsMqtt`, `SettledApReleased`, `ApClientHoldsAp`. `FallsBack`: the state machine is again and again in OnLine or ApState, and the device again and again has a network (its access point, a station or Ethernet), but for the dead OnLine described below. `FalseOnLineEnds`: an OnLine without any connection ends. `DeadApEnds`: an access point switched off by a late `RadioOff` is left |
| `net_two_clients` (violation) | two AP clients | `ApClientHoldsAp` fails: "if AP client is connected, stay in AP mode" (463), but one flag stands for all clients |
| `net_ethernet_retry` (violation) | Ethernet only | `OffLineTriesAgain` fails: "went offline, try again..." (484), but the SPI bus is never freed |
| `coil_bank` | 3 outputs, base 2, 2 inputs, base 3, addresses 1-5, counts 0-3 (850396 states) | `ReadReportsOutputs`, `ReadReportsInputs`, `AcknowledgedWriteIsDone`, the refinement `RegistersSpec` |
| `coil_mqtt` (violation) | the same outputs | FC0F puts coils outside its range back to stale values |
| `coil_echo` (violation) | the same outputs | the echo of FC0F lacks the base address ("like the standard says", `PLC.cpp` 336) |
| `analog` | 2 channels, 2 samples, 16 values, limits 1 and 3 | `LevelInRange`, `LoopReadsSampled`, `ModbusReadsSampled`, `Recovers` |
| `readings` | 2 readings, 2 pages, queues of 1 | `PagesWereSent`, `LastWasHanded`; `PageShowsReadings`: an open page comes to show the readings |
| `readings_limit` (violation) | 3 pages | `AtMostTwoPages` fails: "if we have 2 clients or more, prevent the next one to connect" (`PLC.cpp` 166), but pages whose handshake is under way are not counted |
| `mqtt_session` | two clients per boot, any number of boots (158879 states) | `OnlineMeansSession`: nobody sees Online of a device without a connection. `DiscoveryReachesBroker`, `FirstSessionStaysAvailable`: what the first connection of a boot achieves. `SessionReturns`, `FirstSessionIsAnnounced`: with a network that stays, the device connects again and again, and the first connection becomes available unless the queued Online had expired |
| `modem` | queue of 3 IP events, three attempts as in the code (19089 states) | `CallbackFollowsMode`, `CommandModeIsReal`, `FreedOnlyInRace`, `NetifOutlivesPpp`, `ApReleasesModem`; `GoodModemIsStarted`: with a good modem `ConnectModem` never ends with the network stopped; `AcquiresNetwork`: a good modem gets the device on line; `TasksReturn`: no task waits for ever |
| `settings` | 2 channels, three lengths of text, two ports (542110 states) | `AcknowledgedIsKept`, `RestartChangesNothing`, the refinement `StoreSpec` |

Why the bounds are enough. A queue of one event (`MaxEvents`; the driver's own events come on top)
already lets an event be handled in a state later than the one it was sent in, which is what the
races need; one AP client shows joining and leaving, the second one what a single flag cannot tell
apart. Addresses 1-5 with base 2 and 3 outputs contain one that wraps below the base, every coil and
the off-by-one coil that the check of FC05 admits; with base 3 and 2 inputs two that wrap, every
input and one beyond; counts 0-3 contain the empty range, ranges that end at the table's end and
ranges that pass it, also after the wrap. Two samples of values clamped to
1..3 make the rounded average differ from every sample, and the conversion 15 stands for a
negative ADC count, which becomes large in `uint32_t`. Limits 1 and 3 can be set either way round. Two readings are what a
comparison distinguishes; two pages connect at different points of one `Process`; a queue of one
is full while one message waits. Two MQTT clients are what it takes for a forgotten client and for two to end
each other's connections; a third would be one more of the forgotten ones. Three IP events
are more than one attempt of `ConnectModem` posts before the event task runs. The lengths of texts are so chosen that one
fits the 1024 characters easily, one fills them exactly when both channels have long limits, and one
does not fit then; the ports are one on each side of 32767.

Fairness. `NetworkManager!Fairness`: the scheduler runs every ready task (the loop task, the two
event tasks, the timer), clocks go on (`WindowPasses`), a joining station gets an address or reports a
failure, a started Ethernet with a good cable gets an address. Nothing is assumed of the user or of
clients. `AnalogInputs!FairSpec`: the loop task runs for ever. `Readings!FairSpec`: so it does there, the
AsyncTCP task makes the callback it began with `Count`, and an open page takes what it is sent.
`MqttSession!Fairness`: the event, timer, client and loop tasks run; a client that can reach the broker connects
(`Connect`), sends what it has queued and notices that its connection is gone
(`~Live(c) /\ Lose(c)`): esp-mqtt does so by itself, with keep-alive. Strong fairness of `TimerFires`: the timer is
started anew by each `GoOnline`, and expires if that happens again and again. The answer of the broker may be lost any
number of times, since `Connect` is weakly fair and stays enabled. `Expire` is not fair: a message may expire at any time, or
never. Nothing is assumed of the network, which
the properties assume to stay (`<>[]Reachable`).
`ModemLink!Fairness`: both tasks run, PPP comes up when it can, and the watchdog restarts an aborted
program; `AcquiresNetwork` and `GoodModemIsStarted` assume a good modem in the formula, not in the fairness. `network`,
`net_ethernet_retry`, `mqtt_session`, `modem`, `Recovers` and `PageShowsReadings` depend on fairness; so does no safety
property, and `GoodModemIsStarted`, whose conclusion is one, does not either.

### What the properties exclude

Some properties hold only outside a window, and the window is where the code is wrong or exposed;
the definitions name it. `OnLineStartsMqtt`, `FalseOnLineEnds` speak of the time before Ethernet
had its bus (no `ConnectEthernet` since the restart got past `spi_bus_initialize`): with Ethernet, a client of the access point that leaves between `xTimerStart` and
`setState(OnLine)` of the other event task stops the timer of a device that goes OnLine.
`FallsBack` leaves out one way to lose the network for ever, `TornDownWhileGoingOnline` (see the dead OnLine below).
`SettledApReleased` leaves out the SPI bus, and a teardown that aborts in `esp_eth_stop` is a restart.
`LoopReadsSampled` excludes a number of inputs raised between `Monitor` and `Process`, and
`LevelInRange` the middle of `AddReading`, when FC04 sees a sum that lacks one sample.
`ModbusReadsSampled` is about the channels in use at boot (`bootInputs`); for any other below `AI_PINS` FC04 divides by zero.
`ReadReportsOutputs` and `AcknowledgedWriteIsDone` exclude the coils MQTT writes meanwhile.
`LastWasHanded` excludes a message published before there was an MQTT client (`early`): it is remembered all the
same, and so is lost until the inputs change. `PagesWereSent` and `PageShowsReadings` exclude a
page whose queue was full (`missed`), which keeps its connection and its old readings.
`ReadReportsInputs` excludes the inputs that change during the read. `DiscoveryReachesBroker`
excludes boots with a second client (`handle > 1`) or a lost connection (`dropped`): the message has QoS 0, goes through
the newest client, connected or not, and is marked as published whatever happens.
`FirstSessionStaysAvailable` and `FirstSessionIsAnnounced` speak of the first connection of a boot:
each later one says "Offline" and nothing says "Online" again, because `_publishedOnline` is never
reset. For the same reason the latter excludes a boot whose "Online" waited in the outbox for longer than 30 s and
was deleted (`expired`). `CommandModeIsReal` excludes boots with a late answer (`late`): each later command then takes the
answer of the one before it. `FreedOnlyInRace` and `ApReleasesModem` exclude boots in which both
tasks were connecting or disconnecting (`raced`). `AcknowledgedIsKept` and `RestartChangesNothing`
exclude texts that do not fit, which are lost as a whole, and ports above 32767, which become 0
(`WhatIsLeft`).

### What the models show of the code

Besides the five findings of `PROJECT.json`, which the violation runs show and which contradict a
comment, writing and checking the models led to these facts; the properties above are stated around them.

* A dead OnLine in `EthernetMode`: a client of the access point joins, which makes the device OnLine while Ethernet is
  up or coming up; the IP event task passes the test of the state in `GoOnline` and is in mDNS (526-537) when the client
  leaves; the other event task takes the state to OffLine, switches the radio off and tears Ethernet and its handler down;
  then the IP event task sets OnLine. The loop does nothing in OnLine and nothing is left that reports a loss, so the
  device has no network until somebody restarts it. `FallsBack` says that this is the only way.
* esp-mqtt deletes a message that has waited for 30 s (`CONFIG_MQTT_OUTBOX_EXPIRED_TIMEOUT_MS`,
  `sdkconfig.edgebox-esp-100` 1215), but `_publishedOnline` (`IOT.cpp` 795-797) is set when it is queued: a broker that
  is first reached later than that sees a connected device "Offline" until the next restart.
* `modem_deinit_network` frees the DCE with `free`, which runs no destructor, so the UART driver stays
  installed and the next `ConnectModem` of the same boot aborts (`AbortInit`): every reconnect over
  4G is a restart of the controller.
* `ConnectModem` does not leave its loop after a success. The next attempt gets no answer from a
  modem in data mode, stops the network, and the last one starts it again; with two attempts
  instead of three `AcquiresNetwork` fails (that is its mutant). A failure followed by a
  success and a stop leaves a device that is OnLine with its network stopped.
* An answer that comes after its command has timed out is taken for the answer of the next one.
* `CONFIG_VERSION` is saved (375) but never compared: any text that parses is loaded (334),
  although `platformio.ini` 38 says "major or minor will invalidate the configuration". The models have no version.
* `SendNetworkSettings` shows `_AP_SSID` as the SSID of the Wi-Fi network (257).
* `strncpy` in 702 copies no terminator: after a shorter device name the topics keep the
  end of the longer one.

## Proofs

All theorems are proved from the assumptions in the modules: any finite set of clients, any set of
selections, any queue bound; any number of outputs, base address and requests within 16 bits; any
number of channels, and sample counts and limits whose sum fits a word. Some theorems have a hypothesis
of their own, which their statement shows. These mark the border of what the code does: what a violation run
refutes on one side of it is proved on the other.

| promise | refuted by | proved when | theorem |
|---|---|---|---|
| "if AP client is connected, stay in AP mode" (463) | `net_two_clients` | there is at most one client | `OneClientHoldsAp` |
| FC0F writes the coils of its range only | `coil_mqtt` | MQTT is not used | `WriteCoilsInRangeWithoutMqtt` |
| FC0F echoes the address "like the standard says" | `coil_echo` | the base address is 0 | `EchoWithoutBase` |
| "if we have 2 clients or more, prevent the next one" | `readings_limit` | no page asks during the handshake of another | `LimitWithoutOverlap` |

The fifth, `net_ethernet_retry`, refutes a liveness property. The other hypotheses are: `RoomForRemainder` of `RangeIsKept`
(one limit more fits the word; 10 samples of 12 bits in 32 bits leave ample room), a base that leaves
room for its coils in `RangeCheckIsExact`, and `SmallPorts` and `Roomy` of `NothingIsLost` (ports up to 32767, every text fits).

* `NetworkManagerProofs`. `Types` is `TypeOK` in the groups of variables that actions leave alone
  together, strengthened by which states a task may be about to set. `SettledApIsReleased`: a settled
  `ApState` has released Ethernet. The property is not inductive, since Ethernet is torn down by
  whichever task comes first; `EthernetAttended` is: while a driver is installed, the state is past
  `ApState` or some task is on its way to tear it down. The delicate case is a loop that has given up
  while an event task stores OffLine: the loop will not look at the driver again, so the event task
  must still have its teardown ahead (`GivesUp`). `OnLineHasMqtt` rests on `MqttAttended`: without
  Ethernet only one event task goes on line, and an OnLine device has its timer running, used, or is
  about to go off line. The flag `_AP_Connected` is followed through the queue: `FlagAfterAll` is its value after
  all events under way, `FlagToCome` says that this is TRUE. `NoGhost`: then some client has an
  address, for any number of clients, so that the loop never waits in `ApState` for nobody (the safety half of `DeadApEnds`);
  the converse holds for one client (`ClientFollowed`) and gives `OneClientHoldsAp`.
  `LossIsNoticed`, the safety half of `FalseOnLineEnds`: an OnLine that has lost its network has the
  event of the loss in the queue, behind all others, or under way to `setState(OffLine)` (`LossAttended`), since
  the driver reports whatever it ends.
* `CoilBankProofs`. The invariant says what table and pins agree on at each point of a request. From it
  follow `AcknowledgedWrites`, `ReadsAreCurrent` and `ImplementsRegisters`, the refinement (initial
  states map to initial states, each step to a step or a stutter); and `InputReadsAreCurrent`, since
  the inputs below the loop counter that have not changed since the read began are in their table as they are.
  `RangeCheckIsExact`: although the base is subtracted in 16 bits first, the comparison admits exactly the
  coils there are. Without MQTT the
  table and the pins agree outside the range of the request, hence `WriteCoilsInRangeWithoutMqtt`.
* `AnalogInputsProofs`. `LevelsInRange`: the rolling sum of n samples lies between n times the lower and
  n times the upper limit, also after the *rounded* average is dropped: what stays is
  (n - 1)/n of the sum, rounded up, which lies between n - 1 times either limit because they are
  integers. So the unsigned subtractions never wrap. `LoopReadsOnlySampled` and `ModbusReadsOnlySampled` rest on which channels the loop has passed.
  `RangeIsKept` asks less of the past: a channel whose sum is `Settled`, that is between the multiples of its present
  limits, stays so while these stay, whatever limits its samples had, so that what `Recovers` reaches is not lost again.
  Between readings `Settled` is the level being in range (`SettledIsInRange`).
* `ReadingsProofs`. `EveryPageWasSent` and `LastMessageWasHanded`, from what holds between the statements of
  `Process`: what is remembered when the broadcast begins is the message under way or nothing
  (`RememberedOrForgotten`), since a page that connects later than `Remember` clears it; and MQTT
  was given the message before it is remembered (`HandedFirst`). A page that is counted after the
  broadcast calls back after it too, and so is not left out. `LimitWithoutOverlap` counts the pages
  that are connected or admitted (`RoomForAdmitted`).
* `MqttSessionProofs`, for any number of clients. `SessionInv` joins the three properties with
  `Undisturbed`: until a connection of the boot is lost, a client that is past its connect is
  the one behind the broker's connection, nothing has been retained as Online before it has said Offline, and
  its outbox holds nothing but Online. From it follow `OnlineNeedsSession` (a message only arrives over
  the live connection, and the step that ends the last one publishes the will),
  `DiscoveryArrives` and `AvailabilityStays`. `OfflineUntilRestart` is about the connections after the first: once
  a boot has said "Online" and a will has followed, with no "Online" left in any outbox (`SaidOffline`), no step but a
  restart makes the device available again, since `_publishedOnline` is never cleared.
  `SomebodyConnects`, the safety half of `SessionReturns`: on line there is a client, a running timer or a
  client about to be created, and no client is left created without being started.
* `ModemLinkProofs`, for any length of the event queue. `CallbackBelongsToMode` from `LockInv` (which
  task is inside `DCE_Mode::set`), `SetInv`, `FreeInv` and `OffInv` (what callback, PPP and mode are
  at each of its steps); `CommandModeIsTrue` from `RealInv` on top: a DCE changes to COMMAND only on words that a
  modem sends when it leaves data mode, unless a late word was left. `OnlyRacesUseFreedDce` and
  `ApHasNoModem` from `RaceInv`: without a race, only one task is past the test of the power, and
  what it has still to release is what its label says. `NetifIsNotDestroyedUnderPpp` needs no
  exclusion of races: `NetifInv` says that whoever has passed `cut` has taken the power
  (`Powerless`), that a modem without power lets no dial succeed (`Silent`), and that the interface
  is there from `InitNetwork` on while someone may still enter data mode (`Fresh`, `Owned`).
  `ModeChangesAreAlone`: two tasks are never inside a
  change of mode together, races included, and every path out of one gives the DTE back, so that nobody waits for a lock without a
  holder (the safety half of `TasksReturn`). `GoodModemEndsStarted`: with a modem that
  always answers, an invariant follows `ConnectModem` through its attempts, of which the odd ones
  start the network and the even ones stop it, and three is odd.
* `SettingsProofs`, for any number of channels, lengths and size of the EEPROM. What holds at each step of a
  save (`WhileSaving`, `AtRest`, `AtBoot`) gives `AcknowledgedStays` and `RestartIsHarmless`, with lemmas
  about what saving and loading do to a text. `ImplementsStore` is
  the refinement. `PortRoundTrip` and `NothingIsLost` say that the two exceptions of `RestartChangesNothing` are the only
  ones: without long texts and large ports a restart finds the settings in use. Whether a text fits stays an unexpanded predicate of the text: the proofs hold
  whatever `Fits` computes.

Model-checked only: all liveness properties (`FallsBack`, `FalseOnLineEnds`, `DeadApEnds`, `Recovers`,
`PageShowsReadings`, `SessionReturns`, `FirstSessionIsAnnounced`, `AcquiresNetwork`, `TasksReturn`), which need fairness and are
beyond the prover, although of five of them the safety half is proved (`NoGhost`, `LossIsNoticed`, `SomebodyConnects`,
`RangeIsKept`, `ModeChangesAreAlone`); and the five violations.

## Not modelled

* esp_modem beyond what `network_dce.cpp` reaches: CMUX, autodetection, the C API, the other AT
  commands, the Linux and VFS ports, the examples and the tests. The component is vendored and
  has most of the lines of the repository's implementation; this program uses the UART terminal, three modes and
  seven commands of it, and these are in ModemLink. A model of the rest would say nothing about
  this firmware, so the part of all implementation lines that is modelled stays small.
* Network state machine: the captive DNS (a late `STA_DISCONNECTED` can stop that of a new access point, 545),
  mDNS, the start of the Modbus server, and the handlers that every `GoOnline` registers anew (520).
* Readings: the contents of the JSON text, and so `_lastPublishTimeStamp`, which nothing reads.
* Numbers of inputs beyond the arrays (`PLC.cpp` 64): an access outside an array has no defined
  outcome to model, so the models keep the numbers within the arrays.
* Web log and firmware update: I/O without state the rest depends on; the restart that ends an update is
  in the models. Web pages and their layout. Hardware start-up.
* Texts: names and topics are model values or lengths, so the missing terminator (702) is not modelled.

What could come next: the captive DNS in NetworkManager; the composition of NetworkManager and
ModemLink, which now share only the state machine's variables by name; and an abstract
specification of what a subscriber sees of the device, implemented by MqttSession.
