----------------------------- MODULE ModemLink -----------------------------
(***************************************************************************)
(* The 4G link: IOT::ConnectModem and IOT::DisconnectModem                 *)
(* (code/ESP32/main/IOT.cpp 946-1019), the state changes that call them    *)
(* (470-486, 516-625, 804-822), network_dce.cpp, and what these reach in   *)
(* esp_modem: the modes of the DCE, the command and its answer on the      *)
(* UART, the PPP interface.                                                *)
(*                                                                         *)
(* ConnectModem runs on the loop task for up to minutes; DisconnectModem   *)
(* runs on the loop task and, when the network takes the address away, on  *)
(* the event task, also while the other task is in either of them.  The    *)
(* UART task hands what the modem sends to the read callback: to the       *)
(* command that waits, to PPP, or to exit_data.  The modem, the network    *)
(* and the PPP stack are the environment.                                  *)
(***************************************************************************)
EXTENDS Naturals, Sequences

CONSTANT
    MaxEvents     \* IP events that wait for the event task

ASSUME MaxEventsAssumption == MaxEvents \in Nat \ {0}

VARIABLES
    networkState,    \* IOT::_networkState, with ModemMode selected
    retryCount,      \* of ConnectModem
    pc,              \* where the loop task and the event task are
    back,            \* ... and where modem_stop_network returns to
    dce,             \* the global dce points to an object (else it is null)
    dceMode,         \* DCE_Mode::mode
    lock,            \* the task that holds DTE::internal_lock
    uart,            \* the UART driver is installed
    readCb,          \* the read callback of the terminal
    rx,              \* what the modem sent and nobody has read
    netif,           \* IOT::_netif is not NULL
    ppp,             \* the PPP session; PPP_STARTED is set unless it is "idle"
    handler,         \* on_ip_event is registered
    events,          \* IP events for the event task
    power,           \* MODEM_PWR_EN is HIGH
    modem,           \* what the modem takes its input for
    crash,           \* why the program has aborted
    good,            \* the modem answers at once and the carrier holds
    late,            \* an answer of this boot came after its command (history)
    raced            \* two tasks were connecting or disconnecting (history)

appVars == <<networkState, retryCount>>
taskVars == <<pc, back>>
dceVars == <<dce, dceMode, lock>>
uartVars == <<uart, readCb, rx>>
pppVars == <<netif, ppp>>
ipVars == <<handler, events>>
modemVars == <<power, modem>>
vars == <<appVars, taskVars, dceVars, uartVars, pppVars, ipVars, modemVars,
          crash, good, late, raced>>

-----------------------------------------------------------------------------
(***************************************************************************)
(* Types                                                                   *)
(***************************************************************************)
Tasks == {"loop", "event"}
Free == "free"

ConnectLabels == {"wakeup", "init", "retry", "sync", "stop", "exit", "escape",
                  "sync2", "reset", "signal", "start", "pdp", "dial", "resume", "enter"}
DisconnectLabels == {"disconnect", "cut", "stop", "exit", "escape", "deinit", "destroy"}
Labels == [loop  |-> {"run", "giveUp"} \cup ConnectLabels \cup DisconnectLabels,
           event |-> {"idle", "setOnLine", "setOffLine"} \cup DisconnectLabels]

\* What the task waits in when it has nothing to do.
Home(t) == IF t = "loop" THEN "run" ELSE "idle"

\* Steps that use the object behind dce, and those that hold the lock of the DTE.
NeedsDce == {"sync", "stop", "exit", "escape", "sync2", "reset", "signal",
             "start", "pdp", "dial", "resume", "enter"}
Locked == {"exit", "escape", "pdp", "dial", "resume", "enter"}

Words == {"OK", "ERROR", "CONNECT", "NO CARRIER", "PB DONE"}

TypeOK ==
    /\ networkState \in {"ApState", "Connecting", "OnLine", "OffLine"}
    /\ retryCount \in 0 .. 3
    /\ pc["loop"] \in Labels.loop /\ pc["event"] \in Labels.event
    /\ DOMAIN pc = Tasks
    /\ back \in [Tasks -> {"sync2", "deinit"}]
    /\ dce \in BOOLEAN
    /\ dceMode \in {"UNDEF", "COMMAND", "DATA"}
    /\ lock \in Tasks \cup {Free}
    /\ uart \in BOOLEAN
    /\ readCb \in {"command", "exit", "ppp"}
    /\ rx \in SUBSET Words
    /\ netif \in BOOLEAN
    /\ ppp \in {"idle", "starting", "up", "lost"}
    /\ handler \in BOOLEAN
    /\ events \in Seq({"GotIp", "LostIp"}) /\ Len(events) <= MaxEvents
    /\ power \in BOOLEAN
    /\ modem \in {"off", "command", "data"}
    /\ crash \in {"none", "again", "sim", "dce"}
    /\ good \in BOOLEAN
    /\ late \in BOOLEAN
    /\ raced \in BOOLEAN

\* After a restart of the controller the modem may be in any state.
Init ==
    /\ networkState = "ApState"
    /\ retryCount = 0
    /\ pc = [t \in Tasks |-> Home(t)]
    /\ back = [t \in Tasks |-> "deinit"]
    /\ dce = FALSE
    /\ dceMode = "UNDEF"
    /\ lock = Free
    /\ uart = FALSE
    /\ readCb = "command"
    /\ rx = {}
    /\ netif = FALSE
    /\ ppp = "idle"
    /\ handler = FALSE
    /\ events = <<>>
    /\ power = FALSE
    /\ modem \in {"off", "command", "data"}
    /\ crash = "none"
    /\ good \in BOOLEAN
    /\ late = FALSE
    /\ raced = FALSE

Connecting == pc["loop"] \in ConnectLabels
              /\ (pc["loop"] \in DisconnectLabels => back["loop"] = "sync2")
Disconnecting(t) == pc[t] \in DisconnectLabels
                    /\ (pc[t] \in ConnectLabels => back[t] = "deinit")

Goto(t, label) == pc' = [pc EXCEPT ![t] = label]

-----------------------------------------------------------------------------
(***************************************************************************)
(* A command and its answer                                                *)
(***************************************************************************)
\* What counts as success; "ERROR" is failure, and with neither the command
\* waits until its time is over.
Pass == [AT |-> {"OK"}, CSQ |-> {"OK"}, PDP |-> {"OK"}, RESET |-> {"PB DONE"},
         ATD |-> {"CONNECT"}, ATO |-> {"CONNECT"}, ESCAPE |-> {"OK", "NO CARRIER"}]

Results == {"OK", "FAIL", "TIMEOUT"}

Verdict(text, pass) ==
    IF text \cap pass # {} THEN "OK"
    ELSE IF "ERROR" \in text THEN "FAIL" ELSE "TIMEOUT"

\* How the modem may answer a command, and the state this leaves it in.
Reply(text, mode) == [text |-> text, mode |-> mode]

Answers(cmd) ==
    CASE modem = "off" -> {Reply({}, "off")}
      [] modem = "data" /\ cmd = "ESCAPE" ->
            {Reply({"OK"}, "command")} \cup IF good THEN {} ELSE {Reply({}, "data")}
      [] modem = "data" /\ cmd # "ESCAPE" -> {Reply({}, "data")}
      [] modem = "command" /\ cmd = "ESCAPE" -> {Reply({}, "command")}
      [] modem = "command" /\ cmd # "ESCAPE" ->
            { Reply({word}, IF word = "CONNECT" THEN "data" ELSE "command") : word \in Pass[cmd] }
            \cup IF good THEN {} ELSE {Reply({"ERROR"}, "command"), Reply({}, "command")}

\* DTE::command: text left in the UART is taken for the answer.  What comes after the
\* command is over is left for the next one.
Command(t, cmd, result) ==
    /\ lock \in {Free, t}
    /\ \E answer \in Answers(cmd), delayed \in IF good THEN {FALSE} ELSE BOOLEAN :
          LET misled == Verdict(rx, Pass[cmd]) # "TIMEOUT"
              heard == IF misled \/ delayed THEN rx ELSE rx \cup answer.text
          IN  /\ modem' = answer.mode
              /\ late' = (late \/ (delayed /\ answer.text # {}))
              /\ IF readCb = "command"
                 THEN /\ result = Verdict(heard, Pass[cmd])
                      /\ rx' = IF misled \/ delayed THEN answer.text ELSE {}
                 ELSE /\ result = "TIMEOUT"
                      /\ UNCHANGED rx

-----------------------------------------------------------------------------
(***************************************************************************)
(* Mutants: plausible mistakes in the definitions below, used only to see  *)
(* that the properties notice them.                                        *)
(***************************************************************************)
AttemptsTwo == 2                \* one attempt less

RetryOnceMore ==                \* while (retryCount-- >= 0)
    /\ pc["loop"] = "retry"
    /\ retryCount' = retryCount - 1
    /\ Goto("loop", IF retryCount < 0 THEN "run" ELSE "sync")
    /\ UNCHANGED <<networkState, back, dceVars, uartVars, pppVars, ipVars, modemVars,
                   crash, good, late>>

GiveBackNever(next) ==          \* a failure leaves the DTE locked
    UNCHANGED lock

ExitDataKeepsCallback(t) ==     \* dte.set_read_cb(nullptr) only before "+++"
    /\ pc[t] = "exit" /\ dce
    /\ rx' = {}
    /\ IF rx \cap {"OK", "NO CARRIER"} # {}
       THEN dceMode' = "COMMAND" /\ lock' = Free /\ Goto(t, back[t]) /\ UNCHANGED readCb
       ELSE UNCHANGED <<dceMode, lock>> /\ Goto(t, "escape") /\ readCb' = "command"
    /\ UNCHANGED <<appVars, back, dce, uart, pppVars, ipVars, modemVars, crash, good, late>>

ModeAfterAlways(result) ==      \* the result of set_mode(COMMAND_MODE) is not looked at
    "COMMAND"

TestPowerNever(t) ==            \* DisconnectModem does not look at MODEM_PWR_EN
    /\ pc[t] = "disconnect"
    /\ Goto(t, "cut")
    /\ UNCHANGED <<appVars, back, dceVars, uartVars, pppVars, ipVars, modemVars,
                   crash, good, late>>

CutPowerOnly(t) ==              \* no modem_stop_network: the modem has no power any more
    /\ pc[t] = "cut"
    /\ power' = FALSE
    /\ modem' = "off"
    /\ Goto(t, "deinit")
    /\ UNCHANGED <<appVars, back, dceVars, uartVars, pppVars, ipVars, crash, good, late>>

DestroyNetif(t) ==              \* on_ip_event stays registered
    /\ pc[t] = "destroy"
    /\ netif' = FALSE
    /\ Goto(t, Home(t))
    /\ UNCHANGED <<appVars, back, dceVars, uartVars, ppp, ipVars, modemVars, crash, good, late>>

-----------------------------------------------------------------------------
(***************************************************************************)
(* ConnectModem on the loop task                                           *)
(***************************************************************************)
\* int retryCount = 3
Attempts == 3

\* Run: AP_TIMEOUT is over, or "went offline, try again...".
TryToConnect ==
    /\ pc["loop"] = "run"
    /\ networkState \in {"ApState", "OffLine"}
    /\ networkState' = "Connecting"
    /\ Goto("loop", "wakeup")
    /\ UNCHANGED <<retryCount, back, dceVars, uartVars, pppVars, ipVars, modemVars,
                   crash, good, late>>

Wakeup ==
    /\ pc["loop"] = "wakeup"
    /\ power' = TRUE
    /\ modem' = IF modem = "off" THEN "command" ELSE modem
    /\ Goto("loop", "init")
    /\ UNCHANGED <<appVars, back, dceVars, uartVars, pppVars, ipVars, crash, good, late>>

\* esp_netif_new and modem_init_network.  The UART driver and the interface can be
\* there only once, and modem_deinit_network does not free the driver; a PIN, if there
\* is one, has to be accepted: otherwise the program aborts.
AbortInit(cause) ==
    /\ crash' = cause
    /\ UNCHANGED <<appVars, taskVars, dceVars, uartVars, pppVars, ipVars, modemVars, good, late>>

InitNetwork ==
    /\ pc["loop"] = "init"
    /\ IF uart \/ netif
       THEN AbortInit("again")
       ELSE \/ ~good /\ AbortInit("sim")
            \/ /\ netif' = TRUE /\ uart' = TRUE /\ handler' = TRUE
               /\ dce' = TRUE /\ dceMode' = "UNDEF"
               /\ readCb' = "command" /\ rx' = {}
               /\ modem' \in {modem, "command"}      \* a PIN needs command mode
               /\ retryCount' = Attempts
               /\ Goto("loop", "retry")
               /\ UNCHANGED <<networkState, back, lock, ppp, events, power, crash, good, late>>

\* while (retryCount-- != 0); a success does not leave the loop.
Retry ==
    /\ pc["loop"] = "retry"
    /\ retryCount' = IF retryCount = 0 THEN 0 ELSE retryCount - 1
    /\ Goto("loop", IF retryCount = 0 THEN "run" ELSE "sync")
    /\ UNCHANGED <<networkState, back, dceVars, uartVars, pppVars, ipVars, modemVars,
                   crash, good, late>>

\* Steps of ConnectModem that send one command and go on with its result.
Ask(label, cmd, whenOk, otherwise) ==
    /\ pc["loop"] = label /\ dce
    /\ \E result \in Results :
          /\ Command("loop", cmd, result)
          /\ Goto("loop", IF result = "OK" THEN whenOk ELSE otherwise)
    /\ UNCHANGED <<appVars, uart, readCb, pppVars, ipVars, power, crash, good>>

CheckSync ==
    /\ Ask("sync", "AT", "signal", "stop")
    /\ back' = [back EXCEPT !["loop"] = "sync2"]
    /\ UNCHANGED dceVars

CheckSyncAgain ==
    /\ Ask("sync2", "AT", "retry", "reset")
    /\ UNCHANGED <<back, dceVars>>

Reset ==
    /\ Ask("reset", "RESET", "retry", "retry")
    /\ UNCHANGED <<back, dceVars>>

\* The reply has to have the strength in it, and the strength may be too low.
CheckSignal ==
    /\ \E whenOk \in IF "OK" \in rx THEN {"retry"}
                       ELSE IF good THEN {"start"} ELSE {"start", "retry"} :
          Ask("signal", "CSQ", whenOk, "retry")
    /\ UNCHANGED <<back, dceVars>>

\* modem_start_network: DCE_Mode::set(DATA_MODE)
StartNetwork ==
    /\ pc["loop"] = "start" /\ dce /\ lock = Free
    /\ IF dceMode = "DATA"
       THEN UNCHANGED lock /\ Goto("loop", "retry")
       ELSE lock' = "loop" /\ Goto("loop", "pdp")
    /\ UNCHANGED <<appVars, back, dce, dceMode, uartVars, pppVars, ipVars, modemVars,
                   crash, good, late>>

\* Scoped<DTE> ends when set() returns.
GiveBack(next) == lock' = IF next = "retry" THEN Free ELSE lock

\* enter_data: the PDP context, ...
SetPdpContext ==
    /\ Ask("pdp", "PDP", "dial", "retry")
    /\ GiveBack(pc'["loop"])
    /\ UNCHANGED <<back, dce, dceMode>>

\* ... ATD, ...
Dial ==
    /\ Ask("dial", "ATD", "enter", "resume")
    /\ UNCHANGED <<back, dceVars>>

\* ... or else ATO, ...
Resume ==
    /\ Ask("resume", "ATO", "enter", "retry")
    /\ GiveBack(pc'["loop"])
    /\ UNCHANGED <<back, dce, dceMode>>

\* ... and Netif::start.
EnterData ==
    /\ pc["loop"] = "enter" /\ dce
    /\ readCb' = "ppp" /\ rx' = {}
    /\ ppp' = IF ppp = "idle" THEN "starting" ELSE ppp
    /\ dceMode' = "DATA"
    /\ lock' = Free
    /\ Goto("loop", "retry")
    /\ UNCHANGED <<appVars, back, dce, uart, netif, ipVars, modemVars, crash, good, late>>

-----------------------------------------------------------------------------
(***************************************************************************)
(* modem_stop_network on either task: DCE_Mode::set(COMMAND_MODE)          *)
(***************************************************************************)
\* Refused in command mode; else exit_data reads on and Netif::stop ends PPP, upon
\* which the modem may leave data mode and say so.
StopNetwork(t) ==
    /\ pc[t] = "stop" /\ dce /\ lock = Free
    /\ IF dceMode = "COMMAND"
       THEN Goto(t, back[t]) /\ UNCHANGED <<lock, readCb, rx, ppp, modem>>
       ELSE /\ lock' = t
            /\ readCb' = "exit"
            /\ ppp' = "idle"
            /\ \/ UNCHANGED <<modem, rx>>
               \/ modem = "data" /\ modem' = "command" /\ rx' = rx \cup {"NO CARRIER"}
            /\ Goto(t, "exit")
    /\ UNCHANGED <<appVars, back, dce, dceMode, uart, netif, ipVars, power, crash, good, late>>

\* exit_data, after PPP_EXIT or 30 s and after a text of the modem or 2 s
ExitData(t) ==
    /\ pc[t] = "exit" /\ dce
    /\ readCb' = "command" /\ rx' = {}
    /\ IF rx \cap {"OK", "NO CARRIER"} # {}
       THEN dceMode' = "COMMAND" /\ lock' = Free /\ Goto(t, back[t])
       ELSE UNCHANGED <<dceMode, lock>> /\ Goto(t, "escape")
    /\ UNCHANGED <<appVars, back, dce, uart, pppVars, ipVars, modemVars, crash, good, late>>

ModeAfter(result) == IF result = "OK" THEN "COMMAND" ELSE "UNDEF"

\* ... and "+++", if there was no text
Escape(t) ==
    /\ pc[t] = "escape" /\ dce
    /\ \E result \in Results :
          Command(t, "ESCAPE", result) /\ dceMode' = ModeAfter(result)
    /\ lock' = Free
    /\ Goto(t, back[t])
    /\ UNCHANGED <<appVars, back, dce, uart, readCb, pppVars, ipVars, power, crash, good>>

-----------------------------------------------------------------------------
(***************************************************************************)
(* DisconnectModem on either task                                          *)
(***************************************************************************)
TestPower(t) ==
    /\ pc[t] = "disconnect"
    /\ Goto(t, IF power THEN "cut" ELSE Home(t))
    /\ UNCHANGED <<appVars, back, dceVars, uartVars, pppVars, ipVars, modemVars,
                   crash, good, late>>

CutPower(t) ==
    /\ pc[t] = "cut"
    /\ power' = FALSE
    /\ modem' = "off"
    /\ back' = [back EXCEPT ![t] = "deinit"]
    /\ Goto(t, "stop")
    /\ UNCHANGED <<appVars, dceVars, uartVars, pppVars, ipVars, crash, good, late>>

\* modem_deinit_network: free(dce) runs no destructor.
Deinit(t) ==
    /\ pc[t] = "deinit"
    /\ dce' = FALSE
    /\ Goto(t, "destroy")
    /\ UNCHANGED <<appVars, back, dceMode, lock, uartVars, pppVars, ipVars, modemVars,
                   crash, good, late>>

Destroy(t) ==
    /\ pc[t] = "destroy"
    /\ netif' = FALSE
    /\ handler' = FALSE
    /\ Goto(t, Home(t))
    /\ UNCHANGED <<appVars, back, dceVars, uartVars, ppp, events, modemVars, crash, good, late>>

\* The object behind dce is used after DisconnectModem freed it on the other task.
UseFreedDce(t) ==
    /\ pc[t] \in NeedsDce /\ ~dce
    /\ crash' = "dce"
    /\ UNCHANGED <<appVars, taskVars, dceVars, uartVars, pppVars, ipVars, modemVars, good, late>>

-----------------------------------------------------------------------------
(***************************************************************************)
(* Changes of state                                                        *)
(***************************************************************************)
\* Run: WIFI_CONNECTION_TIMEOUT is over, which a link that comes up well does not reach.
TimeOut ==
    /\ pc["loop"] = "run"
    /\ networkState = "Connecting"
    /\ ~(good /\ ppp \in {"starting", "up"})
    /\ Goto("loop", "giveUp")
    /\ UNCHANGED <<appVars, back, dceVars, uartVars, pppVars, ipVars, modemVars,
                   crash, good, late>>

\* setState(ApState)
GiveUp ==
    /\ pc["loop"] = "giveUp"
    /\ networkState' = "ApState"
    /\ Goto("loop", IF networkState \in {"Connecting", "OnLine"} THEN "disconnect" ELSE "run")
    /\ UNCHANGED <<retryCount, back, dceVars, uartVars, pppVars, ipVars, modemVars,
                   crash, good, late>>

\* HandleIPEvent: GoOnline and GoOffline test the state ...
HandleIPEvent ==
    /\ pc["event"] = "idle" /\ events # <<>>
    /\ events' = Tail(events)
    /\ Goto("event",
            IF ~handler THEN "idle"
            ELSE IF Head(events) = "GotIp"
                 THEN IF networkState # "ApState" THEN "setOnLine" ELSE "idle"
                 ELSE IF networkState = "OnLine" THEN "setOffLine" ELSE "idle")
    /\ UNCHANGED <<appVars, back, dceVars, uartVars, pppVars, handler, modemVars,
                   crash, good, late>>

\* ... and setState sets it.
SetOnLine ==
    /\ pc["event"] = "setOnLine"
    /\ networkState' = "OnLine"
    /\ Goto("event", "idle")
    /\ UNCHANGED <<retryCount, back, dceVars, uartVars, pppVars, ipVars, modemVars,
                   crash, good, late>>

SetOffLine ==
    /\ pc["event"] = "setOffLine"
    /\ networkState' = "OffLine"
    /\ Goto("event", "disconnect")
    /\ UNCHANGED <<retryCount, back, dceVars, uartVars, pppVars, ipVars, modemVars,
                   crash, good, late>>

-----------------------------------------------------------------------------
(***************************************************************************)
(* PPP, the modem, the network; the watchdog restarts a program that       *)
(* aborted                                                                 *)
(***************************************************************************)
Post(event) == events' = IF Len(events) < MaxEvents THEN Append(events, event) ELSE events

LinkUp ==
    /\ ppp = "starting" /\ modem = "data" /\ readCb = "ppp" /\ netif
    /\ ppp' = "up"
    /\ Post("GotIp")
    /\ UNCHANGED <<appVars, taskVars, dceVars, uartVars, netif, handler, modemVars,
                   crash, good, late>>

LinkLost ==
    /\ ppp \in {"starting", "up"}
    /\ ~good \/ modem # "data"
    /\ ppp' = "lost"
    /\ Post("LostIp")
    /\ UNCHANGED <<appVars, taskVars, dceVars, uartVars, netif, handler, modemVars,
                   crash, good, late>>

CarrierLost ==
    /\ ~good /\ modem = "data"
    /\ modem' = "command"
    /\ rx' = IF readCb = "ppp" THEN rx ELSE rx \cup {"NO CARRIER"}
    /\ UNCHANGED <<appVars, taskVars, dceVars, uart, readCb, pppVars, ipVars, power,
                   crash, good, late>>

ConditionsChange ==
    /\ good' = ~good
    /\ UNCHANGED <<appVars, taskVars, dceVars, uartVars, pppVars, ipVars, modemVars,
                   crash, late>>

Restart ==
    /\ crash # "none"
    /\ networkState' = "ApState" /\ retryCount' = 0
    /\ pc' = [t \in Tasks |-> Home(t)] /\ back' = [t \in Tasks |-> "deinit"]
    /\ dce' = FALSE /\ dceMode' = "UNDEF" /\ lock' = Free
    /\ uart' = FALSE /\ readCb' = "command" /\ rx' = {}
    /\ netif' = FALSE /\ ppp' = "idle"
    /\ handler' = FALSE /\ events' = <<>>
    /\ power' = FALSE /\ modem' \in {modem, "off"}
    /\ crash' = "none" /\ late' = FALSE /\ raced' = FALSE
    /\ UNCHANGED good

-----------------------------------------------------------------------------
Stop(t) == StopNetwork(t) \/ ExitData(t) \/ Escape(t)
Disconnect(t) == TestPower(t) \/ CutPower(t) \/ Deinit(t) \/ Destroy(t)
Connect ==
    \/ Wakeup \/ InitNetwork \/ Retry \/ CheckSync \/ CheckSyncAgain \/ Reset
    \/ CheckSignal \/ StartNetwork \/ SetPdpContext \/ Dial \/ Resume \/ EnterData

LoopStep == TryToConnect \/ Connect \/ TimeOut \/ GiveUp
            \/ Stop("loop") \/ Disconnect("loop") \/ UseFreedDce("loop")
EventStep == HandleIPEvent \/ SetOnLine \/ SetOffLine
             \/ Stop("event") \/ Disconnect("event") \/ UseFreedDce("event")

Overlap == Disconnecting("event") /\ (Connecting \/ Disconnecting("loop"))

Running(step) ==
    /\ crash = "none"
    /\ step
    /\ raced' = (raced \/ Overlap')

Next ==
    \/ Running(LoopStep)
    \/ Running(EventStep)
    \/ Running(LinkUp \/ LinkLost \/ CarrierLost \/ ConditionsChange)
    \/ Restart

Fairness ==
    /\ WF_vars(Running(LoopStep))
    /\ WF_vars(Running(EventStep))
    /\ WF_vars(Running(LinkUp))
    /\ WF_vars(Restart)

Spec == Init /\ [][Next]_vars
FairSpec == Spec /\ Fairness

-----------------------------------------------------------------------------
(***************************************************************************)
(* Properties                                                              *)
(***************************************************************************)
\* Outside DCE_Mode::set, the read callback and the PPP session belong to the mode of
\* the DCE: on no path, with an error or without, is the terminal left to PPP, or PPP
\* started, in another mode than DATA (esp_modem_dce.cpp 17-81).
CallbackFollowsMode ==
    lock = Free /\ dce =>
        /\ readCb = IF dceMode = "DATA" THEN "ppp" ELSE "command"
        /\ (ppp # "idle") <=> (dceMode = "DATA")

\* When the DCE takes itself to be in command mode the modem is, unless an answer came
\* late.  In that case modem_stop_network refuses to do anything (esp_modem_dce.cpp
\* 157) and no attempt of ConnectModem succeeds before the power is cut.
CommandModeIsReal ==
    lock = Free /\ dce /\ dceMode = "COMMAND" /\ ~late => modem # "data"

\* The DCE is not used after DisconnectModem freed it (network_dce.cpp:201), unless two
\* tasks were in ConnectModem and DisconnectModem together: nothing keeps them apart.
FreedOnlyInRace ==
    crash = "dce" => raced

\* The UART task does not feed PPP for an interface that was destroyed (IOT.cpp:1014),
\* even if both tasks are at it: a modem without power gives no task a data mode.
NetifOutlivesPpp ==
    readCb = "ppp" => netif

\* An access point that is alone has no modem, no interface and no handler.
ApReleasesModem ==
    networkState = "ApState" /\ pc["loop"] = "run" /\ pc["event"] = "idle" /\ ~raced
        => ~power /\ ~dce /\ ~netif /\ ~handler

\* With a modem just switched on that answers at once, and a carrier that holds, the
\* device gets on line and stays there.  (It needs the three attempts: the first starts
\* the network, the second takes it for a failure and stops it, the third starts it.)
AcquiresNetwork ==
    modem = "off" /\ []good => <>[](networkState = "OnLine" /\ ppp = "up")

\* In the same conditions ConnectModem never returns with the network stopped: the loop
\* that does not end with a success (IOT.cpp:993) ends with a started one, and the state
\* machine does not fall back from it.
GoodModemIsStarted ==
    modem = "off" /\ []good =>
        [](pc["loop"] = "run" /\ networkState # "ApState" =>
               dceMode = "DATA" /\ ppp \in {"starting", "up"} /\ modem = "data")

\* Whatever the modem does, no task waits for ever for the DTE or for an answer.
TasksReturn ==
    /\ pc["event"] # "idle" ~> pc["event"] = "idle"
    /\ Connecting ~> ~Connecting
=============================================================================
