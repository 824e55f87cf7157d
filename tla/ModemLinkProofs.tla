-------------------------- MODULE ModemLinkProofs --------------------------
(***************************************************************************)
(* Proofs about ModemLink: the lock of the DTE, the read callback and the  *)
(* PPP session follow the mode of the DCE; command mode is real unless an  *)
(* answer came late; the DCE is used after it is freed only in a race; a   *)
(* good modem ends up with the network started.                            *)
(***************************************************************************)
EXTENDS ModemLink, SequenceTheorems, TLAPS

(***************************************************************************)
(* The type invariant                                                      *)
(***************************************************************************)
\* What each task is doing; Labels names the steps it may be at.
TaskTypes ==
    /\ pc \in [Tasks -> Labels.loop \cup Labels.event]
    /\ pc["loop"] \in Labels.loop /\ pc["event"] \in Labels.event
    /\ back \in [Tasks -> {"sync2", "deinit"}]
AppTypes ==
    /\ networkState \in {"ApState", "Connecting", "OnLine", "OffLine"}
    /\ retryCount \in 0 .. 3
DceTypes ==
    /\ dce \in BOOLEAN
    /\ dceMode \in {"UNDEF", "COMMAND", "DATA"}
    /\ lock \in Tasks \cup {Free}
UartTypes ==
    /\ uart \in BOOLEAN
    /\ readCb \in {"command", "exit", "ppp"}
    /\ rx \in SUBSET Words
PppTypes == netif \in BOOLEAN /\ ppp \in {"idle", "starting", "up", "lost"}
IpTypes ==
    /\ handler \in BOOLEAN
    /\ events \in Seq({"GotIp", "LostIp"}) /\ Len(events) <= MaxEvents
ModemTypes == power \in BOOLEAN /\ modem \in {"off", "command", "data"}
OtherTypes ==
    /\ crash \in {"none", "again", "sim", "dce"}
    /\ good \in BOOLEAN /\ late \in BOOLEAN /\ raced \in BOOLEAN

Types == /\ TaskTypes /\ AppTypes /\ DceTypes /\ UartTypes /\ PppTypes /\ IpTypes
         /\ ModemTypes /\ OtherTypes

LEMMA TypesGiveTypeOK == Types => TypeOK
BY DEF Types, TypeOK, TaskTypes, AppTypes, DceTypes, UartTypes, PppTypes, IpTypes, ModemTypes,
   OtherTypes

\* The event task returns from modem_stop_network into DisconnectModem.
BackOK == back["event"] = "deinit"

LEMMA TypesInit ==
    ASSUME Init
    PROVE  Types /\ BackOK
<1>1. TaskTypes
  BY DEF Init, TaskTypes, Labels, Tasks, Home
<1>2. IpTypes
  <2>1. Len(<<>>) = 0 /\ <<>> \in Seq({"GotIp", "LostIp"})
    BY EmptySeq
  <2>2. 0 <= MaxEvents
    BY MaxEventsAssumption
  <2>. QED  BY <2>1, <2>2 DEF Init, IpTypes
<1>3. AppTypes /\ DceTypes /\ UartTypes /\ PppTypes /\ ModemTypes /\ OtherTypes
  <2>0. AppTypes
    BY DEF Init, AppTypes
  <2>1. DceTypes
    BY DEF Init, DceTypes
  <2>2. UartTypes /\ PppTypes
    BY DEF Init, UartTypes, PppTypes
  <2>3. ModemTypes /\ OtherTypes
    BY DEF Init, ModemTypes, OtherTypes
  <2>. QED  BY <2>0, <2>1, <2>2, <2>3
<1>4. BackOK
  BY DEF Init, BackOK, Tasks, Home
<1>. QED  BY <1>1, <1>2, <1>3, <1>4 DEF Types

Commands == {"AT", "CSQ", "PDP", "RESET", "ATD", "ATO", "ESCAPE"}

LEMMA PassWords ==
    ASSUME NEW cmd \in Commands, NEW word \in Pass[cmd]
    PROVE  /\ word \in Words
           /\ word = "CONNECT" => cmd \in {"ATD", "ATO"}
           /\ word = "NO CARRIER" => cmd = "ESCAPE"
<1>1. CASE cmd = "AT"
  BY <1>1 DEF Pass, Words
<1>2. CASE cmd = "CSQ"
  BY <1>2 DEF Pass, Words
<1>3. CASE cmd = "PDP"
  BY <1>3 DEF Pass, Words
<1>4. CASE cmd = "RESET"
  BY <1>4 DEF Pass, Words
<1>5. CASE cmd = "ATD"
  BY <1>5 DEF Pass, Words
<1>6. CASE cmd = "ATO"
  BY <1>6 DEF Pass, Words
<1>7. CASE cmd = "ESCAPE"
  BY <1>7 DEF Pass, Words
<1>. QED  BY <1>1, <1>2, <1>3, <1>4, <1>5, <1>6, <1>7 DEF Commands

LEMMA AnswerType ==
    ASSUME ModemTypes, NEW cmd \in Commands, NEW answer \in Answers(cmd)
    PROVE  answer.text \in SUBSET Words /\ answer.mode \in {"off", "command", "data"}
<1>1. {"OK"} \in SUBSET Words /\ {"ERROR"} \in SUBSET Words
  BY DEF Words
<1>2. modem \in {"off", "command", "data"}
  BY DEF ModemTypes
<1>3. CASE modem = "off"
  BY <1>3 DEF Answers, Reply
<1>4. CASE modem = "data" /\ cmd = "ESCAPE"
  <2>1. answer = Reply({"OK"}, "command") \/ answer = Reply({}, "data")
    BY <1>4 DEF Answers
  <2>. QED  BY <2>1, <1>1 DEF Reply
<1>5. CASE modem = "data" /\ cmd # "ESCAPE"
  BY <1>5 DEF Answers, Reply
<1>6. CASE modem = "command" /\ cmd = "ESCAPE"
  BY <1>6 DEF Answers, Reply
<1>7. CASE modem = "command" /\ cmd # "ESCAPE"
  <2>1. CASE answer \in {Reply({"ERROR"}, "command"), Reply({}, "command")}
    <3>1. answer = Reply({"ERROR"}, "command") \/ answer = Reply({}, "command")
      BY <2>1
    <3>. QED  BY <3>1, <1>1 DEF Reply
  <2>2. CASE answer \in { Reply({word}, IF word = "CONNECT" THEN "data" ELSE "command")
                             : word \in Pass[cmd] }
    <3>1. PICK word \in Pass[cmd] :
             answer = Reply({word}, IF word = "CONNECT" THEN "data" ELSE "command")
      BY <2>2
    <3>. QED  BY <3>1, PassWords DEF Reply
  <2>. QED  BY <1>7, <2>1, <2>2 DEF Answers
<1>. QED  BY <1>2, <1>3, <1>4, <1>5, <1>6, <1>7

LEMMA CommandType ==
    ASSUME Types, NEW t \in Tasks, NEW cmd \in Commands, NEW result, Command(t, cmd, result)
    PROVE  rx' \in SUBSET Words /\ modem' \in {"off", "command", "data"} /\ late' \in BOOLEAN
<1>1. PICK answer \in Answers(cmd), delayed \in BOOLEAN :
         /\ modem' = answer.mode
         /\ late' = (late \/ (delayed /\ answer.text # {}))
         /\ rx' \in {rx, {}, answer.text}
  BY DEF Command
<1>2. answer.text \in SUBSET Words /\ answer.mode \in {"off", "command", "data"}
  BY AnswerType DEF Types
<1>. QED  BY <1>1, <1>2 DEF Types, UartTypes, OtherTypes, ModemTypes

\* Of a step only the groups it changes are of interest.
LEMMA SameTypes ==
    ASSUME Types
    PROVE  /\ UNCHANGED appVars => AppTypes'
           /\ UNCHANGED dceVars => DceTypes'
           /\ UNCHANGED uartVars => UartTypes'
           /\ UNCHANGED pppVars => PppTypes'
           /\ UNCHANGED ipVars => IpTypes'
           /\ UNCHANGED modemVars => ModemTypes'
<1>1. UNCHANGED appVars => AppTypes'
  BY DEF Types, AppTypes, appVars
<1>2. UNCHANGED dceVars => DceTypes'
  BY DEF Types, DceTypes, dceVars
<1>3. UNCHANGED uartVars => UartTypes'
  BY DEF Types, UartTypes, uartVars
<1>4. UNCHANGED pppVars => PppTypes'
  BY DEF Types, PppTypes, pppVars
<1>5. UNCHANGED ipVars => IpTypes'
  BY DEF Types, IpTypes, ipVars
<1>6. UNCHANGED modemVars => ModemTypes'
  BY DEF Types, ModemTypes, modemVars
<1>. QED  BY <1>1, <1>2, <1>3, <1>4, <1>5, <1>6

\* A task goes to one of its own labels.
LEMMA GotoTypes ==
    ASSUME TaskTypes, BackOK, NEW t \in Tasks, NEW label \in Labels[t], Goto(t, label),
           \/ UNCHANGED back
           \/ back' = [back EXCEPT !["loop"] = "sync2"]
           \/ back' = [back EXCEPT ![t] = "deinit"]
    PROVE  TaskTypes' /\ BackOK'
<1>1. label \in Labels.loop \cup Labels.event
  BY DEF Labels, Tasks
<1>2. pc' \in [Tasks -> Labels.loop \cup Labels.event]
  BY <1>1 DEF Goto, TaskTypes
<1>3. pc'["loop"] \in Labels.loop /\ pc'["event"] \in Labels.event
  BY DEF Goto, TaskTypes, Tasks, Labels
<1>4. back' \in [Tasks -> {"sync2", "deinit"}]
  BY DEF TaskTypes
<1>5. BackOK'
  BY DEF BackOK, TaskTypes, Tasks
<1>. QED  BY <1>2, <1>3, <1>4, <1>5 DEF TaskTypes

LEMMA LabelsOf ==
    /\ {"run", "giveUp"} \cup ConnectLabels \cup DisconnectLabels = Labels["loop"]
    /\ {"idle", "setOnLine", "setOffLine"} \cup DisconnectLabels = Labels["event"]
    /\ \A t \in Tasks : Home(t) \in Labels[t] /\ \A label \in DisconnectLabels : label \in Labels[t]
BY DEF Labels, Tasks, Home

\* What the steps of the loop task in ConnectModem leave as it was.
LEMMA AskTypes ==
    ASSUME Types, BackOK, NEW label, NEW cmd \in Commands,
           NEW whenOk \in Labels["loop"], NEW otherwise \in Labels["loop"],
           Ask(label, cmd, whenOk, otherwise),
           UNCHANGED back \/ back' = [back EXCEPT !["loop"] = "sync2"]
    PROVE  /\ TaskTypes' /\ BackOK' /\ AppTypes' /\ UartTypes' /\ PppTypes' /\ IpTypes' /\ ModemTypes'
           /\ crash' = crash /\ good' = good /\ late' \in BOOLEAN
<1>1. PICK result \in Results : /\ Command("loop", cmd, result)
                                /\ Goto("loop", IF result = "OK" THEN whenOk ELSE otherwise)
  BY DEF Ask
<1>2. rx' \in SUBSET Words /\ modem' \in {"off", "command", "data"} /\ late' \in BOOLEAN
  BY <1>1, CommandType DEF Tasks
<1>3. TaskTypes' /\ BackOK'
  <2>1. PICK label2 \in Labels["loop"] : Goto("loop", label2)
    BY <1>1
  <2>. QED  BY <2>1, GotoTypes DEF Types, Tasks
<1>4. AppTypes' /\ PppTypes' /\ IpTypes'
  BY SameTypes DEF Ask
<1>5. UartTypes'
  BY <1>2 DEF Ask, Types, UartTypes
<1>6. ModemTypes'
  BY <1>2 DEF Ask, Types, ModemTypes
<1>. QED  BY <1>2, <1>3, <1>4, <1>5, <1>6 DEF Ask

\* Every step keeps the types; raced aside, which Running sets.
StepTypes == /\ TaskTypes' /\ BackOK' /\ AppTypes' /\ DceTypes' /\ UartTypes'
             /\ PppTypes' /\ IpTypes' /\ ModemTypes'
             /\ crash' \in {"none", "again", "sim", "dce"} /\ good' \in BOOLEAN /\ late' \in BOOLEAN

LEMMA SameOther ==
    ASSUME OtherTypes
    PROVE  /\ crash \in {"none", "again", "sim", "dce"} /\ good \in BOOLEAN /\ late \in BOOLEAN
BY DEF OtherTypes

LEMMA ConnectTypes ==
    ASSUME Types, BackOK, Connect
    PROVE  StepTypes
<1>. USE DEF StepTypes
<1>. DEFINE LoopLabels == {"run", "giveUp"} \cup ConnectLabels \cup DisconnectLabels
<1>1. \A label \in LoopLabels : label \in Labels["loop"]
  BY LabelsOf
<1>. HIDE DEF LoopLabels
<1>2. TaskTypes /\ OtherTypes /\ "loop" \in Tasks
  BY DEF Types, Tasks
<1>3. CASE Wakeup
  <2>1. PICK label \in Labels["loop"] : Goto("loop", label)
    BY <1>1, <1>3 DEF Wakeup, LoopLabels, ConnectLabels, DisconnectLabels
  <2>2. TaskTypes' /\ BackOK'
    BY <1>2, <1>3, <2>1, GotoTypes DEF Wakeup
  <2>3. AppTypes' /\ DceTypes' /\ UartTypes' /\ PppTypes' /\ IpTypes'
    BY <1>3, SameTypes DEF Wakeup
  <2>4. ModemTypes'
    BY <1>3 DEF Wakeup, Types, ModemTypes
  <2>. QED  BY <1>2, <1>3, <2>2, <2>3, <2>4, SameOther DEF Wakeup
<1>4. CASE InitNetwork
  <2>1. CASE \E cause \in {"again", "sim"} : AbortInit(cause)
    <3>1. TaskTypes' /\ BackOK'
      BY <1>2, <2>1 DEF AbortInit, taskVars, TaskTypes, BackOK
    <3>. QED  BY <1>2, <2>1, <3>1, SameTypes, SameOther DEF AbortInit
  <2>2. CASE ~\E cause \in {"again", "sim"} : AbortInit(cause)
    <3>1. /\ netif' = TRUE /\ uart' = TRUE /\ handler' = TRUE
          /\ dce' = TRUE /\ dceMode' = "UNDEF" /\ readCb' = "command" /\ rx' = {}
          /\ modem' \in {modem, "command"} /\ retryCount' = Attempts
          /\ Goto("loop", "retry")
          /\ UNCHANGED <<networkState, back, lock, ppp, events, power, crash, good, late>>
      BY <1>4, <2>2 DEF InitNetwork
    <3>2. "retry" \in Labels["loop"]
      BY <1>1 DEF LoopLabels, ConnectLabels
    <3>3. TaskTypes' /\ BackOK'
      BY <1>2, <3>1, <3>2, GotoTypes
    <3>4. AppTypes' /\ DceTypes'
      BY <3>1 DEF Types, AppTypes, DceTypes, Attempts
    <3>5. UartTypes' /\ PppTypes'
      BY <3>1 DEF Types, UartTypes, PppTypes
    <3>6. IpTypes' /\ ModemTypes'
      BY <3>1 DEF Types, IpTypes, ModemTypes
    <3>. QED  BY <1>2, <3>1, <3>3, <3>4, <3>5, <3>6, SameOther
  <2>. QED  BY <2>1, <2>2
<1>5. CASE Retry
  <2>1. PICK label \in Labels["loop"] : Goto("loop", label)
    BY <1>1, <1>5 DEF Retry, LoopLabels, ConnectLabels, DisconnectLabels
  <2>2. TaskTypes' /\ BackOK'
    BY <1>2, <1>5, <2>1, GotoTypes DEF Retry
  <2>3. DceTypes' /\ UartTypes' /\ PppTypes' /\ IpTypes' /\ ModemTypes'
    BY <1>5, SameTypes DEF Retry
  <2>4. AppTypes'
    BY <1>5 DEF Retry, Types, AppTypes
  <2>. QED  BY <1>2, <1>5, <2>2, <2>3, <2>4, SameOther DEF Retry
<1>6. CASE CheckSync
  <2>1. PICK cmd \in Commands, whenOk \in Labels["loop"], otherwise \in Labels["loop"] :
           Ask("sync", cmd, whenOk, otherwise)
    BY <1>1, <1>6 DEF CheckSync, LoopLabels, ConnectLabels, Commands
  <2>2. DceTypes'
    BY <1>6, SameTypes DEF CheckSync
  <2>. QED  BY <1>2, <1>6, <2>1, <2>2, AskTypes, SameOther DEF CheckSync
<1>7. CASE CheckSyncAgain
  <2>1. PICK cmd \in Commands, whenOk \in Labels["loop"], otherwise \in Labels["loop"] :
           Ask("sync2", cmd, whenOk, otherwise)
    BY <1>1, <1>7 DEF CheckSyncAgain, LoopLabels, ConnectLabels, Commands
  <2>2. DceTypes'
    BY <1>7, SameTypes DEF CheckSyncAgain
  <2>. QED  BY <1>2, <1>7, <2>1, <2>2, AskTypes, SameOther DEF CheckSyncAgain
<1>8. CASE Reset
  <2>1. PICK cmd \in Commands, whenOk \in Labels["loop"], otherwise \in Labels["loop"] :
           Ask("reset", cmd, whenOk, otherwise)
    BY <1>1, <1>8 DEF Reset, LoopLabels, ConnectLabels, Commands
  <2>2. DceTypes'
    BY <1>8, SameTypes DEF Reset
  <2>. QED  BY <1>2, <1>8, <2>1, <2>2, AskTypes, SameOther DEF Reset
<1>9. CASE CheckSignal
  <2>1. PICK cmd \in Commands, whenOk \in Labels["loop"], otherwise \in Labels["loop"] :
           Ask("signal", cmd, whenOk, otherwise)
    BY <1>1, <1>9 DEF CheckSignal, LoopLabels, ConnectLabels, Commands
  <2>2. DceTypes'
    BY <1>9, SameTypes DEF CheckSignal
  <2>. QED  BY <1>2, <1>9, <2>1, <2>2, AskTypes, SameOther DEF CheckSignal
<1>10. CASE StartNetwork
  <2>1. PICK label \in Labels["loop"] : Goto("loop", label)
    BY <1>1, <1>10 DEF StartNetwork, LoopLabels, ConnectLabels, DisconnectLabels
  <2>2. TaskTypes' /\ BackOK'
    BY <1>2, <1>10, <2>1, GotoTypes DEF StartNetwork
  <2>3. AppTypes' /\ UartTypes' /\ PppTypes' /\ IpTypes' /\ ModemTypes'
    BY <1>10, SameTypes DEF StartNetwork
  <2>4. DceTypes'
    BY <1>10 DEF StartNetwork, Types, DceTypes, Tasks
  <2>. QED  BY <1>2, <1>10, <2>2, <2>3, <2>4, SameOther DEF StartNetwork
<1>11. CASE SetPdpContext
  <2>1. PICK cmd \in Commands, whenOk \in Labels["loop"], otherwise \in Labels["loop"] :
           Ask("pdp", cmd, whenOk, otherwise)
    BY <1>1, <1>11 DEF SetPdpContext, LoopLabels, ConnectLabels, Commands
  <2>2. DceTypes'
    BY <1>11 DEF SetPdpContext, GiveBack, Types, DceTypes, dceVars
  <2>. QED  BY <1>2, <1>11, <2>1, <2>2, AskTypes, SameOther DEF SetPdpContext
<1>12. CASE Dial
  <2>1. PICK cmd \in Commands, whenOk \in Labels["loop"], otherwise \in Labels["loop"] :
           Ask("dial", cmd, whenOk, otherwise)
    BY <1>1, <1>12 DEF Dial, LoopLabels, ConnectLabels, Commands
  <2>2. DceTypes'
    BY <1>12, SameTypes DEF Dial
  <2>. QED  BY <1>2, <1>12, <2>1, <2>2, AskTypes, SameOther DEF Dial
<1>13. CASE Resume
  <2>1. PICK cmd \in Commands, whenOk \in Labels["loop"], otherwise \in Labels["loop"] :
           Ask("resume", cmd, whenOk, otherwise)
    BY <1>1, <1>13 DEF Resume, LoopLabels, ConnectLabels, Commands
  <2>2. DceTypes'
    BY <1>13 DEF Resume, GiveBack, Types, DceTypes, dceVars
  <2>. QED  BY <1>2, <1>13, <2>1, <2>2, AskTypes, SameOther DEF Resume
<1>14. CASE EnterData
  <2>1. PICK label \in Labels["loop"] : Goto("loop", label)
    BY <1>1, <1>14 DEF EnterData, LoopLabels, ConnectLabels, DisconnectLabels
  <2>2. TaskTypes' /\ BackOK'
    BY <1>2, <1>14, <2>1, GotoTypes DEF EnterData
  <2>3. AppTypes' /\ IpTypes' /\ ModemTypes'
    BY <1>14, SameTypes DEF EnterData
  <2>4. DceTypes'
    BY <1>14 DEF EnterData, Types, DceTypes
  <2>5. UartTypes'
    BY <1>14 DEF EnterData, Types, UartTypes
  <2>6. PppTypes'
    BY <1>14 DEF EnterData, Types, PppTypes
  <2>. QED  BY <1>2, <1>14, <2>2, <2>3, <2>4, <2>5, <2>6, SameOther DEF EnterData
<1>. QED
  BY <1>3, <1>4, <1>5, <1>6, <1>7, <1>8, <1>9, <1>10, <1>11, <1>12, <1>13, <1>14 DEF Connect

LEMMA StopTypes ==
    ASSUME Types, BackOK, NEW t \in Tasks, Stop(t)
    PROVE  StepTypes
<1>. USE DEF StepTypes
<1>1. TaskTypes /\ OtherTypes
  BY DEF Types
<1>2. back[t] \in Labels[t] /\ "exit" \in Labels[t] /\ "escape" \in Labels[t]
  <2>1. CASE t = "loop"
    BY <1>1, <2>1 DEF TaskTypes, Labels, ConnectLabels, DisconnectLabels
  <2>2. CASE t = "event"
    BY <1>1, <2>2 DEF TaskTypes, BackOK, Labels, DisconnectLabels
  <2>. QED  BY <2>1, <2>2 DEF Tasks
<1>3. "NO CARRIER" \in Words
  BY DEF Words
<1>4. CASE StopNetwork(t)
  <2>1. PICK label \in Labels[t] : Goto(t, label)
    BY <1>2, <1>4 DEF StopNetwork, DisconnectLabels
  <2>2. TaskTypes' /\ BackOK'
    BY <1>1, <1>4, <2>1, GotoTypes DEF StopNetwork
  <2>3. AppTypes' /\ IpTypes'
    BY <1>4, SameTypes DEF StopNetwork
  <2>4. DceTypes'
    BY <1>1, <1>4, <1>3 DEF StopNetwork, Types, DceTypes
  <2>5. UartTypes'
    BY <1>1, <1>4, <1>3 DEF StopNetwork, Types, UartTypes
  <2>6. PppTypes'
    BY <1>1, <1>4, <1>3 DEF StopNetwork, Types, PppTypes
  <2>7. ModemTypes'
    BY <1>1, <1>4, <1>3 DEF StopNetwork, Types, ModemTypes
  <2>. QED  BY <1>1, <1>4, <2>2, <2>3, <2>4, <2>5, <2>6, <2>7, SameOther DEF StopNetwork
<1>5. CASE ExitData(t)
  <2>1. PICK label \in Labels[t] : Goto(t, label)
    BY <1>2, <1>5 DEF ExitData, DisconnectLabels
  <2>2. TaskTypes' /\ BackOK'
    BY <1>1, <1>5, <2>1, GotoTypes DEF ExitData
  <2>3. AppTypes' /\ PppTypes' /\ IpTypes' /\ ModemTypes'
    BY <1>5, SameTypes DEF ExitData
  <2>4. DceTypes'
    BY <1>1, <1>5 DEF ExitData, Types, DceTypes
  <2>5. UartTypes'
    BY <1>1, <1>5 DEF ExitData, Types, UartTypes
  <2>. QED  BY <1>1, <1>5, <2>2, <2>3, <2>4, <2>5, SameOther DEF ExitData
<1>6. CASE Escape(t)
  <2>1. PICK result \in Results : Command(t, "ESCAPE", result) /\ dceMode' = ModeAfter(result)
    BY <1>6 DEF Escape
  <2>2. rx' \in SUBSET Words /\ modem' \in {"off", "command", "data"} /\ late' \in BOOLEAN
    BY <2>1, CommandType DEF Commands
  <2>3. TaskTypes' /\ BackOK'
    BY <1>1, <1>2, <1>6, GotoTypes DEF Escape
  <2>4. AppTypes' /\ PppTypes' /\ IpTypes'
    BY <1>6, SameTypes DEF Escape
  <2>5. DceTypes'
    BY <1>6, <2>1 DEF Escape, ModeAfter, Types, DceTypes
  <2>6. UartTypes' /\ ModemTypes'
    BY <1>6, <2>2 DEF Escape, Types, UartTypes, ModemTypes
  <2>. QED  BY <1>1, <1>6, <2>2, <2>3, <2>4, <2>5, <2>6, SameOther DEF Escape
<1>. QED  BY <1>4, <1>5, <1>6 DEF Stop

LEMMA DisconnectTypes ==
    ASSUME Types, BackOK, NEW t \in Tasks, Disconnect(t)
    PROVE  StepTypes
<1>. USE DEF StepTypes
<1>1. TaskTypes /\ OtherTypes
  BY DEF Types
<1>2. Home(t) \in Labels[t] /\ \A label \in DisconnectLabels : label \in Labels[t]
  BY LabelsOf
<1>3. CASE TestPower(t)
  <2>1. PICK label \in Labels[t] : Goto(t, label)
    BY <1>2, <1>3 DEF TestPower, DisconnectLabels
  <2>2. TaskTypes' /\ BackOK'
    BY <1>1, <1>3, <2>1, GotoTypes DEF TestPower
  <2>3. AppTypes' /\ DceTypes' /\ UartTypes' /\ PppTypes' /\ IpTypes' /\ ModemTypes'
    BY <1>3, SameTypes DEF TestPower
  <2>. QED  BY <1>1, <1>3, <2>2, <2>3, SameOther DEF TestPower
<1>4. CASE CutPower(t)
  <2>1. PICK label \in Labels[t] : Goto(t, label)
    BY <1>2, <1>4 DEF CutPower, DisconnectLabels
  <2>2. TaskTypes' /\ BackOK'
    BY <1>1, <1>4, <2>1, GotoTypes DEF CutPower
  <2>3. AppTypes' /\ DceTypes' /\ UartTypes' /\ PppTypes' /\ IpTypes'
    BY <1>4, SameTypes DEF CutPower
  <2>4. ModemTypes'
    BY <1>1, <1>4 DEF CutPower, Types, ModemTypes
  <2>. QED  BY <1>1, <1>4, <2>2, <2>3, <2>4, SameOther DEF CutPower
<1>5. CASE Deinit(t)
  <2>1. PICK label \in Labels[t] : Goto(t, label)
    BY <1>2, <1>5 DEF Deinit, DisconnectLabels
  <2>2. TaskTypes' /\ BackOK'
    BY <1>1, <1>5, <2>1, GotoTypes DEF Deinit
  <2>3. AppTypes' /\ UartTypes' /\ PppTypes' /\ IpTypes' /\ ModemTypes'
    BY <1>5, SameTypes DEF Deinit
  <2>4. DceTypes'
    BY <1>1, <1>5 DEF Deinit, Types, DceTypes
  <2>. QED  BY <1>1, <1>5, <2>2, <2>3, <2>4, SameOther DEF Deinit
<1>6. CASE Destroy(t)
  <2>1. PICK label \in Labels[t] : Goto(t, label)
    BY <1>2, <1>6 DEF Destroy, DisconnectLabels
  <2>2. TaskTypes' /\ BackOK'
    BY <1>1, <1>6, <2>1, GotoTypes DEF Destroy
  <2>3. AppTypes' /\ DceTypes' /\ UartTypes' /\ ModemTypes'
    BY <1>6, SameTypes DEF Destroy
  <2>4. PppTypes'
    BY <1>1, <1>6 DEF Destroy, Types, PppTypes
  <2>5. IpTypes'
    BY <1>1, <1>6 DEF Destroy, Types, IpTypes
  <2>. QED  BY <1>1, <1>6, <2>2, <2>3, <2>4, <2>5, SameOther DEF Destroy
<1>. QED  BY <1>3, <1>4, <1>5, <1>6 DEF Disconnect

LEMMA StateTypes ==
    ASSUME Types, BackOK,
           TryToConnect \/ TimeOut \/ GiveUp \/ HandleIPEvent \/ SetOnLine \/ SetOffLine
    PROVE  StepTypes
<1>. USE DEF StepTypes
<1>1. TaskTypes /\ OtherTypes /\ "loop" \in Tasks /\ "event" \in Tasks
  BY DEF Types, Tasks
<1>2. \A label \in {"run", "giveUp", "wakeup", "disconnect"} : label \in Labels["loop"]
  BY LabelsOf DEF ConnectLabels, DisconnectLabels
<1>3. \A label \in {"idle", "setOnLine", "setOffLine", "disconnect"} : label \in Labels["event"]
  BY LabelsOf DEF DisconnectLabels
<1>4. CASE TryToConnect
  <2>1. PICK label \in Labels["loop"] : Goto("loop", label)
    BY <1>2, <1>4 DEF TryToConnect, DisconnectLabels
  <2>2. TaskTypes' /\ BackOK'
    BY <1>1, <1>4, <2>1, GotoTypes DEF TryToConnect
  <2>3. DceTypes' /\ UartTypes' /\ PppTypes' /\ IpTypes' /\ ModemTypes'
    BY <1>4, SameTypes DEF TryToConnect
  <2>4. AppTypes'
    BY <1>1, <1>4 DEF TryToConnect, Types, AppTypes
  <2>. QED  BY <1>1, <1>4, <2>2, <2>3, <2>4, SameOther DEF TryToConnect
<1>5. CASE TimeOut
  <2>1. PICK label \in Labels["loop"] : Goto("loop", label)
    BY <1>2, <1>5 DEF TimeOut, DisconnectLabels
  <2>2. TaskTypes' /\ BackOK'
    BY <1>1, <1>5, <2>1, GotoTypes DEF TimeOut
  <2>3. AppTypes' /\ DceTypes' /\ UartTypes' /\ PppTypes' /\ IpTypes' /\ ModemTypes'
    BY <1>5, SameTypes DEF TimeOut
  <2>. QED  BY <1>1, <1>5, <2>2, <2>3, SameOther DEF TimeOut
<1>6. CASE GiveUp
  <2>1. PICK label \in Labels["loop"] : Goto("loop", label)
    BY <1>2, <1>6 DEF GiveUp, DisconnectLabels
  <2>2. TaskTypes' /\ BackOK'
    BY <1>1, <1>6, <2>1, GotoTypes DEF GiveUp
  <2>3. DceTypes' /\ UartTypes' /\ PppTypes' /\ IpTypes' /\ ModemTypes'
    BY <1>6, SameTypes DEF GiveUp
  <2>4. AppTypes'
    BY <1>1, <1>6 DEF GiveUp, Types, AppTypes
  <2>. QED  BY <1>1, <1>6, <2>2, <2>3, <2>4, SameOther DEF GiveUp
<1>7. CASE HandleIPEvent
  <2>1. PICK label \in Labels["event"] : Goto("event", label)
    BY <1>3, <1>7 DEF HandleIPEvent
  <2>2. TaskTypes' /\ BackOK'
    BY <1>1, <1>7, <2>1, GotoTypes DEF HandleIPEvent
  <2>3. AppTypes' /\ DceTypes' /\ UartTypes' /\ PppTypes' /\ ModemTypes'
    BY <1>7, SameTypes DEF HandleIPEvent
  <2>4. IpTypes'
    <3>1. events \in Seq({"GotIp", "LostIp"}) /\ events # <<>> /\ Len(events) <= MaxEvents
      BY <1>7 DEF HandleIPEvent, Types, IpTypes
    <3>2. Tail(events) \in Seq({"GotIp", "LostIp"}) /\ Len(Tail(events)) = Len(events) - 1
          /\ Len(events) \in Nat
      BY <3>1, HeadTailProperties, LenProperties
    <3>3. Len(Tail(events)) <= MaxEvents
      BY <3>1, <3>2, MaxEventsAssumption
    <3>. QED  BY <1>7, <3>2, <3>3 DEF HandleIPEvent, Types, IpTypes
  <2>. QED  BY <1>1, <1>7, <2>2, <2>3, <2>4, SameOther DEF HandleIPEvent
<1>8. CASE SetOnLine
  <2>1. PICK label \in Labels["event"] : Goto("event", label)
    BY <1>3, <1>8 DEF SetOnLine, DisconnectLabels
  <2>2. TaskTypes' /\ BackOK'
    BY <1>1, <1>8, <2>1, GotoTypes DEF SetOnLine
  <2>3. DceTypes' /\ UartTypes' /\ PppTypes' /\ IpTypes' /\ ModemTypes'
    BY <1>8, SameTypes DEF SetOnLine
  <2>4. AppTypes'
    BY <1>1, <1>8 DEF SetOnLine, Types, AppTypes
  <2>. QED  BY <1>1, <1>8, <2>2, <2>3, <2>4, SameOther DEF SetOnLine
<1>9. CASE SetOffLine
  <2>1. PICK label \in Labels["event"] : Goto("event", label)
    BY <1>3, <1>9 DEF SetOffLine, DisconnectLabels
  <2>2. TaskTypes' /\ BackOK'
    BY <1>1, <1>9, <2>1, GotoTypes DEF SetOffLine
  <2>3. DceTypes' /\ UartTypes' /\ PppTypes' /\ IpTypes' /\ ModemTypes'
    BY <1>9, SameTypes DEF SetOffLine
  <2>4. AppTypes'
    BY <1>1, <1>9 DEF SetOffLine, Types, AppTypes
  <2>. QED  BY <1>1, <1>9, <2>2, <2>3, <2>4, SameOther DEF SetOffLine
<1>. QED  BY <1>4, <1>5, <1>6, <1>7, <1>8, <1>9

LEMMA PostTypes ==
    ASSUME IpTypes, NEW event \in {"GotIp", "LostIp"}, Post(event), UNCHANGED handler
    PROVE  IpTypes'
<1>1. events \in Seq({"GotIp", "LostIp"}) /\ Len(events) \in Nat /\ Len(events) <= MaxEvents
  BY LenProperties DEF IpTypes
<1>2. CASE Len(events) < MaxEvents
  <2>1. Append(events, event) \in Seq({"GotIp", "LostIp"})
        /\ Len(Append(events, event)) = Len(events) + 1
    BY <1>1, AppendProperties
  <2>2. Len(events) + 1 <= MaxEvents
    BY <1>1, <1>2, MaxEventsAssumption
  <2>. QED  BY <1>2, <2>1, <2>2 DEF Post, IpTypes
<1>3. CASE ~(Len(events) < MaxEvents)
  BY <1>3 DEF Post, IpTypes
<1>. QED  BY <1>2, <1>3

LEMMA EnvTypes ==
    ASSUME Types, BackOK,
           \/ LinkUp \/ LinkLost \/ CarrierLost \/ ConditionsChange
           \/ \E t \in Tasks : UseFreedDce(t)
    PROVE  StepTypes
<1>. USE DEF StepTypes
<1>1. TaskTypes /\ OtherTypes /\ IpTypes
  BY DEF Types
<1>2. CASE LinkUp
  <2>1. TaskTypes' /\ BackOK'
    BY <1>1, <1>2 DEF LinkUp, taskVars, TaskTypes, BackOK
  <2>2. AppTypes' /\ DceTypes' /\ UartTypes' /\ ModemTypes'
    BY <1>2, SameTypes DEF LinkUp
  <2>3. PppTypes'
    BY <1>2 DEF LinkUp, Types, PppTypes
  <2>4. IpTypes'
    BY <1>1, <1>2, PostTypes DEF LinkUp
  <2>. QED  BY <1>1, <1>2, <2>1, <2>2, <2>3, <2>4, SameOther DEF LinkUp
<1>3. CASE LinkLost
  <2>1. TaskTypes' /\ BackOK'
    BY <1>1, <1>3 DEF LinkLost, taskVars, TaskTypes, BackOK
  <2>2. AppTypes' /\ DceTypes' /\ UartTypes' /\ ModemTypes'
    BY <1>3, SameTypes DEF LinkLost
  <2>3. PppTypes'
    BY <1>3 DEF LinkLost, Types, PppTypes
  <2>4. IpTypes'
    BY <1>1, <1>3, PostTypes DEF LinkLost
  <2>. QED  BY <1>1, <1>3, <2>1, <2>2, <2>3, <2>4, SameOther DEF LinkLost
<1>4. "NO CARRIER" \in Words
  BY DEF Words
<1>5. CASE CarrierLost
  <2>2. TaskTypes' /\ BackOK'
    BY <1>1, <1>5 DEF CarrierLost, taskVars, TaskTypes, BackOK
  <2>3. AppTypes' /\ DceTypes' /\ PppTypes' /\ IpTypes'
    BY <1>5, SameTypes DEF CarrierLost
  <2>4. UartTypes'
    BY <1>1, <1>5, <1>4 DEF CarrierLost, Types, UartTypes
  <2>5. ModemTypes'
    BY <1>1, <1>5, <1>4 DEF CarrierLost, Types, ModemTypes
  <2>. QED  BY <1>1, <1>5, <2>2, <2>3, <2>4, <2>5, SameOther DEF CarrierLost
<1>6. CASE ConditionsChange
  <2>2. TaskTypes' /\ BackOK'
    BY <1>1, <1>6 DEF ConditionsChange, taskVars, TaskTypes, BackOK
  <2>3. AppTypes' /\ DceTypes' /\ UartTypes' /\ PppTypes' /\ IpTypes' /\ ModemTypes'
    BY <1>6, SameTypes DEF ConditionsChange
  <2>. QED  BY <1>1, <1>6, <2>2, <2>3, SameOther DEF OtherTypes,  ConditionsChange
<1>7. CASE \E t \in Tasks : UseFreedDce(t)
  <2>1. TaskTypes' /\ BackOK'
    BY <1>1, <1>7 DEF UseFreedDce, taskVars, TaskTypes, BackOK
  <2>. QED  BY <1>1, <1>7, <2>1, SameTypes, SameOther DEF UseFreedDce
<1>. QED  BY <1>2, <1>3, <1>5, <1>6, <1>7

LEMMA RestartTypes ==
    ASSUME Types, Restart
    PROVE  Types' /\ BackOK'
<1>1. TaskTypes' /\ BackOK'
  BY DEF Restart, TaskTypes, BackOK, Labels, Tasks, Home
<1>2. AppTypes'
  BY DEF Restart, AppTypes
<1>3. DceTypes'
  BY DEF Restart, DceTypes
<1>4. UartTypes' /\ PppTypes'
  BY DEF Restart, UartTypes, PppTypes
<1>5. IpTypes'
  <2>1. Len(<<>>) = 0 /\ <<>> \in Seq({"GotIp", "LostIp"})
    BY EmptySeq
  <2>2. 0 <= MaxEvents
    BY MaxEventsAssumption
  <2>. QED  BY <2>1, <2>2 DEF Restart, IpTypes
<1>6. ModemTypes' /\ OtherTypes'
  BY DEF Restart, Types, ModemTypes, OtherTypes
<1>. QED  BY <1>1, <1>2, <1>3, <1>4, <1>5, <1>6 DEF Types

LEMMA TypesStep ==
    ASSUME Types, BackOK, [Next]_vars
    PROVE  Types' /\ BackOK'
<1>. DEFINE Step == LoopStep \/ EventStep \/ LinkUp \/ LinkLost \/ CarrierLost \/ ConditionsChange
<1>1. CASE Running(Step)
  <2>1. StepTypes
    BY <1>1, ConnectTypes, StateTypes, StopTypes, DisconnectTypes, EnvTypes
       DEF Running, LoopStep, EventStep, Tasks
  <2>2. raced' \in BOOLEAN
    BY <1>1 DEF Running
  <2>. QED  BY <2>1, <2>2 DEF StepTypes, Types, OtherTypes
<1>2. CASE Restart
  BY <1>2, RestartTypes
<1>3. CASE UNCHANGED vars
  <2>1. TaskTypes' /\ BackOK'
    BY <1>3 DEF vars, taskVars, Types, TaskTypes, BackOK
  <2>. QED  BY <1>3, <2>1, SameTypes DEF vars, Types, OtherTypes
<1>. QED  BY <1>1, <1>2, <1>3 DEF Next, Running

\* Every variable keeps its type, and so does the queue of IP events its bound.
THEOREM TypeCorrect == Spec => []TypeOK
<1>1. Init => Types /\ BackOK
  BY TypesInit
<1>2. Types /\ BackOK /\ [Next]_vars => Types' /\ BackOK'
  BY TypesStep
<1>3. Types => TypeOK
  BY TypesGiveTypeOK
<1>. QED  BY <1>1, <1>2, <1>3, PTL DEF Spec

(***************************************************************************)
(* The lock, the read callback and the PPP session follow the mode         *)
(***************************************************************************)
\* The lock of the DTE is held exactly inside enter_data and exit_data, ...
LockInv == \A t \in Tasks : pc[t] \in Locked <=> lock = t

\* ... where PPP does not run, ...
SetInv ==
    \A t \in Tasks :
        /\ pc[t] \in {"pdp", "dial", "resume", "enter"} =>
              readCb = "command" /\ ppp = "idle" /\ dceMode # "DATA"
        /\ pc[t] = "exit" => readCb = "exit" /\ ppp = "idle"
        /\ pc[t] = "escape" => readCb = "command" /\ ppp = "idle"

\* ... and outside of which the property holds, also when the DCE has been freed.
FreeInv ==
    lock = Free => /\ readCb = IF dceMode = "DATA" THEN "ppp" ELSE "command"
                   /\ (ppp # "idle") <=> (dceMode = "DATA")

\* Before InitNetwork there is nothing.
OffInv ==
    ~uart => /\ ~dce /\ lock = Free /\ ppp = "idle"
             /\ readCb = "command" /\ dceMode = "UNDEF"

ModeInv == LockInv /\ SetInv /\ FreeInv /\ OffInv

LEMMA ModeInit == Init => ModeInv
BY DEF Init, ModeInv, LockInv, SetInv, FreeInv, OffInv, Tasks, Home, Locked, Free

LEMMA Mover ==
    ASSUME TaskTypes, NEW t \in Tasks, NEW label, Goto(t, label)
    PROVE  /\ pc'[t] = label
           /\ \A u \in Tasks : u # t => pc'[u] = pc[u]
BY DEF TaskTypes, Goto

\* Steps outside of DCE_Mode::set that leave its state alone.
LEMMA SameMode ==
    ASSUME TaskTypes, ModeInv, NEW t \in Tasks, NEW label, Goto(t, label),
           pc[t] \notin Locked, label \notin Locked,
           UNCHANGED <<dceMode, lock, uart, readCb, ppp>>, dce' => dce
    PROVE  ModeInv'
<1>1. pc'[t] = label /\ \A u \in Tasks : u # t => pc'[u] = pc[u]
  BY Mover
<1>2. LockInv'
  BY <1>1 DEF ModeInv, LockInv
<1>3. SetInv'
  BY <1>1 DEF ModeInv, SetInv, Locked
<1>4. FreeInv' /\ OffInv'
  BY DEF ModeInv, FreeInv, OffInv
<1>. QED  BY <1>2, <1>3, <1>4 DEF ModeInv

LEMMA ConnectMode ==
    ASSUME Types, ModeInv, Connect
    PROVE  ModeInv'
<1>1. TaskTypes /\ DceTypes /\ "loop" \in Tasks /\ "event" \in Tasks
  BY DEF Types, Tasks
<1>2. \A u \in Tasks : u = "loop" \/ u = "event"
  BY DEF Tasks
<1>3. CASE Wakeup \/ Retry
  <2>1. PICK label : Goto("loop", label) /\ label \notin Locked
    BY <1>3 DEF Wakeup, Retry, Locked
  <2>. QED  BY <1>1, <1>3, <2>1, SameMode DEF Wakeup, Retry, dceVars, uartVars, pppVars, Locked
<1>4. CASE InitNetwork
  <2>1. CASE \E cause \in {"again", "sim"} : AbortInit(cause)
    BY <2>1 DEF AbortInit, taskVars, dceVars, uartVars, pppVars, ModeInv, LockInv, SetInv,
       FreeInv, OffInv
  <2>2. CASE ~\E cause \in {"again", "sim"} : AbortInit(cause)
    <3>1. /\ ~uart /\ uart' /\ dceMode' = "UNDEF" /\ readCb' = "command"
          /\ Goto("loop", "retry") /\ UNCHANGED <<lock, ppp>>
      BY <1>4, <2>2 DEF InitNetwork
    <3>2. lock = Free /\ ppp = "idle" /\ \A u \in Tasks : pc[u] \notin Locked
      BY <3>1 DEF ModeInv, OffInv, LockInv, Tasks, Free
    <3>3. \A u \in Tasks : pc'[u] \notin Locked
      BY <1>1, <3>1, <3>2, Mover DEF Locked
    <3>4. LockInv'
      BY <3>1, <3>2, <3>3 DEF LockInv, Tasks, Free
    <3>5. SetInv'
      BY <3>3 DEF SetInv, Locked
    <3>6. FreeInv' /\ OffInv'
      BY <3>1, <3>2 DEF FreeInv, OffInv
    <3>. QED  BY <3>4, <3>5, <3>6 DEF ModeInv
  <2>. QED  BY <2>1, <2>2
<1>5. CASE CheckSync \/ CheckSyncAgain \/ Reset \/ CheckSignal
  <2>1. PICK label : Goto("loop", label) /\ label \notin Locked
    BY <1>5 DEF CheckSync, CheckSyncAgain, Reset, CheckSignal, Ask, Locked
  <2>2. pc["loop"] \notin Locked /\ UNCHANGED <<dceMode, lock, uart, readCb, ppp, dce>>
    BY <1>5 DEF CheckSync, CheckSyncAgain, Reset, CheckSignal, Ask, Locked, dceVars, pppVars
  <2>. QED  BY <1>1, <2>1, <2>2, SameMode
<1>6. CASE StartNetwork
  <2>1. CASE dceMode = "DATA"
    <3>1. Goto("loop", "retry") /\ pc["loop"] \notin Locked
          /\ UNCHANGED <<dceMode, lock, uart, readCb, ppp, dce>>
      BY <1>6, <2>1 DEF StartNetwork, uartVars, pppVars, Locked
    <3>. QED  BY <1>1, <3>1, SameMode DEF Locked
  <2>2. CASE dceMode # "DATA"
    <3>1. pc'["loop"] = "pdp" /\ pc'["event"] = pc["event"]
      BY <1>1, <1>6, <2>2, Mover DEF StartNetwork
    <3>2. lock = Free /\ lock' = "loop" /\ UNCHANGED <<dceMode, uart, readCb, ppp, dce>>
      BY <1>6, <2>2 DEF StartNetwork, uartVars, pppVars
    <3>3. pc["event"] \notin Locked /\ ppp = "idle" /\ readCb = "command" /\ uart
      BY <1>6, <2>2, <3>2 DEF StartNetwork, ModeInv, LockInv, FreeInv, OffInv, Tasks, Free
    <3>4. LockInv'
      BY <3>1, <3>2, <3>3 DEF LockInv, Tasks, Locked
    <3>5. SetInv'
      BY <2>2, <3>1, <3>2, <3>3 DEF SetInv, Tasks, Locked
    <3>6. FreeInv' /\ OffInv'
      BY <3>2, <3>3 DEF FreeInv, OffInv, Free
    <3>. QED  BY <3>4, <3>5, <3>6 DEF ModeInv
  <2>. QED  BY <2>1, <2>2
<1>7. CASE SetPdpContext \/ Dial \/ Resume
  <2>1. /\ pc["loop"] \in {"pdp", "dial", "resume"}
        /\ UNCHANGED <<dce, dceMode, uart, readCb, ppp>> /\ dce
    BY <1>7 DEF SetPdpContext, Dial, Resume, Ask, pppVars, dceVars
  <2>2. PICK label \in {"dial", "enter", "resume", "retry"} : Goto("loop", label)
    BY <1>7 DEF SetPdpContext, Dial, Resume, Ask
  <2>3. pc'["loop"] = label /\ pc'["event"] = pc["event"]
    BY <1>1, <2>2, Mover
  <2>4. lock = "loop" /\ pc["event"] \notin Locked
    BY <2>1 DEF ModeInv, LockInv, Tasks, Locked
  <2>5. lock' = IF label = "retry" THEN Free ELSE "loop"
    <3>1. CASE SetPdpContext \/ Resume
      BY <3>1, <2>3, <2>4 DEF SetPdpContext, Resume, GiveBack
    <3>2. CASE Dial
      <4>1. lock' = lock /\ \E l \in {"enter", "resume"} : Goto("loop", l)
        BY <3>2 DEF Dial, Ask, dceVars
      <4>2. label # "retry"
        BY <1>1, <2>3, <4>1, Mover
      <4>. QED  BY <2>4, <4>1, <4>2
    <3>. QED  BY <1>7, <3>1, <3>2
  <2>6. readCb = "command" /\ ppp = "idle" /\ dceMode # "DATA" /\ uart
    BY <2>1 DEF ModeInv, SetInv, OffInv, Tasks
  <2>7. LockInv'
    BY <2>3, <2>4, <2>5 DEF LockInv, Tasks, Locked, Free
  <2>8. SetInv'
    BY <2>1, <2>3, <2>4, <2>6 DEF SetInv, Tasks, Locked
  <2>9. FreeInv' /\ OffInv'
    BY <2>1, <2>6 DEF FreeInv, OffInv
  <2>. QED  BY <2>7, <2>8, <2>9 DEF ModeInv
<1>8. CASE EnterData
  <2>1. pc'["loop"] = "retry" /\ pc'["event"] = pc["event"]
    BY <1>1, <1>8, Mover DEF EnterData
  <2>2. lock = "loop" /\ pc["event"] \notin Locked /\ ppp = "idle"
    BY <1>8 DEF EnterData, ModeInv, LockInv, SetInv, Tasks, Locked
  <2>3. lock' = Free /\ readCb' = "ppp" /\ ppp' = "starting" /\ dceMode' = "DATA" /\ uart' = uart /\ dce
    BY <1>8, <2>2 DEF EnterData
  <2>4. LockInv'
    BY <2>1, <2>2, <2>3 DEF LockInv, Tasks, Locked, Free
  <2>5. SetInv'
    BY <2>1, <2>2 DEF SetInv, Tasks, Locked
  <2>6. FreeInv' /\ OffInv'
    BY <2>3 DEF FreeInv, OffInv, ModeInv
  <2>. QED  BY <2>4, <2>5, <2>6 DEF ModeInv
<1>. QED  BY <1>3, <1>4, <1>5, <1>6, <1>7, <1>8 DEF Connect

LEMMA StopMode ==
    ASSUME Types, BackOK, ModeInv, NEW t \in Tasks, Stop(t)
    PROVE  ModeInv'
<1>1. TaskTypes /\ DceTypes
  BY DEF Types
<1>2. back[t] \notin Locked
  BY <1>1 DEF TaskTypes, Locked
<1>3. uart
  BY DEF Stop, StopNetwork, ExitData, Escape, ModeInv, OffInv
<1>4. CASE StopNetwork(t)
  <2>1. CASE dceMode = "COMMAND"
    <3>1. Goto(t, back[t]) /\ pc[t] \notin Locked
          /\ UNCHANGED <<dceMode, lock, uart, readCb, ppp, dce>>
      BY <1>4, <2>1 DEF StopNetwork, Locked
    <3>. QED  BY <1>1, <1>2, <3>1, SameMode
  <2>2. CASE dceMode # "COMMAND"
    <3>1. pc'[t] = "exit" /\ \A u \in Tasks : u # t => pc'[u] = pc[u]
      BY <1>1, <1>4, <2>2, Mover DEF StopNetwork
    <3>2. lock = Free /\ lock' = t /\ readCb' = "exit" /\ ppp' = "idle" /\ uart' = uart
      BY <1>4, <2>2 DEF StopNetwork
    <3>3. \A u \in Tasks : pc[u] \notin Locked
      BY <3>2 DEF ModeInv, LockInv, Tasks, Free
    <3>4. LockInv'
      BY <3>1, <3>2, <3>3 DEF LockInv, Locked
    <3>5. SetInv'
      BY <3>1, <3>2, <3>3 DEF SetInv, Locked
    <3>6. FreeInv' /\ OffInv'
      BY <1>3, <3>2 DEF FreeInv, OffInv, Tasks, Free
    <3>. QED  BY <3>4, <3>5, <3>6 DEF ModeInv
  <2>. QED  BY <2>1, <2>2
<1>5. CASE ExitData(t) \/ Escape(t)
  <2>1. lock = t /\ ppp = "idle" /\ \A u \in Tasks : u # t => pc[u] \notin Locked
    BY <1>5 DEF ExitData, Escape, ModeInv, LockInv, SetInv, Locked
  <2>2. readCb' = "command" /\ ppp' = ppp /\ uart' = uart
    BY <1>5 DEF ExitData, Escape, ModeInv, SetInv, pppVars
  <2>3. PICK label \in {back[t], "escape"} :
           /\ Goto(t, label)
           /\ label = back[t] => lock' = Free /\ dceMode' \in {"COMMAND", "UNDEF"}
           /\ label # back[t] => lock' = lock
    <3>1. CASE ExitData(t)
      <4>1. CASE rx \cap {"OK", "NO CARRIER"} # {}
        BY <3>1, <4>1 DEF ExitData
      <4>2. CASE ~(rx \cap {"OK", "NO CARRIER"} # {})
        <5>1. back[t] # "escape"
          BY <1>1 DEF TaskTypes
        <5>. QED  BY <3>1, <4>2, <5>1 DEF ExitData
      <4>. QED  BY <4>1, <4>2
    <3>2. CASE Escape(t)
      BY <3>2 DEF Escape, ModeAfter
    <3>. QED  BY <1>5, <3>1, <3>2
  <2>4. pc'[t] = label /\ \A u \in Tasks : u # t => pc'[u] = pc[u]
    BY <1>1, <2>3, Mover
  <2>5. LockInv'
    BY <1>2, <2>1, <2>3, <2>4 DEF LockInv, Locked, Tasks, Free
  <2>6. SetInv'
    BY <1>2, <2>1, <2>2, <2>3, <2>4 DEF SetInv, Locked
  <2>7. FreeInv'
    BY <2>1, <2>2, <2>3 DEF FreeInv, Tasks, Free
  <2>8. OffInv'
    BY <1>3, <2>2 DEF OffInv
  <2>. QED  BY <2>5, <2>6, <2>7, <2>8 DEF ModeInv
<1>. QED  BY <1>4, <1>5 DEF Stop

LEMMA OtherMode ==
    ASSUME Types, ModeInv,
           \/ TryToConnect \/ TimeOut \/ GiveUp \/ HandleIPEvent \/ SetOnLine \/ SetOffLine
           \/ \E t \in Tasks : Disconnect(t)
    PROVE  ModeInv'
<1>1. TaskTypes /\ "loop" \in Tasks /\ "event" \in Tasks
  BY DEF Types, Tasks
<1>2. CASE TryToConnect \/ TimeOut \/ GiveUp
  <2>1. PICK label : Goto("loop", label) /\ label \notin Locked
    BY <1>2 DEF TryToConnect, TimeOut, GiveUp, Locked
  <2>2. pc["loop"] \notin Locked /\ UNCHANGED <<dceMode, lock, uart, readCb, ppp, dce>>
    BY <1>2 DEF TryToConnect, TimeOut, GiveUp, Locked, dceVars, uartVars, pppVars
  <2>. QED  BY <1>1, <2>1, <2>2, SameMode
<1>3. CASE HandleIPEvent \/ SetOnLine \/ SetOffLine
  <2>1. PICK label : Goto("event", label) /\ label \notin Locked
    BY <1>3 DEF HandleIPEvent, SetOnLine, SetOffLine, Locked
  <2>2. pc["event"] \notin Locked /\ UNCHANGED <<dceMode, lock, uart, readCb, ppp, dce>>
    BY <1>3 DEF HandleIPEvent, SetOnLine, SetOffLine, Locked, dceVars, uartVars, pppVars
  <2>. QED  BY <1>1, <2>1, <2>2, SameMode
<1>4. CASE \E t \in Tasks : Disconnect(t)
  <2>1. PICK t \in Tasks : Disconnect(t)
    BY <1>4
  <2>2. PICK label : Goto(t, label) /\ label \notin Locked
    BY <2>1 DEF Disconnect, TestPower, CutPower, Deinit, Destroy, Locked, Home
  <2>3. pc[t] \notin Locked /\ UNCHANGED <<dceMode, lock, uart, readCb, ppp>> /\ (dce' => dce)
    BY <2>1 DEF Disconnect, TestPower, CutPower, Deinit, Destroy, Locked, dceVars, uartVars, pppVars
  <2>. QED  BY <1>1, <2>1, <2>2, <2>3, SameMode
<1>. QED  BY <1>2, <1>3, <1>4

LEMMA EnvMode ==
    ASSUME Types, ModeInv,
           \/ LinkUp \/ LinkLost \/ CarrierLost \/ ConditionsChange \/ UNCHANGED vars
           \/ \E t \in Tasks : UseFreedDce(t)
    PROVE  ModeInv'
<1>1. /\ UNCHANGED <<pc, dce, dceMode, lock, uart, readCb>>
      /\ ppp' = ppp \/ (ppp # "idle" /\ ppp' # "idle")
  BY DEF LinkUp, LinkLost, CarrierLost, ConditionsChange, UseFreedDce, vars, taskVars, dceVars,
     uartVars, pppVars
<1>2. LockInv'
  BY <1>1 DEF ModeInv, LockInv
<1>3. SetInv'
  BY <1>1 DEF ModeInv, SetInv
<1>4. FreeInv' /\ OffInv'
  BY <1>1 DEF ModeInv, FreeInv, OffInv
<1>. QED  BY <1>2, <1>3, <1>4 DEF ModeInv

LEMMA RestartMode == Restart => ModeInv'
BY DEF Restart, ModeInv, LockInv, SetInv, FreeInv, OffInv, Tasks, Home, Locked, Free

LEMMA ModeStep ==
    ASSUME Types, BackOK, ModeInv, [Next]_vars
    PROVE  ModeInv'
BY ConnectMode, StopMode, OtherMode, EnvMode, RestartMode
   DEF Next, Running, LoopStep, EventStep, Tasks

\* Wherever DCE_Mode::set returns, from ConnectModem or DisconnectModem, with success or
\* not, callback and PPP session are those of the mode it leaves (esp_modem_dce.cpp 17-81).
THEOREM CallbackBelongsToMode == Spec => []CallbackFollowsMode
<1>1. Init => Types /\ BackOK /\ ModeInv
  BY TypesInit, ModeInit
<1>2. Types /\ BackOK /\ ModeInv /\ [Next]_vars => (Types /\ BackOK /\ ModeInv)'
  BY TypesStep, ModeStep
<1>3. Types /\ BackOK /\ ModeInv => CallbackFollowsMode
  BY DEF ModeInv, FreeInv, CallbackFollowsMode
<1>. QED  BY <1>1, <1>2, <1>3, PTL DEF Spec

\* The loop task and the event task are never both between the beginning and the end of
\* a change of mode: the mode, the read callback and the answers belong to one of them
\* (Scoped<DTE>, esp_modem_dce.cpp:88), also while DisconnectModem frees the DCE.
OneModeChange == \A t, u \in Tasks : pc[t] \in Locked /\ pc[u] \in Locked => t = u

\* And nobody waits for a lock without a holder: on every path out of a change of mode,
\* the failed ones included, the DTE is given back (the safety half of TasksReturn).
LockHasHolder == lock # Free => \E t \in Tasks : lock = t /\ pc[t] \in Locked

THEOREM ModeChangesAreAlone == Spec => [](OneModeChange /\ LockHasHolder)
<1>1. Init => Types /\ BackOK /\ ModeInv
  BY TypesInit, ModeInit
<1>2. Types /\ BackOK /\ ModeInv /\ [Next]_vars => (Types /\ BackOK /\ ModeInv)'
  BY TypesStep, ModeStep
<1>3. Types /\ ModeInv => OneModeChange /\ LockHasHolder
  BY DEF ModeInv, LockInv, OneModeChange, LockHasHolder, Types, DceTypes, Tasks
<1>. QED  BY <1>1, <1>2, <1>3, PTL DEF Spec

(***************************************************************************)
(* Command mode is real                                                    *)
(***************************************************************************)
\* While every answer of this boot has come in time, only "NO CARRIER" can be left in
\* the UART, the modem is then out of data mode, and it is not in data mode behind the
\* back of a DCE in command mode, save between CONNECT and the end of enter_data.
RealInv ==
    ~late => /\ \A word \in rx : word = "NO CARRIER"
             /\ rx # {} => modem # "data"
             /\ dceMode = "COMMAND" /\ pc["loop"] # "enter" => modem # "data"

LEMMA RealInit == Init => RealInv
BY DEF Init, RealInv

\* What a command does to the modem and leaves in the UART.
LEMMA CommandReal ==
    ASSUME Types, RealInv, NEW t \in Tasks, NEW cmd \in Commands, NEW result,
           Command(t, cmd, result), ~late',
           cmd \in {"ATD", "ATO"} => readCb = "command"
    PROVE  /\ \A word \in rx' : word = "NO CARRIER"
           /\ rx' # {} => modem' # "data"
           /\ modem' = "data" => modem = "data" \/ (cmd \in {"ATD", "ATO"} /\ result = "OK")
           /\ cmd = "ESCAPE" /\ readCb = "command" /\ result = "OK" => modem' # "data"
<1>. DEFINE misled == Verdict(rx, Pass[cmd]) # "TIMEOUT"
<1>1. PICK answer \in Answers(cmd), delayed \in BOOLEAN :
         /\ modem' = answer.mode
         /\ late' = (late \/ (delayed /\ answer.text # {}))
         /\ readCb = "command" =>
               /\ result = Verdict(IF misled \/ delayed THEN rx ELSE rx \cup answer.text, Pass[cmd])
               /\ rx' = IF misled \/ delayed THEN answer.text ELSE {}
         /\ readCb # "command" => rx' = rx
  BY DEF Command
<1>2. ~late /\ (delayed => answer.text = {})
  BY <1>1
<1>3. (\A word \in rx : word = "NO CARRIER") /\ (rx # {} => modem # "data")
  BY <1>2 DEF RealInv
<1>4. modem \in {"off", "command", "data"}
  BY DEF Types, ModemTypes
<1>5. misled => cmd = "ESCAPE" /\ modem # "data"
  <2>1. misled => rx \cap Pass[cmd] # {}
    BY <1>3 DEF Verdict
  <2>2. "NO CARRIER" \in Pass[cmd] => cmd = "ESCAPE"
    BY PassWords
  <2>. QED  BY <1>3, <2>1, <2>2
<1>6. answer.mode = "data" =>
         modem = "data" \/ (cmd \in {"ATD", "ATO"} /\ answer.text = {"CONNECT"})
  <2>1. CASE modem = "command" /\ cmd # "ESCAPE"
    <3>1. answer \in { Reply({word}, IF word = "CONNECT" THEN "data" ELSE "command")
                          : word \in Pass[cmd] }
          \/ answer \in {Reply({"ERROR"}, "command"), Reply({}, "command")}
      BY <2>1 DEF Answers
    <3>2. CASE answer \in {Reply({"ERROR"}, "command"), Reply({}, "command")}
      BY <3>2 DEF Reply
    <3>3. CASE answer \in { Reply({word}, IF word = "CONNECT" THEN "data" ELSE "command")
                               : word \in Pass[cmd] }
      <4>1. PICK word \in Pass[cmd] :
               answer = Reply({word}, IF word = "CONNECT" THEN "data" ELSE "command")
        BY <3>3
      <4>2. word = "CONNECT" => cmd \in {"ATD", "ATO"}
        BY PassWords
      <4>. QED  BY <4>1, <4>2 DEF Reply
    <3>. QED  BY <3>1, <3>2, <3>3
  <2>2. CASE modem = "off"
    BY <2>2 DEF Answers, Reply
  <2>3. CASE modem = "command" /\ cmd = "ESCAPE"
    BY <2>3 DEF Answers, Reply
  <2>. QED  BY <1>4, <2>1, <2>2, <2>3
<1>7. cmd = "ESCAPE" /\ modem # "data" => answer.text = {} /\ answer.mode # "data"
  BY <1>4 DEF Answers, Reply
<1>8. cmd = "ESCAPE" /\ answer.mode = "data" => answer.text = {}
  <2>1. CASE cmd = "ESCAPE" /\ modem = "data"
    <3>1. answer = Reply({"OK"}, "command") \/ answer = Reply({}, "data")
      BY <2>1 DEF Answers
    <3>. QED  BY <3>1 DEF Reply
  <2>. QED  BY <1>7, <2>1
<1>. HIDE DEF misled
<1>9. (\A word \in rx' : word = "NO CARRIER") /\ (rx' # {} => modem' # "data")
  <2>1. CASE readCb = "command"
    <3>1. rx' = {}
      BY <1>1, <1>2, <1>5, <1>7, <2>1
    <3>. QED  BY <3>1
  <2>2. CASE readCb # "command"
    BY <1>1, <1>3, <1>6, <2>2
  <2>. QED  BY <2>1, <2>2
<1>10. modem' = "data" => modem = "data" \/ (cmd \in {"ATD", "ATO"} /\ result = "OK")
  <2>1. CASE cmd \in {"ATD", "ATO"} /\ answer.text = {"CONNECT"}
    <3>1. ~misled /\ ~delayed /\ readCb = "command"
      BY <1>2, <1>5, <2>1
    <3>2. result = Verdict(rx \cup {"CONNECT"}, Pass[cmd])
      BY <1>1, <2>1, <3>1
    <3>3. Pass[cmd] = {"CONNECT"}
      <4>1. Pass["ATD"] = {"CONNECT"} /\ Pass["ATO"] = {"CONNECT"}
        BY DEF Pass
      <4>. QED  BY <2>1, <4>1
    <3>4. result = "OK"
      BY <3>2, <3>3 DEF Verdict
    <3>. QED  BY <2>1, <3>4
  <2>. QED  BY <1>1, <1>6, <2>1
<1>11. cmd = "ESCAPE" /\ readCb = "command" /\ result = "OK" => modem' # "data"
  <2>. SUFFICES ASSUME cmd = "ESCAPE", readCb = "command", result = "OK", modem' = "data"
                PROVE  FALSE
    OBVIOUS
  <2>1. ~misled /\ answer.text = {}
    BY <1>1, <1>5, <1>6, <1>8
  <2>2. Verdict(rx \cup answer.text, Pass[cmd]) = Verdict(rx, Pass[cmd])
    <3>1. rx \cup answer.text = rx
      BY <2>1
    <3>. QED  BY <3>1
  <2>3. result = Verdict(rx, Pass[cmd])
    BY <1>1, <2>1, <2>2
  <2>. QED  BY <2>1, <2>3 DEF misled
<1>. QED  BY <1>9, <1>10, <1>11

\* Steps without a command.
LEMMA SameReal ==
    ASSUME RealInv, UNCHANGED <<dceMode, late>>, rx' = rx \/ rx' = {},
           modem' = "data" => modem = "data",
           pc'["loop"] = pc["loop"] \/ pc["loop"] # "enter"
    PROVE  RealInv'
BY DEF RealInv

LEMMA AskReal ==
    ASSUME Types, ModeInv, RealInv, NEW label \in {"sync", "sync2", "reset", "signal", "pdp", "dial", "resume"},
           NEW cmd \in Commands, NEW whenOk, NEW otherwise, Ask(label, cmd, whenOk, otherwise),
           cmd \in {"ATD", "ATO"} => whenOk = "enter" /\ label \in {"dial", "resume"},
           UNCHANGED dceMode
    PROVE  RealInv'
<1>1. PICK result \in Results : /\ Command("loop", cmd, result)
                                /\ Goto("loop", IF result = "OK" THEN whenOk ELSE otherwise)
  BY DEF Ask
<1>2. TaskTypes /\ "loop" \in Tasks /\ pc["loop"] = label
  BY DEF Types, Tasks, Ask
<1>3. cmd \in {"ATD", "ATO"} => readCb = "command"
  BY <1>2 DEF ModeInv, SetInv
<1>4. pc'["loop"] = IF result = "OK" THEN whenOk ELSE otherwise
  BY <1>1, <1>2, Mover
<1>. SUFFICES ASSUME ~late'
              PROVE  /\ \A word \in rx' : word = "NO CARRIER"
                     /\ rx' # {} => modem' # "data"
                     /\ dceMode' = "COMMAND" /\ pc'["loop"] # "enter" => modem' # "data"
  BY DEF RealInv
<1>5. /\ \A word \in rx' : word = "NO CARRIER"
      /\ rx' # {} => modem' # "data"
      /\ modem' = "data" => modem = "data" \/ (cmd \in {"ATD", "ATO"} /\ result = "OK")
  BY <1>1, <1>2, <1>3, CommandReal
<1>6. ~late
  BY <1>1 DEF Command
<1>. QED  BY <1>2, <1>4, <1>5, <1>6 DEF RealInv

LEMMA ConnectReal ==
    ASSUME Types, ModeInv, RealInv, Connect
    PROVE  RealInv'
<1>1. TaskTypes /\ "loop" \in Tasks
  BY DEF Types, Tasks
<1>2. CASE Wakeup \/ Retry \/ StartNetwork
  <2>1. UNCHANGED <<dceMode, late, rx>> /\ pc["loop"] # "enter" /\ (modem' = "data" => modem = "data")
    BY <1>2 DEF Wakeup, Retry, StartNetwork, dceVars, uartVars, modemVars
  <2>. QED  BY <2>1, SameReal
<1>3. CASE InitNetwork
  <2>1. CASE \E cause \in {"again", "sim"} : AbortInit(cause)
    BY <2>1, SameReal DEF AbortInit, taskVars, dceVars, uartVars, modemVars
  <2>2. CASE ~\E cause \in {"again", "sim"} : AbortInit(cause)
    <3>1. rx' = {} /\ dceMode' = "UNDEF"
      BY <1>3, <2>2 DEF InitNetwork
    <3>. QED  BY <3>1 DEF RealInv
  <2>. QED  BY <2>1, <2>2
<1>4. CASE CheckSync
  BY <1>4, AskReal DEF CheckSync, dceVars, Commands
<1>5. CASE CheckSyncAgain
  BY <1>5, AskReal DEF CheckSyncAgain, dceVars, Commands
<1>6. CASE Reset
  BY <1>6, AskReal DEF Reset, dceVars, Commands
<1>7. CASE CheckSignal
  <2>1. PICK whenOk : Ask("signal", "CSQ", whenOk, "retry")
    BY <1>7 DEF CheckSignal
  <2>. QED  BY <1>7, <2>1, AskReal DEF CheckSignal, dceVars, Commands
<1>8. CASE SetPdpContext
  BY <1>8, AskReal DEF SetPdpContext, Commands
<1>9. CASE Dial
  BY <1>9, AskReal DEF Dial, dceVars, Commands
<1>10. CASE Resume
  BY <1>10, AskReal DEF Resume, Commands
<1>11. CASE EnterData
  BY <1>11 DEF EnterData, RealInv
<1>. QED  BY <1>2, <1>3, <1>4, <1>5, <1>6, <1>7, <1>8, <1>9, <1>10, <1>11 DEF Connect

LEMMA StopReal ==
    ASSUME Types, ModeInv, RealInv, NEW t \in Tasks, Stop(t)
    PROVE  RealInv'
<1>1. TaskTypes /\ "loop" \in Tasks /\ pc[t] # "enter"
  BY DEF Types, Tasks, Stop, StopNetwork, ExitData, Escape
<1>2. PICK label : Goto(t, label)
  BY DEF Stop, StopNetwork, ExitData, Escape
<1>3. pc'["loop"] = pc["loop"] \/ pc["loop"] # "enter"
  BY <1>1, <1>2, Mover
<1>4. CASE StopNetwork(t)
  <2>1. dceMode' = dceMode /\ late' = late
    BY <1>4 DEF StopNetwork
  <2>2. CASE UNCHANGED <<modem, rx>>
    BY <1>3, <2>1, <2>2, SameReal
  <2>3. CASE ~UNCHANGED <<modem, rx>>
    <3>1. modem' = "command" /\ rx' = rx \cup {"NO CARRIER"}
      BY <1>4, <2>3 DEF StopNetwork
    <3>. QED  BY <2>1, <3>1 DEF RealInv
  <2>. QED  BY <2>2, <2>3
<1>5. CASE ExitData(t)
  <2>1. CASE dceMode' = dceMode
    BY <1>3, <1>5, <2>1, SameReal DEF ExitData, modemVars
  <2>2. CASE dceMode' # dceMode
    <3>1. rx \cap {"OK", "NO CARRIER"} # {}
      BY <1>5, <2>2 DEF ExitData
    <3>2. rx' = {} /\ late' = late /\ modem' = modem
      BY <1>5 DEF ExitData, modemVars
    <3>. QED  BY <3>1, <3>2 DEF RealInv
  <2>. QED  BY <2>1, <2>2
<1>6. CASE Escape(t)
  <2>1. PICK result \in Results : Command(t, "ESCAPE", result) /\ dceMode' = ModeAfter(result)
    BY <1>6 DEF Escape
  <2>2. readCb = "command"
    BY <1>6 DEF Escape, ModeInv, SetInv
  <2>. SUFFICES ASSUME ~late'
                PROVE  /\ \A word \in rx' : word = "NO CARRIER"
                       /\ rx' # {} => modem' # "data"
                       /\ dceMode' = "COMMAND" => modem' # "data"
    BY DEF RealInv
  <2>3. /\ \A word \in rx' : word = "NO CARRIER"
        /\ rx' # {} => modem' # "data"
        /\ result = "OK" => modem' # "data"
    BY <2>1, <2>2, CommandReal DEF Commands
  <2>. QED  BY <2>1, <2>3 DEF ModeAfter
<1>. QED  BY <1>4, <1>5, <1>6 DEF Stop

LEMMA OtherReal ==
    ASSUME Types, RealInv,
           \/ TryToConnect \/ TimeOut \/ GiveUp \/ HandleIPEvent \/ SetOnLine \/ SetOffLine
           \/ \E t \in Tasks : Disconnect(t)
    PROVE  RealInv'
<1>1. TaskTypes /\ "loop" \in Tasks /\ "event" \in Tasks
  BY DEF Types, Tasks
<1>2. PICK t \in Tasks : pc[t] # "enter" /\ \E label : Goto(t, label)
  BY <1>1 DEF TryToConnect, TimeOut, GiveUp, HandleIPEvent, SetOnLine, SetOffLine,
     Disconnect, TestPower, CutPower, Deinit, Destroy
<1>3. pc'["loop"] = pc["loop"] \/ pc["loop"] # "enter"
  BY <1>1, <1>2, Mover
<1>4. UNCHANGED <<dceMode, late, rx>> /\ (modem' = "data" => modem = "data")
  BY DEF TryToConnect, TimeOut, GiveUp, HandleIPEvent, SetOnLine, SetOffLine,
     Disconnect, TestPower, CutPower, Deinit, Destroy, dceVars, uartVars, modemVars
<1>. QED  BY <1>3, <1>4, SameReal

LEMMA EnvReal ==
    ASSUME Types, RealInv,
           \/ LinkUp \/ LinkLost \/ CarrierLost \/ ConditionsChange \/ UNCHANGED vars
           \/ \E t \in Tasks : UseFreedDce(t)
    PROVE  RealInv'
<1>1. CASE CarrierLost
  BY <1>1 DEF CarrierLost, taskVars, dceVars, RealInv
<1>2. CASE ~CarrierLost
  <2>1. UNCHANGED <<pc, dceMode, late, rx, modem>>
    BY <1>2 DEF LinkUp, LinkLost, ConditionsChange, UseFreedDce, vars, taskVars, dceVars,
       uartVars, modemVars
  <2>. QED  BY <2>1, SameReal
<1>. QED  BY <1>1, <1>2

LEMMA RealStep ==
    ASSUME Types, ModeInv, RealInv, [Next]_vars
    PROVE  RealInv'
<1>1. Restart => RealInv'
  BY DEF Restart, RealInv
<1>. QED  BY <1>1, ConnectReal, StopReal, OtherReal, EnvReal
          DEF Next, Running, LoopStep, EventStep, Tasks

\* DCE_Mode::set(COMMAND_MODE) refuses in command mode (esp_modem_dce.cpp 157): rightly,
\* as long as the answers come in time.
THEOREM CommandModeIsTrue == Spec => []CommandModeIsReal
<1>1. Init => Types /\ BackOK /\ ModeInv /\ RealInv
  BY TypesInit, ModeInit, RealInit
<1>2. Types /\ BackOK /\ ModeInv /\ RealInv /\ [Next]_vars
         => (Types /\ BackOK /\ ModeInv /\ RealInv)'
  BY TypesStep, ModeStep, RealStep
<1>3. Types /\ ModeInv /\ RealInv => CommandModeIsReal
  <2>1. ModeInv /\ lock = Free => pc["loop"] # "enter"
    BY DEF ModeInv, LockInv, Tasks, Locked, Free
  <2>. QED  BY <2>1 DEF RealInv, CommandModeIsReal
<1>. QED  BY <1>1, <1>2, <1>3, PTL DEF Spec

(***************************************************************************)
(* One task at a time                                                      *)
(***************************************************************************)
\* Once DisconnectModem of t has cut the power.
PastCut(t) == Disconnecting(t) /\ pc[t] \notin {"disconnect", "cut"}

\* As long as no two tasks were connecting or disconnecting together, the object, the
\* interface and the handler are there while the power is on, and gone when
\* DisconnectModem is done, which the state follows.
Alone ==
    /\ ~Overlap
    /\ \A t \in Tasks : /\ pc[t] \in NeedsDce \cup {"retry", "cut"} => dce
                        /\ PastCut(t) => ~power
                        /\ pc[t] = "destroy" => ~dce
    /\ power /\ pc["loop"] # "init" => dce
    /\ pc["loop"] = "init" => power
    /\ ~power /\ ~PastCut("loop") /\ ~PastCut("event") => ~dce /\ ~netif /\ ~handler
    /\ Connecting => networkState \in {"Connecting", "OnLine"}
    /\ pc["loop"] \in {"run", "giveUp"} /\ ~Disconnecting("event")
       /\ networkState \in {"ApState", "OffLine"} => ~power
    /\ crash # "dce"

RaceInv == ~raced => Alone

LEMMA RaceInit == Init => RaceInv
BY DEF Init, RaceInv, Alone, Overlap, Connecting, Disconnecting, PastCut, Tasks, Home, NeedsDce,
   ConnectLabels, DisconnectLabels

\* The other task is not disconnecting while the loop task connects or disconnects.
LEMMA LoopAlone ==
    ASSUME TaskTypes, BackOK, Alone, ~Overlap', NEW label, Goto("loop", label),
           UNCHANGED back \/ back' = [back EXCEPT !["loop"] = "sync2"] \/ back' = [back EXCEPT !["loop"] = "deinit"]
    PROVE  /\ pc'["loop"] = label /\ pc'["event"] = pc["event"] /\ back'["event"] = back["event"]
           /\ Disconnecting("event")' = Disconnecting("event")
           /\ PastCut("event")' = PastCut("event")
           /\ ~(Disconnecting("event") /\ (Connecting \/ Disconnecting("loop")))
           /\ ~(Disconnecting("event") /\ (Connecting' \/ Disconnecting("loop")'))
<1>1. pc'["loop"] = label /\ pc'["event"] = pc["event"]
  BY Mover DEF Tasks
<1>2. back'["event"] = back["event"]
  BY DEF TaskTypes, Tasks
<1>3. Disconnecting("event")' = Disconnecting("event") /\ PastCut("event")' = PastCut("event")
  BY <1>1, <1>2 DEF Disconnecting, PastCut
<1>. QED  BY <1>1, <1>2, <1>3 DEF Alone, Overlap

\* Steps among those that need the DCE.
LEMMA NeedsDceAlone ==
    ASSUME TaskTypes, BackOK, Alone, ~Overlap', NEW label, Goto("loop", label),
           pc["loop"] \in NeedsDce \cup {"retry"}, Connecting, label \in NeedsDce \cup {"retry"},
           label \in {"stop", "exit", "escape"} => back'["loop"] = "sync2",
           UNCHANGED back \/ back' = [back EXCEPT !["loop"] = "sync2"],
           dce, UNCHANGED <<power, dce, netif, handler, crash, networkState>>
    PROVE  Alone'
<1>1. /\ pc'["loop"] = label /\ pc'["event"] = pc["event"] /\ back'["event"] = back["event"]
      /\ ~Disconnecting("event") /\ ~Disconnecting("event")'
  BY LoopAlone
<1>2. ~Disconnecting("loop")'
  BY <1>1 DEF Disconnecting, DisconnectLabels, ConnectLabels, NeedsDce
<1>3. ~PastCut("loop")' /\ ~PastCut("event")'
  BY <1>1, <1>2 DEF PastCut
<1>4. networkState \in {"Connecting", "OnLine"}
  BY DEF Alone
<1>5. power
  <2>1. ~Disconnecting("loop") /\ ~Disconnecting("event")
    BY <1>1 DEF Connecting, Disconnecting
  <2>. QED  BY <2>1 DEF Alone, PastCut
<1>6. pc'["event"] \notin {"cut", "destroy"} /\ (pc'["event"] \in NeedsDce \cup {"retry"} => dce)
  BY <1>1 DEF Disconnecting, DisconnectLabels, ConnectLabels
<1>. QED  BY <1>1, <1>2, <1>3, <1>4, <1>5, <1>6 DEF Alone, NeedsDce, Tasks

LEMMA AskAlone ==
    ASSUME Types, BackOK, Alone, ~Overlap', NEW label \in {"sync", "sync2", "reset", "signal", "pdp", "dial", "resume"},
           NEW cmd, NEW whenOk, NEW otherwise, Ask(label, cmd, whenOk, otherwise),
           whenOk \in NeedsDce \cup {"retry"}, otherwise \in NeedsDce \cup {"retry"},
           whenOk \notin {"stop", "exit", "escape"},
           otherwise \in {"stop", "exit", "escape"} => back'["loop"] = "sync2",
           UNCHANGED back \/ back' = [back EXCEPT !["loop"] = "sync2"], UNCHANGED dce
    PROVE  Alone'
<1>1. TaskTypes /\ pc["loop"] = label /\ dce
  BY DEF Types, Ask
<1>2. PICK next \in {whenOk, otherwise} : Goto("loop", next)
  BY DEF Ask
<1>3. UNCHANGED <<power, dce, netif, handler, crash, networkState>>
  BY DEF Ask, appVars, pppVars, ipVars
<1>4. Connecting /\ pc["loop"] \in NeedsDce
  BY <1>1 DEF Connecting, ConnectLabels, DisconnectLabels, NeedsDce
<1>. QED  BY <1>1, <1>2, <1>3, <1>4, NeedsDceAlone

LEMMA ConnectAlone ==
    ASSUME Types, BackOK, Alone, ~Overlap', Connect
    PROVE  Alone'
<1>1. TaskTypes /\ "loop" \in Tasks /\ "event" \in Tasks
  BY DEF Types, Tasks
<1>2. CASE Wakeup
  <2>1. pc'["loop"] = "init" /\ pc'["event"] = pc["event"] /\ back' = back
        /\ ~(Disconnecting("event") /\ (Connecting \/ Disconnecting("loop")))
    BY <1>1, <1>2, LoopAlone DEF Wakeup
  <2>2. pc["loop"] = "wakeup" /\ power' /\ UNCHANGED <<dce, netif, handler, crash, networkState>>
    BY <1>2 DEF Wakeup, dceVars, pppVars, ipVars, appVars
  <2>. QED  BY <1>1, <2>1, <2>2 DEF Alone, PastCut, Disconnecting, Connecting, Tasks, NeedsDce,
          ConnectLabels, DisconnectLabels
<1>3. CASE InitNetwork
  <2>1. CASE \E cause \in {"again", "sim"} : AbortInit(cause)
    <3>1. UNCHANGED <<pc, back, power, dce, netif, handler, networkState>> /\ crash' # "dce"
      BY <2>1 DEF AbortInit, taskVars, dceVars, pppVars, ipVars, modemVars, appVars
    <3>. QED  BY <3>1 DEF Alone, PastCut, Disconnecting, Connecting
  <2>2. CASE ~\E cause \in {"again", "sim"} : AbortInit(cause)
    <3>1. /\ Goto("loop", "retry") /\ dce' /\ UNCHANGED <<networkState, power, crash>>
          /\ pc["loop"] = "init" /\ back' = back
      BY <1>3, <2>2 DEF InitNetwork
    <3>2. pc'["loop"] = "retry" /\ pc'["event"] = pc["event"]
          /\ ~(Disconnecting("event") /\ (Connecting \/ Disconnecting("loop")))
      BY <1>1, <3>1, LoopAlone
    <3>. QED  BY <1>1, <3>1, <3>2 DEF Alone, PastCut, Disconnecting, Connecting, Tasks, NeedsDce,
              ConnectLabels, DisconnectLabels
  <2>. QED  BY <2>1, <2>2
<1>4. CASE Retry
  <2>1. /\ pc["loop"] = "retry" /\ UNCHANGED <<power, dce, netif, handler, crash, networkState, back>>
    BY <1>4 DEF Retry, dceVars, pppVars, ipVars, modemVars
  <2>2. PICK label \in {"run", "sync"} : Goto("loop", label)
    BY <1>4 DEF Retry
  <2>3. pc'["loop"] = label /\ pc'["event"] = pc["event"]
        /\ ~(Disconnecting("event") /\ (Connecting \/ Disconnecting("loop")))
    BY <1>1, <2>1, <2>2, LoopAlone
  <2>. QED  BY <1>1, <2>1, <2>3 DEF Alone, PastCut, Disconnecting, Connecting, Tasks, NeedsDce,
          ConnectLabels, DisconnectLabels
<1>5. CASE CheckSync
  <2>1. back'["loop"] = "sync2"
    BY <1>1, <1>5 DEF CheckSync, TaskTypes
  <2>. QED  BY <1>5, <2>1, AskAlone DEF CheckSync, dceVars, NeedsDce
<1>6. CASE CheckSyncAgain
  BY <1>6, AskAlone DEF CheckSyncAgain, dceVars, NeedsDce
<1>7. CASE Reset
  BY <1>7, AskAlone DEF Reset, dceVars, NeedsDce
<1>8. CASE CheckSignal
  <2>1. PICK whenOk \in {"start", "retry"} : Ask("signal", "CSQ", whenOk, "retry")
    BY <1>8 DEF CheckSignal
  <2>. QED  BY <1>8, <2>1, AskAlone DEF CheckSignal, dceVars, NeedsDce
<1>9. CASE StartNetwork \/ EnterData
  <2>1. /\ pc["loop"] \in {"start", "enter"} /\ dce
        /\ UNCHANGED <<power, dce, netif, handler, crash, networkState, back>>
    BY <1>9 DEF StartNetwork, EnterData, pppVars, ipVars, modemVars, appVars
  <2>2. PICK label \in {"retry", "pdp"} : Goto("loop", label)
    BY <1>9 DEF StartNetwork, EnterData
  <2>3. Connecting /\ pc["loop"] \in NeedsDce /\ label \in NeedsDce \cup {"retry"}
    BY <2>1 DEF Connecting, ConnectLabels, DisconnectLabels, NeedsDce
  <2>. QED  BY <1>1, <2>1, <2>2, <2>3, NeedsDceAlone
<1>10. CASE SetPdpContext
  BY <1>10, AskAlone DEF SetPdpContext, NeedsDce
<1>11. CASE Dial
  BY <1>11, AskAlone DEF Dial, dceVars, NeedsDce
<1>12. CASE Resume
  BY <1>12, AskAlone DEF Resume, NeedsDce
<1>. QED  BY <1>2, <1>3, <1>4, <1>5, <1>6, <1>7, <1>8, <1>9, <1>10, <1>11, <1>12 DEF Connect

LEMMA StopAlone ==
    ASSUME Types, BackOK, Alone, ~Overlap', NEW t \in Tasks, Stop(t)
    PROVE  Alone'
<1>1. TaskTypes
  BY DEF Types
<1>2. /\ pc[t] \in {"stop", "exit", "escape"} /\ dce
      /\ UNCHANGED <<power, dce, netif, handler, crash, networkState, back>>
  BY DEF Stop, StopNetwork, ExitData, Escape, appVars, pppVars, ipVars, modemVars
<1>3. PICK label \in {"exit", "escape", back[t]} : Goto(t, label)
  <2>1. ExitData(t) => \E label \in {"exit", "escape", back[t]} : Goto(t, label)
    BY DEF ExitData
  <2>2. StopNetwork(t) => \E label \in {"exit", "escape", back[t]} : Goto(t, label)
    BY DEF StopNetwork
  <2>3. Escape(t) => \E label \in {"exit", "escape", back[t]} : Goto(t, label)
    BY DEF Escape
  <2>. QED  BY <2>1, <2>2, <2>3 DEF Stop
<1>4. pc'[t] = label /\ \A u \in Tasks : u # t => pc'[u] = pc[u]
  BY <1>1, <1>3, Mover
<1>5. label \in {"exit", "escape", "sync2", "deinit"}
      /\ (label = "sync2" => back[t] = "sync2") /\ (label = "deinit" => back[t] = "deinit")
  BY <1>1 DEF TaskTypes
\* The step goes on with what the task was at.
<1>6. \A u \in Tasks : Disconnecting(u)' = Disconnecting(u)
  BY <1>1, <1>2, <1>4, <1>5 DEF Disconnecting, DisconnectLabels, ConnectLabels, TaskTypes
<1>7. \A u \in Tasks : PastCut(u)' = PastCut(u)
  BY <1>2, <1>4, <1>5, <1>6 DEF PastCut
<1>8. Connecting' => Connecting
  BY <1>1, <1>2, <1>4, <1>5 DEF Connecting, DisconnectLabels, ConnectLabels, TaskTypes, Tasks
<1>. QED  BY <1>1, <1>2, <1>4, <1>5, <1>6, <1>7, <1>8 DEF Alone, NeedsDce, Tasks

LEMMA DisconnectAlone ==
    ASSUME Types, BackOK, Alone, ~Overlap', NEW t \in Tasks, Disconnect(t)
    PROVE  Alone'
<1>1. TaskTypes
  BY DEF Types
<1>2. PICK label : Goto(t, label)
  BY DEF Disconnect, TestPower, CutPower, Deinit, Destroy
<1>3. pc'[t] = label /\ \A u \in Tasks : u # t => pc'[u] = pc[u]
  BY <1>1, <1>2, Mover
<1>4. Disconnecting(t)
  BY DEF Disconnect, TestPower, CutPower, Deinit, Destroy, Disconnecting, DisconnectLabels, ConnectLabels
\* The other task is not in ConnectModem or DisconnectModem.
<1>5. \A u \in Tasks : u # t => /\ pc[u] \notin DisconnectLabels \cup ConnectLabels
  <2>1. CASE t = "event"
    BY <1>1, <1>4, <2>1 DEF Alone, Overlap, Disconnecting, Connecting, Tasks, TaskTypes
  <2>2. CASE t = "loop"
    <3>1. ~Disconnecting("event")
      BY <1>4, <2>2 DEF Alone, Overlap
    <3>2. pc["event"] \in {"idle", "setOnLine", "setOffLine"}
      BY <1>1, <3>1 DEF Disconnecting, BackOK, TaskTypes, Labels
    <3>. QED  BY <2>2, <3>2 DEF Tasks, DisconnectLabels, ConnectLabels
  <2>. QED  BY <2>1, <2>2 DEF Tasks
<1>6. UNCHANGED <<crash, networkState>>
  BY DEF Disconnect, TestPower, CutPower, Deinit, Destroy, appVars
<1>7. CASE TestPower(t)
  <2>1. pc[t] = "disconnect" /\ label = IF power THEN "cut" ELSE Home(t)
    <3>1. Goto(t, IF power THEN "cut" ELSE Home(t)) /\ pc[t] = "disconnect"
      BY <1>7 DEF TestPower
    <3>. QED  BY <1>1, <1>3, <3>1, Mover
  <2>2. UNCHANGED <<power, dce, netif, handler, back>>
    BY <1>7 DEF TestPower, dceVars, pppVars, ipVars, modemVars
  <2>. QED  BY <1>1, <1>3, <1>5, <1>6, <2>1, <2>2 DEF Alone, PastCut, Disconnecting, Connecting, Tasks, Home,
            NeedsDce, ConnectLabels, DisconnectLabels
<1>8. CASE CutPower(t)
  <2>1. pc[t] = "cut" /\ pc'[t] = "stop"
    BY <1>1, <1>8, Mover DEF CutPower
  <2>2. ~power' /\ UNCHANGED <<dce, netif, handler>> /\ back'[t] = "deinit"
    BY <1>1, <1>8 DEF CutPower, dceVars, pppVars, ipVars, TaskTypes
  <2>3. \A u \in Tasks : u # t => back'[u] = back[u]
    BY <1>1, <1>8 DEF CutPower, TaskTypes
  <2>. QED  BY <1>1, <1>3, <1>5, <1>6, <2>1, <2>2, <2>3 DEF Alone, PastCut, Disconnecting, Connecting, Tasks,
            NeedsDce, ConnectLabels, DisconnectLabels
<1>9. CASE Deinit(t)
  <2>1. pc[t] = "deinit" /\ pc'[t] = "destroy"
    BY <1>1, <1>9, Mover DEF Deinit
  <2>2. ~dce' /\ UNCHANGED <<power, netif, handler, back>>
    BY <1>9 DEF Deinit, pppVars, ipVars, modemVars
  <2>. QED  BY <1>1, <1>3, <1>5, <1>6, <2>1, <2>2 DEF Alone, PastCut, Disconnecting, Connecting, Tasks,
            NeedsDce, ConnectLabels, DisconnectLabels
<1>10. CASE Destroy(t)
  <2>1. pc[t] = "destroy" /\ pc'[t] = Home(t)
    BY <1>1, <1>10, Mover DEF Destroy
  <2>2. ~netif' /\ ~handler' /\ UNCHANGED <<power, dce, back>>
    BY <1>10 DEF Destroy, dceVars, modemVars
  <2>. QED  BY <1>1, <1>3, <1>5, <1>6, <2>1, <2>2 DEF Alone, PastCut, Disconnecting, Connecting, Tasks, Home,
            NeedsDce, ConnectLabels, DisconnectLabels
<1>. QED  BY <1>7, <1>8, <1>9, <1>10 DEF Disconnect

LEMMA StateAlone ==
    ASSUME Types, BackOK, Alone, ~Overlap',
           TryToConnect \/ TimeOut \/ GiveUp \/ HandleIPEvent \/ SetOnLine \/ SetOffLine
    PROVE  Alone'
<1>1. TaskTypes /\ AppTypes /\ "loop" \in Tasks /\ "event" \in Tasks
  BY DEF Types, Tasks
<1>2. UNCHANGED <<power, dce, netif, handler, crash, back>>
  BY DEF TryToConnect, TimeOut, GiveUp, HandleIPEvent, SetOnLine, SetOffLine, dceVars, pppVars,
     ipVars, modemVars
<1>3. CASE TryToConnect
  <2>1. pc["loop"] = "run" /\ pc'["loop"] = "wakeup" /\ pc'["event"] = pc["event"]
    BY <1>1, <1>3, Mover DEF TryToConnect
  <2>2. networkState' = "Connecting"
    BY <1>3 DEF TryToConnect, appVars
  <2>. QED  BY <1>1, <1>2, <2>1, <2>2 DEF Alone, PastCut, Disconnecting, Connecting, Tasks,
            NeedsDce, ConnectLabels, DisconnectLabels
<1>4. CASE TimeOut
  <2>1. pc["loop"] = "run" /\ pc'["loop"] = "giveUp" /\ pc'["event"] = pc["event"]
    BY <1>1, <1>4, Mover DEF TimeOut
  <2>2. networkState' = networkState /\ networkState = "Connecting"
    BY <1>4 DEF TimeOut, appVars
  <2>. QED  BY <1>1, <1>2, <2>1, <2>2 DEF Alone, PastCut, Disconnecting, Connecting, Tasks,
            NeedsDce, ConnectLabels, DisconnectLabels
<1>5. CASE GiveUp
  <2>1. PICK label : /\ label = IF networkState \in {"Connecting", "OnLine"} THEN "disconnect" ELSE "run"
                     /\ Goto("loop", label)
    BY <1>5 DEF GiveUp
  <2>2. pc["loop"] = "giveUp" /\ pc'["loop"] = label /\ pc'["event"] = pc["event"]
    BY <1>1, <1>5, <2>1, Mover DEF GiveUp
  <2>3. networkState' = "ApState"
    BY <1>5 DEF GiveUp
  <2>. QED  BY <1>1, <1>2, <2>1, <2>2, <2>3 DEF Alone, PastCut, Disconnecting, Connecting, Tasks, AppTypes,
            NeedsDce, ConnectLabels, DisconnectLabels
<1>6. CASE HandleIPEvent \/ SetOnLine
  <2>1. PICK label \in {"idle", "setOnLine", "setOffLine"} : Goto("event", label)
    BY <1>6 DEF HandleIPEvent, SetOnLine
  <2>2. pc["event"] \in {"idle", "setOnLine"} /\ pc'["event"] = label /\ pc'["loop"] = pc["loop"]
    BY <1>1, <1>6, <2>1, Mover DEF HandleIPEvent, SetOnLine
  <2>3. networkState' = networkState \/ networkState' = "OnLine"
    BY <1>6 DEF HandleIPEvent, SetOnLine, appVars
  <2>. QED  BY <1>1, <1>2, <2>2, <2>3 DEF Alone, PastCut, Disconnecting, Connecting, Tasks,
            NeedsDce, ConnectLabels, DisconnectLabels
<1>7. CASE SetOffLine
  <2>1. pc["event"] = "setOffLine" /\ pc'["event"] = "disconnect" /\ pc'["loop"] = pc["loop"]
    BY <1>1, <1>7, Mover DEF SetOffLine
  <2>2. ~Connecting'
    BY <2>1 DEF Overlap, Disconnecting, DisconnectLabels, ConnectLabels
  <2>. QED  BY <1>1, <1>2, <2>1, <2>2 DEF Alone, PastCut, Disconnecting, Connecting, Tasks,
            NeedsDce, ConnectLabels, DisconnectLabels
<1>. QED  BY <1>3, <1>4, <1>5, <1>6, <1>7

LEMMA EnvAlone ==
    ASSUME Alone,
           \/ LinkUp \/ LinkLost \/ CarrierLost \/ ConditionsChange \/ UNCHANGED vars
           \/ \E t \in Tasks : UseFreedDce(t)
    PROVE  Alone'
<1>1. ~\E t \in Tasks : UseFreedDce(t)
  BY DEF Alone, UseFreedDce
<1>2. UNCHANGED <<pc, back, power, dce, netif, handler, crash, networkState>>
  BY <1>1 DEF LinkUp, LinkLost, CarrierLost, ConditionsChange, vars, taskVars, dceVars, pppVars,
     ipVars, modemVars, appVars
<1>. QED  BY <1>2 DEF Alone, PastCut, Disconnecting, Connecting, Overlap

LEMMA RaceStep ==
    ASSUME Types, BackOK, RaceInv, [Next]_vars
    PROVE  RaceInv'
<1>1. CASE Restart
  BY <1>1 DEF Restart, RaceInv, Alone, Overlap, Connecting, Disconnecting, PastCut, Tasks, Home, NeedsDce,
     ConnectLabels, DisconnectLabels
<1>2. CASE UNCHANGED vars
  <2>1. Alone => Alone'
    BY <1>2, EnvAlone
  <2>. QED  BY <1>2, <2>1 DEF RaceInv, vars
<1>. DEFINE Step == LoopStep \/ EventStep \/ LinkUp \/ LinkLost \/ CarrierLost \/ ConditionsChange
<1>3. CASE Running(Step)
  <2>. SUFFICES ASSUME ~raced'
                PROVE  Alone'
    BY DEF RaceInv
  <2>1. Step /\ ~raced /\ ~Overlap'
    BY <1>3 DEF Running
  <2>2. Alone
    BY <2>1 DEF RaceInv
  <2>. QED  BY <2>1, <2>2, ConnectAlone, StopAlone, DisconnectAlone, StateAlone, EnvAlone
            DEF LoopStep, EventStep, Tasks
<1>. QED  BY <1>1, <1>2, <1>3 DEF Next, Running

LEMMA Racing ==
    /\ Init => Types /\ BackOK /\ RaceInv
    /\ Types /\ BackOK /\ RaceInv /\ [Next]_vars => (Types /\ BackOK /\ RaceInv)'
BY TypesInit, RaceInit, TypesStep, RaceStep

\* Without a race of the two tasks no step uses the DCE after network_dce.cpp:201 freed it.
THEOREM OnlyRacesUseFreedDce == Spec => []FreedOnlyInRace
<1>1. RaceInv => FreedOnlyInRace
  BY DEF RaceInv, Alone, FreedOnlyInRace
<1>. QED  BY <1>1, Racing, PTL DEF Spec

\* Without a race, back in ApState everything ConnectModem made is gone but the UART driver.
THEOREM ApHasNoModem == Spec => []ApReleasesModem
<1>1. RaceInv => ApReleasesModem
  BY DEF RaceInv, Alone, ApReleasesModem, PastCut, Disconnecting, DisconnectLabels
<1>. QED  BY <1>1, Racing, PTL DEF Spec

(***************************************************************************)
(* The interface outlives PPP, also if both tasks tear the link down       *)
(***************************************************************************)
\* Until InitNetwork has succeeded, which it does once between two restarts, nothing can
\* be torn down.
Fresh ==
    ~uart => /\ pc["event"] = "idle" /\ ~handler
             /\ pc["loop"] \in {"run", "wakeup", "init"}
             /\ pc["loop"] = "run" => networkState = "ApState"

\* PPP is fed for a DCE that has not been freed, and that one has its interface.
Owned ==
    /\ dce => netif
    /\ readCb = "ppp" => dce
    /\ \A t \in Tasks : pc[t] = "destroy" => ~dce

\* After DisconnectModem has cut the power only the next ConnectModem switches it on, and
\* that one gets no further than to InitNetwork.
Powerless ==
    \A t \in Tasks : PastCut(t) /\ pc["loop"] \notin {"wakeup", "init"} => modem = "off"

\* So no CONNECT can come, and what was left in the UART was read before the dialling.
Silent ==
    \A t \in Tasks :
        pc[t] = "deinit" => /\ readCb # "ppp" /\ pc["loop"] # "enter"
                            /\ pc["loop"] \in {"dial", "resume"} => rx = {}

NetifInv == Fresh /\ Owned /\ Powerless /\ Silent

\* While the event task rests and the loop task is not in DisconnectModem.
LEMMA NobodyDown ==
    ASSUME pc["event"] = "idle", pc["loop"] \in {"run", "wakeup", "init", "retry"}
    PROVE  /\ \A t \in Tasks : pc[t] \notin {"destroy", "deinit"} /\ ~PastCut(t)
           /\ Powerless /\ Silent
BY DEF PastCut, Disconnecting, DisconnectLabels, Tasks, Powerless, Silent

LEMMA NetifInit == Init => NetifInv
<1>1. Init => pc["event"] = "idle" /\ pc["loop"] = "run"
  BY DEF Init, Tasks, Home
<1>. QED  BY <1>1, NobodyDown DEF Init, NetifInv, Fresh, Owned

LEMMA NobodyDownNext ==
    ASSUME pc'["event"] = "idle", pc'["loop"] \in {"run", "wakeup", "init", "retry"},
           dce' => netif', readCb' = "command", uart' \/ Fresh'
    PROVE  NetifInv'
BY DEF PastCut, Disconnecting, DisconnectLabels, Tasks, NetifInv, Owned, Powerless, Silent, Fresh

\* The steps before the first InitNetwork.
LEMMA FreshNetif ==
    ASSUME Types, ModeInv, NetifInv, ~uart,
           LoopStep \/ EventStep \/ LinkUp \/ LinkLost \/ CarrierLost \/ ConditionsChange
    PROVE  NetifInv'
<1>1. TaskTypes /\ "loop" \in Tasks /\ "event" \in Tasks
  BY DEF Types, Tasks
<1>2. /\ pc["event"] = "idle" /\ ~handler /\ pc["loop"] \in {"run", "wakeup", "init"}
      /\ pc["loop"] = "run" => networkState = "ApState"
      /\ ~dce /\ ppp = "idle" /\ readCb = "command"
  BY DEF NetifInv, Fresh, ModeInv, OffInv
<1>3. CASE TryToConnect
  <2>1. pc'["loop"] = "wakeup" /\ pc'["event"] = "idle"
    BY <1>1, <1>2, <1>3, Mover DEF TryToConnect
  <2>2. UNCHANGED <<dce, netif, readCb, uart, handler>>
    BY <1>3 DEF TryToConnect, dceVars, uartVars, pppVars, ipVars
  <2>. QED  BY <1>2, <2>1, <2>2, NobodyDownNext DEF Fresh
<1>4. CASE Wakeup
  <2>1. pc'["loop"] = "init" /\ pc'["event"] = "idle"
    BY <1>1, <1>2, <1>4, Mover DEF Wakeup
  <2>2. UNCHANGED <<dce, netif, readCb, uart, handler>>
    BY <1>4 DEF Wakeup, dceVars, uartVars, pppVars, ipVars
  <2>. QED  BY <1>2, <2>1, <2>2, NobodyDownNext DEF Fresh
<1>5. CASE InitNetwork
  <2>1. CASE \E cause \in {"again", "sim"} : AbortInit(cause)
    <3>1. UNCHANGED <<pc, networkState, dce, netif, readCb, uart, handler>>
      BY <2>1 DEF AbortInit, appVars, taskVars, dceVars, uartVars, pppVars, ipVars
    <3>. QED  BY <1>2, <3>1, NobodyDownNext DEF Fresh
  <2>2. CASE ~\E cause \in {"again", "sim"} : AbortInit(cause)
    <3>1. Goto("loop", "retry") /\ netif' /\ uart' /\ readCb' = "command"
      BY <1>5, <2>2 DEF InitNetwork
    <3>2. pc'["loop"] = "retry" /\ pc'["event"] = "idle"
      BY <1>1, <1>2, <3>1, Mover
    <3>. QED  BY <3>1, <3>2, NobodyDownNext
  <2>. QED  BY <2>1, <2>2
<1>6. CASE HandleIPEvent
  <2>1. pc'["event"] = "idle" /\ pc'["loop"] = pc["loop"]
    BY <1>1, <1>2, <1>6, Mover DEF HandleIPEvent
  <2>2. UNCHANGED <<networkState, dce, netif, readCb, uart, handler>>
    BY <1>6 DEF HandleIPEvent, appVars, dceVars, uartVars, pppVars
  <2>. QED  BY <1>2, <2>1, <2>2, NobodyDownNext DEF Fresh
<1>7. CASE CarrierLost \/ ConditionsChange
  <2>1. UNCHANGED <<pc, networkState, dce, netif, readCb, uart, handler>>
    BY <1>7 DEF CarrierLost, ConditionsChange, appVars, taskVars, dceVars, uartVars, pppVars, ipVars
  <2>. QED  BY <1>2, <2>1, NobodyDownNext DEF Fresh
\* The others need a DCE, a PPP session, or a task that is somewhere else.
<1>8. ~(LinkUp \/ LinkLost)
  BY <1>2 DEF LinkUp, LinkLost
<1>9. \A t \in Tasks : ~Stop(t) /\ ~Disconnect(t) /\ ~UseFreedDce(t)
  BY <1>2 DEF Stop, StopNetwork, ExitData, Escape, Disconnect, TestPower, CutPower, Deinit, Destroy,
     UseFreedDce, NeedsDce, Tasks
<1>10. ~(TimeOut \/ GiveUp \/ SetOnLine \/ SetOffLine)
  BY <1>2 DEF TimeOut, GiveUp, SetOnLine, SetOffLine
<1>11. Connect => Wakeup \/ InitNetwork
  BY <1>2 DEF Connect, Retry, CheckSync, CheckSyncAgain, Reset, CheckSignal, StartNetwork,
     SetPdpContext, Dial, Resume, EnterData, Ask
<1>. QED  BY <1>1, <1>3, <1>4, <1>5, <1>6, <1>7, <1>8, <1>9, <1>10, <1>11 DEF LoopStep, EventStep

\* A modem without power leaves nothing in the UART that was read, and only an answer
\* that was there before can be taken for its own.
LEMMA CommandOff ==
    ASSUME NEW t, NEW cmd, NEW result, Command(t, cmd, result), modem = "off"
    PROVE  /\ modem' = "off"
           /\ readCb = "command" => rx' = {}
           /\ rx = {} => result = "TIMEOUT" /\ rx' = {}
<1>1. PICK answer \in Answers(cmd), delayed \in BOOLEAN :
         LET misled == Verdict(rx, Pass[cmd]) # "TIMEOUT"
             heard == IF misled \/ delayed THEN rx ELSE rx \cup answer.text
         IN  /\ modem' = answer.mode
             /\ IF readCb = "command"
                THEN /\ result = Verdict(heard, Pass[cmd])
                     /\ rx' = IF misled \/ delayed THEN answer.text ELSE {}
                ELSE /\ result = "TIMEOUT"
                     /\ UNCHANGED rx
  BY DEF Command
<1>2. answer.text = {} /\ answer.mode = "off"
  BY DEF Answers, Reply
<1>3. Verdict({}, Pass[cmd]) = "TIMEOUT"
  BY DEF Verdict
<1>4. rx = {} => rx \cup answer.text = {}
  BY <1>2
<1>. QED  BY <1>1, <1>2, <1>3, <1>4

\* Steps that neither begin nor end anything of the above.
LEMMA SameNetif ==
    ASSUME TaskTypes, NetifInv, NEW t \in Tasks, NEW label, Goto(t, label),
           \A u \in Tasks : u # t => back'[u] = back[u],
           uart', UNCHANGED <<dce, netif, readCb>>, modem = "off" => modem' = "off",
           rx' = rx \/ rx' = {},
           label \notin {"deinit", "destroy", "dial", "resume", "enter"},
           PastCut(t)' => PastCut(t),
           pc["loop"] \in {"wakeup", "init"} => t = "event"
    PROVE  NetifInv'
<1>1. pc'[t] = label /\ \A u \in Tasks : u # t => pc'[u] = pc[u]
  BY Mover
<1>2. \A u \in Tasks : PastCut(u)' => PastCut(u)
  BY <1>1 DEF PastCut, Disconnecting
<1>3. Fresh' /\ Owned'
  BY <1>1 DEF NetifInv, Fresh, Owned
<1>4. Powerless'
  BY <1>1, <1>2 DEF NetifInv, Powerless, Tasks
<1>5. Silent'
  BY <1>1 DEF NetifInv, Silent, Tasks
<1>. QED  BY <1>3, <1>4, <1>5 DEF NetifInv

\* A command of ConnectModem, which DisconnectModem on the event task may overtake.
LEMMA AskNetif ==
    ASSUME Types, BackOK, ModeInv, NetifInv, uart,
           NEW label \in {"sync", "sync2", "reset", "signal", "pdp", "dial", "resume"},
           NEW cmd, NEW whenOk, NEW otherwise, Ask(label, cmd, whenOk, otherwise),
           whenOk \in {"signal", "retry", "start", "dial", "enter"},
           otherwise \in {"stop", "reset", "retry", "resume"},
           otherwise = "stop" => back'["loop"] = "sync2",
           whenOk = "dial" => label = "pdp",
           whenOk = "enter" \/ otherwise = "resume" => label \in {"dial", "resume"},
           UNCHANGED back \/ back' = [back EXCEPT !["loop"] = "sync2"], UNCHANGED dce
    PROVE  NetifInv'
<1>1. PICK result \in Results : /\ Command("loop", cmd, result)
                                /\ Goto("loop", IF result = "OK" THEN whenOk ELSE otherwise)
  BY DEF Ask
<1>2. TaskTypes /\ "loop" \in Tasks /\ "event" \in Tasks /\ pc["loop"] = label /\ dce
  BY DEF Types, Tasks, Ask
<1>3. /\ pc'["loop"] = IF result = "OK" THEN whenOk ELSE otherwise
      /\ pc'["event"] = pc["event"]
  BY <1>1, <1>2, Mover DEF Tasks
<1>4. UNCHANGED <<uart, netif, readCb, dce>>
  BY DEF Ask, pppVars
<1>5. back'["event"] = back["event"]
  BY <1>2 DEF TaskTypes
<1>6. /\ PastCut("event")' = PastCut("event")
      /\ ~PastCut("loop")'
  BY <1>2, <1>3, <1>5 DEF PastCut, Disconnecting, DisconnectLabels, ConnectLabels
<1>7. label \in {"pdp", "dial", "resume"} => readCb = "command"
  BY <1>2 DEF ModeInv, SetInv
<1>8. Fresh' /\ Owned'
  BY <1>2, <1>3, <1>4 DEF NetifInv, Fresh, Owned, Tasks
<1>9. Powerless'
  BY <1>1, <1>2, <1>6, CommandOff DEF NetifInv, Powerless, Tasks
<1>10. Silent'
  <2>. SUFFICES ASSUME pc["event"] = "deinit"
                PROVE  /\ readCb # "ppp" /\ pc'["loop"] # "enter"
                       /\ pc'["loop"] \in {"dial", "resume"} => rx' = {}
    BY <1>3, <1>4 DEF Silent, Tasks
  <2>1. PastCut("event")
    BY DEF PastCut, Disconnecting, DisconnectLabels, ConnectLabels
  <2>2. modem = "off"
    BY <1>2, <2>1 DEF NetifInv, Powerless
  <2>3. readCb # "ppp" /\ (label \in {"dial", "resume"} => rx = {})
    BY <1>2 DEF NetifInv, Silent
  <2>4. /\ readCb = "command" => rx' = {}
        /\ rx = {} => result = "TIMEOUT" /\ rx' = {}
    BY <1>1, <2>2, CommandOff
  <2>. QED  BY <1>3, <1>7, <2>3, <2>4
<1>. QED  BY <1>8, <1>9, <1>10 DEF NetifInv

LEMMA ConnectNetif ==
    ASSUME Types, BackOK, ModeInv, NetifInv, uart, Connect
    PROVE  NetifInv'
<1>1. TaskTypes /\ "loop" \in Tasks /\ "event" \in Tasks
  BY DEF Types, Tasks
<1>2. CASE Wakeup
  <2>1. pc'["loop"] = "init" /\ pc'["event"] = pc["event"] /\ pc["loop"] = "wakeup"
    BY <1>1, <1>2, Mover DEF Wakeup
  <2>2. UNCHANGED <<back, dce, netif, readCb, uart, rx>>
    BY <1>2 DEF Wakeup, dceVars, uartVars, pppVars
  <2>3. Fresh' /\ Owned' /\ Powerless' /\ Silent'
    BY <2>1, <2>2 DEF NetifInv, Fresh, Owned, Powerless, Silent, Tasks
  <2>. QED  BY <2>3 DEF NetifInv
<1>3. CASE InitNetwork
  <2>1. UNCHANGED <<networkState, pc, back, dce, netif, readCb, uart, rx, handler, modem>>
    BY <1>3 DEF InitNetwork, AbortInit, appVars, taskVars, dceVars, uartVars, pppVars, ipVars, modemVars
  <2>. QED  BY <2>1 DEF NetifInv, Fresh, Owned, Powerless, Silent, PastCut, Disconnecting
<1>4. CASE Retry \/ StartNetwork
  <2>1. PICK label \in {"run", "sync", "retry", "pdp"} : Goto("loop", label)
    BY <1>4 DEF Retry, StartNetwork
  <2>2. pc["loop"] \in {"retry", "start"}
        /\ UNCHANGED <<back, dce, netif, readCb, uart, rx, modem>>
    BY <1>4 DEF Retry, StartNetwork, dceVars, uartVars, pppVars, modemVars
  <2>3. ~PastCut("loop")'
    BY <1>1, <2>1, Mover DEF PastCut, Disconnecting, DisconnectLabels
  <2>. QED  BY <1>1, <2>1, <2>2, <2>3, SameNetif
<1>5. CASE CheckSync
  <2>1. back'["loop"] = "sync2"
    BY <1>1, <1>5 DEF CheckSync, TaskTypes
  <2>. QED  BY <1>5, <2>1, AskNetif DEF CheckSync, dceVars
<1>6. CASE CheckSyncAgain
  BY <1>6, AskNetif DEF CheckSyncAgain, dceVars
<1>7. CASE Reset
  BY <1>7, AskNetif DEF Reset, dceVars
<1>8. CASE CheckSignal
  <2>1. PICK whenOk \in {"start", "retry"} : Ask("signal", "CSQ", whenOk, "retry")
    BY <1>8 DEF CheckSignal
  <2>. QED  BY <1>8, <2>1, AskNetif DEF CheckSignal, dceVars
<1>9. CASE SetPdpContext
  BY <1>9, AskNetif DEF SetPdpContext
<1>10. CASE Dial
  BY <1>10, AskNetif DEF Dial, dceVars
<1>11. CASE Resume
  BY <1>11, AskNetif DEF Resume
<1>12. CASE EnterData
  <2>1. pc'["loop"] = "retry" /\ pc'["event"] = pc["event"] /\ pc["loop"] = "enter"
    BY <1>1, <1>12, Mover DEF EnterData
  <2>2. dce /\ UNCHANGED <<back, dce, netif, uart, modem>>
    BY <1>12 DEF EnterData, modemVars
  <2>3. Fresh' /\ Owned'
    BY <2>1, <2>2 DEF NetifInv, Fresh, Owned, Tasks
  <2>4. Powerless'
    BY <2>1, <2>2 DEF NetifInv, Powerless, PastCut, Disconnecting, DisconnectLabels, Tasks
  <2>5. Silent'
    BY <2>1 DEF NetifInv, Silent, Tasks
  <2>. QED  BY <2>3, <2>4, <2>5 DEF NetifInv
<1>. QED  BY <1>2, <1>3, <1>4, <1>5, <1>6, <1>7, <1>8, <1>9, <1>10, <1>11, <1>12 DEF Connect

\* modem_stop_network of DisconnectModem returns with a read callback that is not PPP's,
\* and with the lock, so that ConnectModem is not between dialling and Netif::start.
LEMMA StopNetif ==
    ASSUME Types, BackOK, ModeInv, NetifInv, uart, NEW t \in Tasks, Stop(t)
    PROVE  NetifInv'
<1>1. TaskTypes /\ "loop" \in Tasks /\ "event" \in Tasks
  BY DEF Types, Tasks
<1>2. /\ pc[t] \in {"stop", "exit", "escape"} /\ dce
      /\ UNCHANGED <<back, dce, netif, uart>>
  BY DEF Stop, StopNetwork, ExitData, Escape, pppVars
<1>3. PICK label \in {"exit", "escape", back[t]} : Goto(t, label)
  <2>1. ExitData(t) => \E label \in {"exit", "escape", back[t]} : Goto(t, label)
    BY DEF ExitData
  <2>2. StopNetwork(t) => \E label \in {"exit", "escape", back[t]} : Goto(t, label)
    BY DEF StopNetwork
  <2>3. Escape(t) => \E label \in {"exit", "escape", back[t]} : Goto(t, label)
    BY DEF Escape
  <2>. QED  BY <2>1, <2>2, <2>3 DEF Stop
<1>4. pc'[t] = label /\ \A u \in Tasks : u # t => pc'[u] = pc[u]
  BY <1>1, <1>3, Mover
<1>5. label \in {"exit", "escape", "sync2", "deinit"}
      /\ (label = "sync2" => back[t] = "sync2") /\ (label = "deinit" => back[t] = "deinit")
  BY <1>1 DEF TaskTypes
<1>6. \A u \in Tasks : PastCut(u)' => PastCut(u)
  BY <1>1, <1>2, <1>4, <1>5 DEF PastCut, Disconnecting, DisconnectLabels, ConnectLabels, TaskTypes
<1>7. pc[t] = "stop" => lock = Free
  BY DEF Stop, StopNetwork, ExitData, Escape
<1>8. pc[t] \in {"exit", "escape"} => lock = t
  BY DEF ModeInv, LockInv, Locked
<1>9. pc["loop"] \notin {"pdp", "dial", "resume", "enter"}
  BY <1>2, <1>7, <1>8 DEF ModeInv, LockInv, Locked, Tasks, Free
<1>10. readCb' # "ppp" \/ (readCb' = readCb /\ label # "deinit")
  <2>1. CASE StopNetwork(t)
    <3>1. CASE dceMode = "COMMAND"
      <4>1. readCb = "command" /\ readCb' = readCb
        BY <2>1, <3>1 DEF StopNetwork, ModeInv, FreeInv
      <4>. QED  BY <4>1
    <3>2. CASE dceMode # "COMMAND"
      BY <2>1, <3>2 DEF StopNetwork
    <3>. QED  BY <3>1, <3>2
  <2>2. CASE ExitData(t)
    BY <2>2 DEF ExitData
  <2>3. CASE Escape(t)
    <3>1. readCb = "command" /\ readCb' = readCb
      BY <2>3 DEF Escape, ModeInv, SetInv
    <3>. QED  BY <3>1
  <2>. QED  BY <2>1, <2>2, <2>3 DEF Stop
<1>11. modem = "off" => modem' = "off"
  <2>1. StopNetwork(t) \/ ExitData(t) => (modem = "off" => modem' = "off")
    BY DEF StopNetwork, ExitData, modemVars
  <2>2. Escape(t) => (modem = "off" => modem' = "off")
    BY CommandOff DEF Escape
  <2>. QED  BY <2>1, <2>2 DEF Stop
<1>12. Fresh' /\ Owned'
  BY <1>2, <1>4, <1>5 DEF NetifInv, Fresh, Owned
<1>13. Powerless'
  <2>1. pc'["loop"] \notin {"wakeup", "init"} => pc["loop"] \notin {"wakeup", "init"}
    BY <1>1, <1>2, <1>4
  <2>. QED  BY <1>6, <1>11, <2>1 DEF NetifInv, Powerless
<1>14. Silent'
  <2>1. pc'["loop"] \notin {"dial", "resume", "enter"}
    BY <1>1, <1>4, <1>5, <1>9
  <2>2. ASSUME NEW u \in Tasks, pc'[u] = "deinit"
        PROVE  readCb' # "ppp"
    <3>1. CASE u = t
      BY <1>4, <1>10, <2>2, <3>1
    <3>2. CASE u # t
      BY <1>4, <1>10, <2>2, <3>2 DEF NetifInv, Silent
    <3>. QED  BY <3>1, <3>2
  <2>. QED  BY <2>1, <2>2 DEF Silent
<1>. QED  BY <1>12, <1>13, <1>14 DEF NetifInv

LEMMA DisconnectNetif ==
    ASSUME Types, ModeInv, NetifInv, uart, NEW t \in Tasks, Disconnect(t)
    PROVE  NetifInv'
<1>1. TaskTypes /\ "loop" \in Tasks /\ "event" \in Tasks
  BY DEF Types, Tasks
<1>2. PICK label : Goto(t, label)
  BY DEF Disconnect, TestPower, CutPower, Deinit, Destroy
<1>3. pc'[t] = label /\ \A u \in Tasks : u # t => pc'[u] = pc[u]
  BY <1>1, <1>2, Mover
<1>4. uart' = uart /\ readCb' = readCb /\ rx' = rx
  BY DEF Disconnect, TestPower, CutPower, Deinit, Destroy, uartVars
<1>5. pc["loop"] \in {"wakeup", "init"} => t = "event"
  BY DEF Disconnect, TestPower, CutPower, Deinit, Destroy, Tasks
<1>6. CASE TestPower(t)
  <2>1. PICK next \in {"cut", Home(t)} : Goto(t, next)
    BY <1>6 DEF TestPower
  <2>2. next \in {"cut", "run", "idle"}
    BY DEF Home
  <2>3. ~PastCut(t)'
    BY <1>1, <2>1, <2>2, Mover DEF PastCut, Disconnecting, DisconnectLabels
  <2>4. UNCHANGED <<back, dce, netif, modem>>
    BY <1>6 DEF TestPower, dceVars, pppVars, modemVars
  <2>. QED  BY <1>1, <1>4, <1>5, <2>1, <2>2, <2>3, <2>4, SameNetif
<1>7. CASE CutPower(t)
  <2>1. pc'[t] = "stop" /\ pc[t] = "cut"
    BY <1>1, <1>7, Mover DEF CutPower
  <2>2. modem' = "off" /\ UNCHANGED <<dce, netif>>
    BY <1>7 DEF CutPower, dceVars, pppVars
  <2>3. Fresh' /\ Owned'
    BY <1>3, <1>4, <2>1, <2>2 DEF NetifInv, Fresh, Owned
  <2>4. Powerless'
    BY <2>2 DEF Powerless
  <2>5. Silent'
    BY <1>3, <1>4, <2>1 DEF NetifInv, Silent, Tasks
  <2>. QED  BY <2>3, <2>4, <2>5 DEF NetifInv
<1>8. CASE Deinit(t)
  <2>1. pc'[t] = "destroy" /\ pc[t] = "deinit"
    BY <1>1, <1>8, Mover DEF Deinit
  <2>2. ~dce' /\ UNCHANGED <<back, netif, modem>>
    BY <1>8 DEF Deinit, pppVars, modemVars
  <2>3. readCb # "ppp"
    BY <2>1 DEF NetifInv, Silent
  <2>4. Fresh' /\ Owned'
    BY <1>4, <2>2, <2>3 DEF Fresh, Owned
  <2>5. \A u \in Tasks : PastCut(u)' => PastCut(u)
    BY <1>3, <2>1, <2>2 DEF PastCut, Disconnecting, DisconnectLabels, ConnectLabels
  <2>6. Powerless'
    BY <1>3, <2>1, <2>2, <2>5 DEF NetifInv, Powerless, Tasks
  <2>7. Silent'
    BY <1>3, <1>4, <2>1 DEF NetifInv, Silent, Tasks
  <2>. QED  BY <2>4, <2>6, <2>7 DEF NetifInv
<1>9. CASE Destroy(t)
  <2>1. pc'[t] = Home(t) /\ pc[t] = "destroy"
    BY <1>1, <1>9, Mover DEF Destroy
  <2>2. ~dce /\ UNCHANGED <<back, dce, modem>>
    BY <1>9, <2>1 DEF Destroy, dceVars, modemVars, NetifInv, Owned
  <2>3. Fresh' /\ Owned'
    BY <1>4, <2>2 DEF NetifInv, Fresh, Owned
  <2>4. \A u \in Tasks : PastCut(u)' => PastCut(u)
    BY <1>3, <2>1, <2>2 DEF PastCut, Disconnecting, DisconnectLabels, ConnectLabels, Home
  <2>5. Powerless'
    BY <1>3, <2>1, <2>2, <2>4 DEF NetifInv, Powerless, Tasks
  <2>6. Silent'
    BY <1>3, <1>4, <2>1 DEF NetifInv, Silent, Tasks, Home
  <2>. QED  BY <2>3, <2>5, <2>6 DEF NetifInv
<1>. QED  BY <1>6, <1>7, <1>8, <1>9 DEF Disconnect

LEMMA StateNetif ==
    ASSUME Types, BackOK, NetifInv, uart,
           TryToConnect \/ TimeOut \/ GiveUp \/ HandleIPEvent \/ SetOnLine \/ SetOffLine
    PROVE  NetifInv'
<1>1. TaskTypes /\ "loop" \in Tasks /\ "event" \in Tasks
  BY DEF Types, Tasks
<1>2. UNCHANGED <<back, dce, netif, readCb, uart, rx, modem>>
  BY DEF TryToConnect, TimeOut, GiveUp, HandleIPEvent, SetOnLine, SetOffLine, dceVars, uartVars,
     pppVars, modemVars
<1>3. PICK t \in Tasks, label \in {"wakeup", "giveUp", "disconnect", "run",
                                   "idle", "setOnLine", "setOffLine"} :
         Goto(t, label) /\ (t = "loop" => pc["loop"] \in {"run", "giveUp"})
  BY <1>1 DEF TryToConnect, TimeOut, GiveUp, HandleIPEvent, SetOnLine, SetOffLine
<1>4. ~PastCut(t)'
  BY <1>1, <1>3, Mover DEF PastCut, Disconnecting, DisconnectLabels
<1>5. pc["loop"] \in {"wakeup", "init"} => t = "event"
  BY <1>3 DEF Tasks
<1>. QED  BY <1>1, <1>2, <1>3, <1>4, <1>5, SameNetif

LEMMA EnvNetif ==
    ASSUME NetifInv, uart,
           \/ LinkUp \/ LinkLost \/ CarrierLost \/ ConditionsChange
           \/ \E t \in Tasks : UseFreedDce(t)
    PROVE  NetifInv'
<1>1. UNCHANGED <<pc, back, dce, netif, readCb, uart>>
  BY DEF LinkUp, LinkLost, CarrierLost, ConditionsChange, UseFreedDce, taskVars, dceVars, uartVars, pppVars
<1>2. /\ modem = "off" => modem' = "off"
      /\ rx' = rx \/ modem = "data"
  BY DEF LinkUp, LinkLost, CarrierLost, ConditionsChange, UseFreedDce, uartVars, modemVars
<1>3. \A t \in Tasks : PastCut(t)' = PastCut(t)
  BY <1>1 DEF PastCut, Disconnecting
<1>4. Fresh' /\ Owned' /\ Powerless'
  BY <1>1, <1>2, <1>3 DEF NetifInv, Fresh, Owned, Powerless
<1>5. Silent'
  <2>. SUFFICES ASSUME NEW t \in Tasks, pc[t] = "deinit", pc["loop"] \in {"dial", "resume"}
                PROVE  rx' = {}
    BY <1>1 DEF NetifInv, Silent
  <2>1. modem = "off"
    BY DEF NetifInv, Powerless, PastCut, Disconnecting, DisconnectLabels, ConnectLabels
  <2>. QED  BY <1>2, <2>1 DEF NetifInv, Silent
<1>. QED  BY <1>4, <1>5 DEF NetifInv

LEMMA NetifStep ==
    ASSUME Types, BackOK, ModeInv, NetifInv, [Next]_vars
    PROVE  NetifInv'
<1>1. CASE Restart
  <2>1. pc'["event"] = "idle" /\ pc'["loop"] = "run"
    BY <1>1 DEF Restart, Tasks, Home
  <2>2. ~dce' /\ readCb' = "command" /\ Fresh'
    BY <1>1, <2>1 DEF Restart, Fresh
  <2>. QED  BY <2>1, <2>2, NobodyDownNext
<1>2. CASE UNCHANGED vars
  BY <1>2 DEF vars, appVars, taskVars, dceVars, uartVars, pppVars, ipVars, modemVars, NetifInv, Fresh,
     Owned, Powerless, Silent, PastCut, Disconnecting
<1>3. CASE LoopStep \/ EventStep \/ LinkUp \/ LinkLost \/ CarrierLost \/ ConditionsChange
  <2>1. CASE ~uart
    BY <1>3, <2>1, FreshNetif
  <2>2. CASE uart
    BY <1>3, <2>2, ConnectNetif, StopNetif, DisconnectNetif, StateNetif, EnvNetif
       DEF LoopStep, EventStep, Tasks
  <2>. QED  BY <2>1, <2>2 DEF Types, UartTypes
<1>. QED  BY <1>1, <1>2, <1>3 DEF Next, Running

\* No step destroys the interface under PPP (IOT.cpp:1014), whichever task does it and
\* whatever the other one is doing: PPP ends before the DCE is freed, and a modem
\* without power lets nobody start it again.
THEOREM NetifIsNotDestroyedUnderPpp == Spec => []NetifOutlivesPpp
<1>1. Init => Types /\ BackOK /\ ModeInv /\ NetifInv
  BY TypesInit, ModeInit, NetifInit
<1>2. Types /\ BackOK /\ ModeInv /\ NetifInv /\ [Next]_vars
         => (Types /\ BackOK /\ ModeInv /\ NetifInv)'
  BY TypesStep, ModeStep, NetifStep
<1>3. NetifInv => NetifOutlivesPpp
  BY DEF NetifInv, Owned, NetifOutlivesPpp
<1>. QED  BY <1>1, <1>2, <1>3, PTL DEF Spec

(***************************************************************************)
(* A modem that was just switched on and answers at once                   *)
(***************************************************************************)
\* Before InitNetwork,
Unused ==
    /\ ~uart /\ ~netif /\ ~dce /\ ~handler
    /\ events = <<>> /\ pc["event"] = "idle" /\ ppp = "idle" /\ lock = Free

\* ... ready for a command, ...
Waiting ==
    /\ dceMode # "DATA" /\ ppp = "idle" /\ modem = "command" /\ readCb = "command" /\ rx = {}

\* ... with the network started, ...
Started ==
    /\ dceMode = "DATA" /\ ppp \in {"starting", "up"} /\ modem = "data"
    /\ readCb = "ppp" /\ rx = {}

\* ... and on the way back to command mode.
Stopping ==
    /\ ppp = "idle" /\ back["loop"] = "sync2"
    /\ (modem = "data" /\ rx = {}) \/ (modem = "command" /\ rx = {"NO CARRIER"})

\* The first and the third attempt start the network, the second stops it.
Starts == retryCount \in {0, 2}

StepsToStart ==
    /\ pc["loop"] \in {"sync", "signal", "start", "pdp", "dial", "enter"}
    /\ Starts
    /\ lock = IF pc["loop"] \in {"pdp", "dial", "enter"} THEN "loop" ELSE Free
    /\ IF pc["loop"] = "enter" THEN modem = "data" /\ ppp = "idle" ELSE Waiting

StepsToStop ==
    /\ ~Starts
    /\ \/ pc["loop"] = "sync" /\ Started /\ lock = Free
       \/ pc["loop"] = "stop" /\ Started /\ lock = Free /\ back["loop"] = "sync2"
       \/ pc["loop"] = "exit" /\ Stopping /\ readCb = "exit" /\ lock = "loop"
       \/ pc["loop"] = "escape" /\ Stopping /\ modem = "data" /\ readCb = "command" /\ lock = "loop"
       \/ pc["loop"] = "sync2" /\ Waiting /\ lock = Free

Between ==
    /\ pc["loop"] = "retry" /\ lock = Free
    /\ IF Starts THEN Started ELSE Waiting

Returned == pc["loop"] = "run" /\ Started /\ lock = Free

Healthy ==
    /\ crash = "none"
    /\ pc["event"] \in {"idle", "setOnLine"} /\ events \in Seq({"GotIp"})
    /\ \/ pc["loop"] = "run" /\ networkState = "ApState" /\ Unused /\ modem = "off"
       \/ pc["loop"] = "wakeup" /\ networkState = "Connecting" /\ Unused /\ modem = "off"
       \/ pc["loop"] = "init" /\ networkState = "Connecting" /\ Unused /\ modem = "command"
       \/ /\ networkState \in {"Connecting", "OnLine"} /\ uart /\ netif /\ dce /\ handler
          /\ StepsToStart \/ StepsToStop \/ Between \/ Returned

\* Nothing is left in the UART, nothing is late: the answer is the one to the command.
LEMMA GoodAnswer ==
    ASSUME good, NEW t, NEW cmd, NEW result, Command(t, cmd, result),
           readCb = "command", rx = {}
    PROVE  \E answer \in Answers(cmd) :
              modem' = answer.mode /\ result = Verdict(answer.text, Pass[cmd]) /\ rx' = {}
<1>1. Verdict(rx, Pass[cmd]) = "TIMEOUT"
  BY DEF Verdict
<1>2. (IF good THEN {FALSE} ELSE BOOLEAN) = {FALSE}
  OBVIOUS
<1>3. PICK answer \in Answers(cmd), delayed \in IF good THEN {FALSE} ELSE BOOLEAN :
         LET misled == Verdict(rx, Pass[cmd]) # "TIMEOUT"
             heard == IF misled \/ delayed THEN rx ELSE rx \cup answer.text
         IN  /\ modem' = answer.mode
             /\ IF readCb = "command"
                THEN /\ result = Verdict(heard, Pass[cmd])
                     /\ rx' = IF misled \/ delayed THEN answer.text ELSE {}
                ELSE /\ result = "TIMEOUT"
                     /\ UNCHANGED rx
  BY Zenon DEF Command
<1>4. rx \cup answer.text = answer.text
  OBVIOUS
<1>5. ~delayed
  BY <1>2
<1>6. modem' = answer.mode /\ rx' = {} /\ result = Verdict(answer.text, Pass[cmd])
  BY <1>1, <1>3, <1>4, <1>5
<1>. QED  BY <1>6

LEMMA GoodCommand ==
    ASSUME good, NEW t, NEW cmd, NEW result, Command(t, cmd, result), rx = {}
    PROVE  /\ Waiting /\ cmd \in {"AT", "CSQ", "PDP"} =>
                  result = "OK" /\ modem' = "command" /\ rx' = {}
           /\ Waiting /\ cmd = "ATD" => result = "OK" /\ modem' = "data" /\ rx' = {}
           /\ modem = "data" /\ readCb = "command" /\ cmd = "ESCAPE" =>
                  result = "OK" /\ modem' = "command" /\ rx' = {}
<1>. DEFINE Word(word) == Reply({word}, IF word = "CONNECT" THEN "data" ELSE "command")
<1>1. ASSUME NEW word \in Pass[cmd], NEW answer, answer = Word(word)
      PROVE  /\ Verdict(answer.text, Pass[cmd]) = "OK"
             /\ answer.mode = IF word = "CONNECT" THEN "data" ELSE "command"
  <2>1. answer.text = {word} /\ word \in answer.text \cap Pass[cmd]
    BY <1>1 DEF Reply
  <2>. QED  BY <1>1, <2>1 DEF Verdict, Reply
<1>2. ASSUME Waiting, cmd # "ESCAPE", NEW answer \in Answers(cmd)
      PROVE  \E word \in Pass[cmd] : answer = Word(word)
  BY <1>2 DEF Answers, Waiting
<1>3. CASE Waiting /\ cmd \in {"AT", "CSQ", "PDP"}
  <2>1. Pass["AT"] = {"OK"} /\ Pass["CSQ"] = {"OK"} /\ Pass["PDP"] = {"OK"}
    BY DEF Pass
  <2>2. Pass[cmd] = {"OK"}
    BY <1>3, <2>1
  <2>. QED  BY <1>1, <1>2, <1>3, <2>2, GoodAnswer DEF Waiting
<1>4. CASE Waiting /\ cmd = "ATD"
  <2>1. Pass[cmd] = {"CONNECT"}
    BY <1>4 DEF Pass
  <2>. QED  BY <1>1, <1>2, <1>4, <2>1, GoodAnswer DEF Waiting
<1>5. CASE modem = "data" /\ readCb = "command" /\ cmd = "ESCAPE"
  <2>1. "OK" \in Pass[cmd]
    BY <1>5 DEF Pass
  <2>2. \A answer \in Answers(cmd) : answer = Word("OK")
    BY <1>5 DEF Answers
  <2>. QED  BY <1>1, <1>5, <2>1, <2>2, GoodAnswer DEF Waiting
<1>. QED  BY <1>3, <1>4, <1>5 DEF Waiting

\* PPP has the terminal: a command hears nothing, and the modem takes it for data.
LEMMA UnheardCommand ==
    ASSUME Started, NEW t, NEW result, Command(t, "AT", result)
    PROVE  result = "TIMEOUT" /\ modem' = "data" /\ rx' = rx
<1>1. \A answer \in Answers("AT") : answer.mode = "data"
  BY DEF Answers, Started, Reply
<1>. QED  BY <1>1 DEF Command, Started

LEMMA HealthyAsk ==
    ASSUME Types, Healthy, good, NEW label, NEW cmd, NEW whenOk, NEW otherwise,
           Ask(label, cmd, whenOk, otherwise)
    PROVE  /\ \E result : Command("loop", cmd, result)
                  /\ pc'["loop"] = IF result = "OK" THEN whenOk ELSE otherwise
           /\ pc["loop"] = label /\ pc'["event"] = pc["event"]
           /\ UNCHANGED <<appVars, uart, readCb, pppVars, ipVars, crash>>
<1>1. PICK result \in Results : /\ Command("loop", cmd, result)
                                /\ Goto("loop", IF result = "OK" THEN whenOk ELSE otherwise)
  BY DEF Ask
<1>2. TaskTypes /\ "loop" \in Tasks /\ "event" \in Tasks
  BY DEF Types, Tasks
<1>3. /\ pc'["loop"] = IF result = "OK" THEN whenOk ELSE otherwise
      /\ pc'["event"] = pc["event"]
  BY <1>1, <1>2, Mover
<1>. QED  BY <1>1, <1>3 DEF Ask

\* The label of the loop task and the DCE that is there decide which step comes next.
LEMMA LoopDispatch ==
    ASSUME LoopStep, dce
    PROVE  /\ pc["loop"] = "sync" => CheckSync
           /\ pc["loop"] = "signal" => CheckSignal
           /\ pc["loop"] = "start" => StartNetwork
           /\ pc["loop"] = "pdp" => SetPdpContext
           /\ pc["loop"] = "dial" => Dial
           /\ pc["loop"] = "enter" => EnterData
           /\ pc["loop"] = "retry" => Retry
           /\ pc["loop"] = "stop" => StopNetwork("loop")
           /\ pc["loop"] = "exit" => ExitData("loop")
           /\ pc["loop"] = "escape" => Escape("loop")
           /\ pc["loop"] = "sync2" => CheckSyncAgain
           /\ pc["loop"] = "run" => TryToConnect \/ TimeOut
BY DEF LoopStep, Connect, Stop, Disconnect, TryToConnect, Wakeup, InitNetwork, Retry, CheckSync,
       CheckSyncAgain, Reset, CheckSignal, StartNetwork, SetPdpContext, Dial, Resume, EnterData,
       TimeOut, GiveUp, StopNetwork, ExitData, Escape, TestPower, CutPower, Deinit, Destroy,
       UseFreedDce, Ask

\* The attempts that start the network: the commands are answered and nothing else is tried.
LEMMA HealthyStart ==
    ASSUME Types, Healthy, good, StepsToStart, LoopStep
    PROVE  Healthy'
<1>. USE DEF appVars, uartVars, pppVars, ipVars, modemVars, dceVars
<1>1. /\ TaskTypes /\ "loop" \in Tasks /\ "event" \in Tasks
      /\ retryCount \in 0 .. 3
  BY DEF Types, Tasks, AppTypes
<1>2. /\ networkState \in {"Connecting", "OnLine"} /\ uart /\ netif /\ dce /\ handler
      /\ crash = "none" /\ pc["event"] \in {"idle", "setOnLine"} /\ events \in Seq({"GotIp"})
      /\ Starts
  BY DEF Healthy, StepsToStart
\* What is left to show of a step that leaves the rest alone
<1>3. ASSUME UNCHANGED <<networkState, retryCount, uart, netif, dce, handler, crash, events>>,
             pc'["event"] = pc["event"],
             (StepsToStart \/ Between)'
      PROVE  Healthy'
  BY <1>2, <1>3 DEF Healthy
<1>4. CASE pc["loop"] = "sync"
  <2>1. CheckSync /\ Waiting /\ lock = Free
    BY <1>2, <1>4, LoopDispatch DEF StepsToStart
  <2>2. Ask("sync", "AT", "signal", "stop") /\ UNCHANGED dceVars
    BY <2>1 DEF CheckSync
  <2>3. /\ pc'["loop"] = "signal" /\ pc'["event"] = pc["event"] /\ modem' = "command" /\ rx' = {}
        /\ UNCHANGED <<networkState, retryCount, uart, readCb, netif, ppp, handler, events, crash>>
    BY <2>1, <2>2, HealthyAsk, GoodCommand DEF Waiting
  <2>. QED  BY <1>2, <1>3, <2>1, <2>2, <2>3 DEF StepsToStart, Starts, Waiting
<1>5. CASE pc["loop"] = "signal"
  <2>1. CheckSignal /\ Waiting /\ lock = Free
    BY <1>2, <1>5, LoopDispatch DEF StepsToStart
  <2>2. Ask("signal", "CSQ", "start", "retry") /\ UNCHANGED dceVars
    BY <2>1 DEF CheckSignal, Waiting
  <2>3. /\ pc'["loop"] = "start" /\ pc'["event"] = pc["event"] /\ modem' = "command" /\ rx' = {}
        /\ UNCHANGED <<networkState, retryCount, uart, readCb, netif, ppp, handler, events, crash>>
    BY <2>1, <2>2, HealthyAsk, GoodCommand DEF Waiting
  <2>. QED  BY <1>2, <1>3, <2>1, <2>2, <2>3 DEF StepsToStart, Starts, Waiting
<1>6. CASE pc["loop"] = "start"
  <2>1. StartNetwork /\ Waiting
    BY <1>2, <1>6, LoopDispatch DEF StepsToStart
  <2>2. /\ lock' = "loop" /\ Goto("loop", "pdp")
        /\ UNCHANGED <<networkState, retryCount, uart, netif, dce, dceMode, handler, crash, events,
                       ppp, modem, readCb, rx>>
    BY <2>1 DEF StartNetwork, Waiting
  <2>3. pc'["loop"] = "pdp" /\ pc'["event"] = pc["event"]
    BY <1>1, <2>2, Mover
  <2>. QED  BY <1>2, <1>3, <2>1, <2>2, <2>3 DEF StepsToStart, Starts, Waiting
<1>7. CASE pc["loop"] = "pdp"
  <2>1. SetPdpContext /\ Waiting /\ lock = "loop"
    BY <1>2, <1>7, LoopDispatch DEF StepsToStart
  <2>2. Ask("pdp", "PDP", "dial", "retry") /\ UNCHANGED <<dce, dceMode>>
    BY <2>1 DEF SetPdpContext
  <2>3. /\ pc'["loop"] = "dial" /\ pc'["event"] = pc["event"] /\ modem' = "command" /\ rx' = {}
        /\ UNCHANGED <<networkState, retryCount, uart, readCb, netif, ppp, handler, events, crash>>
    BY <2>1, <2>2, HealthyAsk, GoodCommand DEF Waiting
  <2>4. lock' = "loop"
    BY <2>1, <2>3 DEF SetPdpContext, GiveBack
  <2>. QED  BY <1>2, <1>3, <2>1, <2>2, <2>3, <2>4 DEF StepsToStart, Starts, Waiting
<1>8. CASE pc["loop"] = "dial"
  <2>1. Dial /\ Waiting /\ lock = "loop"
    BY <1>2, <1>8, LoopDispatch DEF StepsToStart
  <2>2. Ask("dial", "ATD", "enter", "resume") /\ UNCHANGED dceVars
    BY <2>1 DEF Dial
  <2>3. /\ pc'["loop"] = "enter" /\ pc'["event"] = pc["event"] /\ modem' = "data"
        /\ UNCHANGED <<networkState, retryCount, uart, readCb, netif, ppp, handler, events, crash>>
    BY <2>1, <2>2, HealthyAsk, GoodCommand DEF Waiting
  <2>. QED  BY <1>2, <1>3, <2>1, <2>2, <2>3 DEF StepsToStart, Starts, Waiting
<1>9. CASE pc["loop"] = "enter"
  <2>1. EnterData /\ modem = "data" /\ ppp = "idle"
    BY <1>2, <1>9, LoopDispatch DEF StepsToStart
  <2>2. /\ Goto("loop", "retry") /\ lock' = Free /\ dceMode' = "DATA"
        /\ readCb' = "ppp" /\ rx' = {} /\ ppp' = "starting" /\ modem' = "data"
        /\ UNCHANGED <<networkState, retryCount, uart, netif, dce, handler, crash, events>>
    BY <2>1 DEF EnterData
  <2>3. pc'["loop"] = "retry" /\ pc'["event"] = pc["event"]
    BY <1>1, <2>2, Mover
  <2>. QED  BY <1>2, <1>3, <2>2, <2>3 DEF Between, Starts, Started
<1>. QED  BY <1>4, <1>5, <1>6, <1>7, <1>8, <1>9 DEF StepsToStart

\* The second attempt, which takes the silence of a started network for a failure.
LEMMA HealthyStop ==
    ASSUME Types, BackOK, Healthy, good, StepsToStop, LoopStep
    PROVE  Healthy'
<1>. USE DEF appVars, uartVars, pppVars, ipVars, modemVars, dceVars
<1>1. /\ TaskTypes /\ "loop" \in Tasks /\ "event" \in Tasks
      /\ retryCount \in 0 .. 3
  BY DEF Types, Tasks, AppTypes
<1>2. /\ networkState \in {"Connecting", "OnLine"} /\ uart /\ netif /\ dce /\ handler
      /\ crash = "none" /\ pc["event"] \in {"idle", "setOnLine"} /\ events \in Seq({"GotIp"})
      /\ ~Starts
  BY DEF Healthy, StepsToStop
<1>3. ASSUME UNCHANGED <<networkState, retryCount, uart, netif, dce, handler, crash, events>>,
             pc'["event"] = pc["event"],
             (StepsToStop \/ Between)'
      PROVE  Healthy'
  BY <1>2, <1>3 DEF Healthy
<1>4. CASE pc["loop"] = "sync"
  <2>1. CheckSync /\ Started /\ lock = Free
    BY <1>2, <1>4, LoopDispatch DEF StepsToStop
  <2>2. /\ Ask("sync", "AT", "signal", "stop") /\ UNCHANGED dceVars
        /\ back'["loop"] = "sync2"
    BY <1>1, <2>1 DEF CheckSync, TaskTypes
  <2>3. /\ pc'["loop"] = "stop" /\ pc'["event"] = pc["event"] /\ modem' = "data"
        /\ rx' = rx
        /\ UNCHANGED <<networkState, retryCount, uart, readCb, netif, ppp, handler, events, crash>>
    BY <2>1, <2>2, HealthyAsk, UnheardCommand
  <2>. QED  BY <1>2, <1>3, <2>1, <2>2, <2>3 DEF StepsToStop, Starts, Started
<1>5. CASE pc["loop"] = "stop"
  <2>1. StopNetwork("loop") /\ Started /\ back["loop"] = "sync2"
    BY <1>2, <1>5, LoopDispatch DEF StepsToStop
  <2>2. /\ lock' = "loop" /\ readCb' = "exit" /\ ppp' = "idle" /\ Goto("loop", "exit")
        /\ UNCHANGED <<networkState, retryCount, uart, netif, dce, handler, crash, events, back>>
    BY <2>1 DEF StopNetwork, Started
  <2>3. Stopping'
    BY <2>1, <2>2 DEF StopNetwork, Started, Stopping
  <2>4. pc'["loop"] = "exit" /\ pc'["event"] = pc["event"]
    BY <1>1, <2>2, Mover
  <2>. QED  BY <1>2, <1>3, <2>2, <2>3, <2>4 DEF StepsToStop, Starts
<1>6. CASE pc["loop"] = "exit"
  <2>1. ExitData("loop") /\ Stopping /\ lock = "loop" /\ back["loop"] = "sync2"
    BY <1>2, <1>6, LoopDispatch DEF StepsToStop, Stopping
  <2>2. /\ readCb' = "command" /\ rx' = {}
        /\ UNCHANGED <<networkState, retryCount, uart, netif, dce, handler, crash, events, back,
                       ppp, modem>>
    BY <2>1 DEF ExitData
  <2>3. CASE modem = "command"
    <3>1. dceMode' = "COMMAND" /\ lock' = Free /\ Goto("loop", "sync2")
      BY <2>1, <2>3 DEF ExitData, Stopping
    <3>2. pc'["loop"] = "sync2" /\ pc'["event"] = pc["event"]
      BY <1>1, <3>1, Mover
    <3>. QED  BY <1>2, <1>3, <2>1, <2>2, <2>3, <3>1, <3>2
              DEF StepsToStop, Starts, Waiting, Stopping
  <2>4. CASE modem = "data"
    <3>1. UNCHANGED lock /\ Goto("loop", "escape")
      BY <2>1, <2>4 DEF ExitData, Stopping
    <3>2. pc'["loop"] = "escape" /\ pc'["event"] = pc["event"]
      BY <1>1, <3>1, Mover
    <3>. QED  BY <1>2, <1>3, <2>1, <2>2, <2>4, <3>1, <3>2
              DEF StepsToStop, Starts, Stopping
  <2>. QED  BY <2>1, <2>3, <2>4 DEF Stopping
<1>7. CASE pc["loop"] = "escape"
  <2>1. /\ Escape("loop") /\ Stopping /\ back["loop"] = "sync2"
        /\ modem = "data" /\ readCb = "command" /\ rx = {}
    BY <1>2, <1>7, LoopDispatch DEF StepsToStop, Stopping
  <2>2. PICK result \in Results : Command("loop", "ESCAPE", result) /\ dceMode' = ModeAfter(result)
    BY <2>1 DEF Escape
  <2>3. modem' = "command" /\ rx' = {} /\ dceMode' = "COMMAND"
    BY <2>1, <2>2, GoodCommand DEF ModeAfter
  <2>4. /\ lock' = Free /\ Goto("loop", "sync2")
        /\ UNCHANGED <<networkState, retryCount, uart, netif, dce, handler, crash, events, readCb, ppp>>
    BY <2>1 DEF Escape
  <2>5. pc'["loop"] = "sync2" /\ pc'["event"] = pc["event"]
    BY <1>1, <2>4, Mover
  <2>. QED  BY <1>2, <1>3, <2>1, <2>3, <2>4, <2>5 DEF StepsToStop, Starts, Waiting, Stopping
<1>8. CASE pc["loop"] = "sync2"
  <2>1. CheckSyncAgain /\ Waiting /\ lock = Free
    BY <1>2, <1>8, LoopDispatch DEF StepsToStop
  <2>2. Ask("sync2", "AT", "retry", "reset") /\ UNCHANGED dceVars
    BY <2>1 DEF CheckSyncAgain
  <2>3. /\ pc'["loop"] = "retry" /\ pc'["event"] = pc["event"] /\ modem' = "command" /\ rx' = {}
        /\ UNCHANGED <<networkState, retryCount, uart, readCb, netif, ppp, handler, events, crash>>
    BY <2>1, <2>2, HealthyAsk, GoodCommand DEF Waiting
  <2>. QED  BY <1>2, <1>3, <2>1, <2>2, <2>3 DEF Between, Starts, Waiting
<1>. QED  BY <1>4, <1>5, <1>6, <1>7, <1>8 DEF StepsToStop

\* Between the attempts, and when ConnectModem has returned
LEMMA HealthyBetween ==
    ASSUME Types, Healthy, good, networkState # "ApState", Between \/ Returned, LoopStep
    PROVE  Healthy'
<1>. USE DEF appVars, uartVars, pppVars, ipVars, modemVars, dceVars
<1>1. /\ TaskTypes /\ "loop" \in Tasks /\ "event" \in Tasks
      /\ retryCount \in 0 .. 3
  BY DEF Types, Tasks, AppTypes
<1>2. /\ networkState \in {"Connecting", "OnLine"} /\ uart /\ netif /\ dce /\ handler
      /\ crash = "none" /\ pc["event"] \in {"idle", "setOnLine"} /\ events \in Seq({"GotIp"})
  BY DEF Healthy, Between, Returned
<1>3. CASE Between
  <2>1. Retry
    BY <1>2, <1>3, LoopDispatch DEF Between
  <2>2. /\ retryCount' = IF retryCount = 0 THEN 0 ELSE retryCount - 1
        /\ Goto("loop", IF retryCount = 0 THEN "run" ELSE "sync")
        /\ UNCHANGED <<networkState, uart, netif, dce, handler, crash, events, lock, dceMode, ppp,
                       modem, readCb, rx>>
    BY <2>1 DEF Retry
  <2>3. /\ pc'["loop"] = IF retryCount = 0 THEN "run" ELSE "sync"
        /\ pc'["event"] = pc["event"]
    BY <1>1, <2>2, Mover
  <2>4. CASE retryCount = 0
    <3>1. Returned'
      BY <1>3, <2>2, <2>3, <2>4 DEF Between, Starts, Started, Returned
    <3>. QED  BY <1>2, <2>2, <2>3, <3>1 DEF Healthy
  <2>5. CASE retryCount # 0
    <3>1. Starts' <=> ~Starts
      BY <1>1, <2>2, <2>5 DEF Starts
    <3>2. (StepsToStart \/ StepsToStop)'
      BY <1>3, <2>2, <2>3, <2>5, <3>1 DEF Between, Waiting, Started, StepsToStart, StepsToStop
    <3>. QED  BY <1>2, <2>2, <2>3, <3>2 DEF Healthy
  <2>. QED  BY <2>4, <2>5
<1>4. ~Returned
  <2>1. Returned => ~TryToConnect /\ ~TimeOut
    BY <1>2 DEF TryToConnect, TimeOut, Returned, Started
  <2>. QED  BY <1>2, <2>1, LoopDispatch DEF Returned
<1>. QED  BY <1>3, <1>4

\* The first connection after the start of the program, up to the first attempt
LEMMA HealthyBegin ==
    ASSUME Types, Healthy, good, Unused, LoopStep
    PROVE  Healthy'
<1>. USE DEF appVars, uartVars, pppVars, ipVars, modemVars, dceVars
<1>1. TaskTypes /\ "loop" \in Tasks /\ "event" \in Tasks
  BY DEF Types, Tasks
<1>2. /\ crash = "none" /\ pc["event"] \in {"idle", "setOnLine"} /\ events \in Seq({"GotIp"})
      /\ \/ pc["loop"] = "run" /\ networkState = "ApState" /\ modem = "off"
         \/ pc["loop"] = "wakeup" /\ networkState = "Connecting" /\ modem = "off"
         \/ pc["loop"] = "init" /\ networkState = "Connecting" /\ modem = "command"
  BY DEF Healthy, Unused
<1>3. TryToConnect \/ Wakeup \/ InitNetwork
  BY <1>2 DEF LoopStep, Connect, Stop, Disconnect, Retry, CheckSync, CheckSyncAgain, Reset,
     CheckSignal, StartNetwork, SetPdpContext, Dial, Resume, EnterData, TimeOut, GiveUp,
     StopNetwork, ExitData, Escape, TestPower, CutPower, Deinit, Destroy, UseFreedDce, Ask, NeedsDce
<1>4. CASE TryToConnect
  <2>1. pc'["loop"] = "wakeup" /\ pc'["event"] = pc["event"]
    BY <1>1, <1>4, Mover DEF TryToConnect
  <2>. QED  BY <1>2, <1>4, <2>1 DEF TryToConnect, Healthy, Unused
<1>5. CASE Wakeup
  <2>1. pc'["loop"] = "init" /\ pc'["event"] = pc["event"]
    BY <1>1, <1>5, Mover DEF Wakeup
  <2>. QED  BY <1>2, <1>5, <2>1 DEF Wakeup, Healthy, Unused
<1>6. CASE InitNetwork
  <2>1. /\ netif' = TRUE /\ uart' = TRUE /\ handler' = TRUE /\ dce' = TRUE /\ dceMode' = "UNDEF"
        /\ readCb' = "command" /\ rx' = {} /\ modem' \in {modem, "command"}
        /\ retryCount' = Attempts /\ Goto("loop", "retry")
        /\ UNCHANGED <<networkState, back, lock, ppp, events, power, crash, good, late>>
    BY <1>6 DEF InitNetwork, Unused
  <2>2. pc["loop"] = "init" /\ pc'["loop"] = "retry" /\ pc'["event"] = pc["event"]
    BY <1>1, <1>6, <2>1, Mover DEF InitNetwork
  <2>3. Between'
    BY <1>2, <2>1, <2>2 DEF Between, Starts, Waiting, Attempts, Unused
  <2>. QED  BY <1>2, <2>1, <2>2, <2>3 DEF Healthy
<1>. QED  BY <1>3, <1>4, <1>5, <1>6

\* The event task sets OnLine, and nothing else while the carrier holds.
LEMMA HealthyEvent ==
    ASSUME Types, Healthy, EventStep
    PROVE  Healthy'
<1>. USE DEF appVars, uartVars, pppVars, ipVars, modemVars, dceVars
<1>1. TaskTypes /\ "loop" \in Tasks /\ "event" \in Tasks
  BY DEF Types, Tasks
<1>2. crash = "none" /\ pc["event"] \in {"idle", "setOnLine"} /\ events \in Seq({"GotIp"})
  BY DEF Healthy
<1>3. HandleIPEvent \/ SetOnLine
  BY <1>2 DEF EventStep, Stop, Disconnect, SetOffLine, StopNetwork, ExitData, Escape, TestPower,
     CutPower, Deinit, Destroy, UseFreedDce, NeedsDce
<1>4. ~Unused
  BY <1>2, <1>3 DEF HandleIPEvent, SetOnLine, Unused
<1>5. /\ networkState \in {"Connecting", "OnLine"} /\ uart /\ netif /\ dce /\ handler
      /\ StepsToStart \/ StepsToStop \/ Between \/ Returned
  BY <1>4 DEF Healthy
<1>6. UNCHANGED <<retryCount, back, dceVars, uartVars, pppVars, modemVars, handler, crash>>
  BY <1>3 DEF HandleIPEvent, SetOnLine
<1>7. networkState' \in {"Connecting", "OnLine"}
  BY <1>3, <1>5 DEF HandleIPEvent, SetOnLine
<1>8. /\ pc'["loop"] = pc["loop"] /\ pc'["event"] \in {"idle", "setOnLine"}
      /\ events' \in Seq({"GotIp"})
  <2>1. CASE SetOnLine
    BY <1>1, <1>2, <2>1, Mover DEF SetOnLine
  <2>2. CASE HandleIPEvent
    <3>1. Head(events) = "GotIp" /\ events' \in Seq({"GotIp"})
      BY <1>2, <2>2 DEF HandleIPEvent
    <3>2. Goto("event", "setOnLine") \/ Goto("event", "idle")
      BY <2>2, <3>1 DEF HandleIPEvent
    <3>. QED  BY <1>1, <3>1, <3>2, Mover
  <2>. QED  BY <1>3, <2>1, <2>2
<1>9. (StepsToStart \/ StepsToStop \/ Between \/ Returned)'
  BY <1>5, <1>6, <1>8 DEF StepsToStart, StepsToStop, Between, Returned, Starts, Waiting, Started,
     Stopping
<1>. QED  BY <1>2, <1>5, <1>6, <1>7, <1>8, <1>9 DEF Healthy

\* PPP comes up; it is not lost.
LEMMA HealthyEnv ==
    ASSUME Types, Healthy, good, LinkUp \/ LinkLost \/ CarrierLost \/ ConditionsChange
    PROVE  Healthy'
<1>. USE DEF appVars, taskVars, uartVars, pppVars, ipVars, modemVars, dceVars
<1>1. crash = "none" /\ pc["event"] \in {"idle", "setOnLine"} /\ events \in Seq({"GotIp"})
  BY DEF Healthy
<1>2. CASE ConditionsChange
  BY <1>2 DEF ConditionsChange, Healthy, Unused, StepsToStart, StepsToStop, Between, Returned,
     Starts, Waiting, Started, Stopping
<1>3. ~CarrierLost
  BY DEF CarrierLost
<1>4. ppp \in {"starting", "up"} => modem = "data"
  BY DEF Healthy, Unused, StepsToStart, StepsToStop, Between, Returned, Waiting, Started, Stopping
<1>5. ~LinkLost
  BY <1>4 DEF LinkLost
<1>6. CASE LinkUp
  <2>1. /\ ppp = "starting" /\ ppp' = "up"
        /\ events' = IF Len(events) < MaxEvents THEN Append(events, "GotIp") ELSE events
        /\ UNCHANGED <<appVars, taskVars, dceVars, uartVars, netif, handler, modemVars, crash>>
    BY <1>6 DEF LinkUp, Post
  <2>2. events' \in Seq({"GotIp"})
    BY <1>1, <2>1
  <2>3. /\ networkState \in {"Connecting", "OnLine"} /\ uart /\ netif /\ dce /\ handler
        /\ StepsToStop \/ Between \/ Returned
    BY <2>1 DEF Healthy, Unused, StepsToStart, Waiting
  <2>4. (StepsToStop \/ Between \/ Returned)'
    BY <2>1, <2>3 DEF StepsToStop, Between, Returned, Starts, Waiting, Started, Stopping
  <2>. QED  BY <1>1, <2>1, <2>2, <2>3, <2>4 DEF Healthy
<1>. QED  BY <1>2, <1>3, <1>5, <1>6

LEMMA HealthyNext ==
    ASSUME Types, BackOK, Healthy, good, [Next]_vars
    PROVE  Healthy'
<1>1. CASE UNCHANGED vars
  BY <1>1 DEF vars, appVars, taskVars, uartVars, pppVars, ipVars, modemVars, dceVars,
     Healthy, Unused, StepsToStart, StepsToStop, Between, Returned, Starts, Waiting, Started,
     Stopping
<1>2. CASE LoopStep
  BY <1>2, HealthyBegin, HealthyStart, HealthyStop, HealthyBetween DEF Healthy
<1>3. CASE EventStep
  BY <1>3, HealthyEvent
<1>4. CASE LinkUp \/ LinkLost \/ CarrierLost \/ ConditionsChange
  BY <1>4, HealthyEnv
<1>5. ~Restart
  BY DEF Restart, Healthy
<1>. QED  BY <1>1, <1>2, <1>3, <1>4, <1>5 DEF Next, Running

\* While the modem answers at once and the carrier holds, ConnectModem returns with the
\* network started: an odd number of attempts, of which every second one stops it.
THEOREM GoodModemEndsStarted == Spec => GoodModemIsStarted
<1>. DEFINE Result == pc["loop"] = "run" /\ networkState # "ApState" =>
                         dceMode = "DATA" /\ ppp \in {"starting", "up"} /\ modem = "data"
<1>1. Init => Types /\ BackOK
  BY TypesInit
<1>2. Types /\ BackOK /\ [Next]_vars => Types' /\ BackOK'
  BY TypesStep
<1>3. Init /\ modem = "off" => Healthy
  <2>. SUFFICES ASSUME Init, modem = "off" PROVE Healthy
    OBVIOUS
  <2>1. <<>> \in Seq({"GotIp"}) /\ pc["loop"] = "run" /\ pc["event"] = "idle"
    BY DEF Init, Tasks, Home
  <2>. QED  BY <2>1 DEF Init, Healthy, Unused
<1>4. Types /\ BackOK /\ Healthy /\ good /\ [Next]_vars => Healthy'
  BY HealthyNext
<1>5. Healthy => Result
  BY DEF Healthy, StepsToStart, StepsToStop, Between, Returned, Started
<1>. QED  BY <1>1, <1>2, <1>3, <1>4, <1>5, PTL DEF Spec, GoodModemIsStarted
====
