------------------------------- MODULE Readings -------------------------------
(***************************************************************************)
(* PLC::Process and the home page's websocket (code/ESP32/main/PLC.cpp).   *)
(*                                                                         *)
(* The loop task takes a snapshot of the inputs and outputs; unless it is  *)
(* the text it remembers in _lastMessagePublished, it publishes it to MQTT *)
(* and sends it to the open pages.  The AsyncTCP task, on the other core,  *)
(* admits pages and makes the loop forget its last message whenever one    *)
(* connects.  Neither takes a lock; a copy of the message that overlaps    *)
(* its clearing leaves the message, or a text that equals none, like the   *)
(* empty one.                                                              *)
(***************************************************************************)
EXTENDS Naturals, Sequences, FiniteSets

CONSTANTS
    Messages,      \* what the inputs and outputs can read as
    Pages,         \* websocket clients of the home page
    QueueLength,   \* messages the websocket keeps for a page that does not take them
    None           \* the empty string

ASSUME MessagesAssumption == None \notin Messages
ASSUME QueueAssumption == QueueLength \in Nat \ {0}

VARIABLES
    level,         \* what the inputs and outputs read as now
    online,        \* _networkState = OnLine
    step,          \* where Process is
    message,       \* its local variable s
    last,          \* _lastMessagePublished
    handle,        \* _mqtt_client_handle is set
    announced,     \* _publishedOnline
    handed,        \* the reading MQTT was given last
    early,         \* history: when it was published, there was no MQTT client
    page,          \* each page: "closed", "admitted", "counted" or "open"
    queue,         \* the messages kept for it
    shown,         \* the message it shows
    missed         \* history: the last message for it was dropped

loopVars == <<step, message, last>>
mqttVars == <<handle, announced, handed, early>>
pageVars == <<page, queue, shown, missed>>
vars == <<level, online, loopVars, mqttVars, pageVars>>

Steps == {"idle", "announce", "publish", "remember", "broadcast"}
PageStates == {"closed", "admitted", "counted", "open"}

TypeOK ==
    /\ level \in Messages
    /\ online \in BOOLEAN
    /\ step \in Steps
    /\ message \in Messages \cup {None}
    /\ last \in Messages \cup {None}
    /\ handle \in BOOLEAN
    /\ announced \in BOOLEAN
    /\ handed \in Messages \cup {None}
    /\ early \in BOOLEAN
    /\ page \in [Pages -> PageStates]
    /\ queue \in [Pages -> Seq(Messages)]
    /\ \A p \in Pages : Len(queue[p]) <= QueueLength
    /\ shown \in [Pages -> Messages \cup {None}]
    /\ missed \in [Pages -> BOOLEAN]

Init ==
    /\ level \in Messages
    /\ online = FALSE
    /\ step = "idle"
    /\ message = None
    /\ last = None
    /\ handle = FALSE
    /\ announced = FALSE
    /\ handed = None
    /\ early = FALSE
    /\ page = [p \in Pages |-> "closed"]
    /\ queue = [p \in Pages |-> <<>>]
    /\ shown = [p \in Pages |-> None]
    /\ missed = [p \in Pages |-> FALSE]

-----------------------------------------------------------------------------
\* The clients the websocket counts, and sends to.
Connected == {p \in Pages : page[p] \in {"counted", "open"}}

\* What a page was sent last.
Sent(p) == IF queue[p] = <<>> THEN shown[p] ELSE queue[p][Len(queue[p])]

Full(p) == Len(queue[p]) >= QueueLength

-----------------------------------------------------------------------------
(***************************************************************************)
(* Mutants: plausible mistakes in the definitions below, used only to see  *)
(* that the properties notice them.                                        *)
(***************************************************************************)
AfterSwapped(s) ==             \* the message is remembered last
    CASE s = "announce"  -> "publish"
      [] s = "publish"   -> "broadcast"
      [] s = "broadcast" -> "remember"
      [] s = "remember"  -> "idle"

GreetQuietly(p) ==             \* a new page does not force a broadcast
    /\ page[p] = "counted"
    /\ page' = [page EXCEPT ![p] = "open"]
    /\ UNCHANGED <<level, online, loopVars, mqttVars, queue, shown, missed>>

PublishUnlessEarly ==          \* only a device that is announced publishes
    /\ step = "publish"
    /\ handed' = IF handle /\ announced THEN message ELSE handed
    /\ early' = ~handle
    /\ step' = "remember"
    /\ UNCHANGED <<level, online, message, last, handle, announced, pageVars>>

BroadcastAnyway ==             \* a queue that is full takes one more
    /\ step = "broadcast"
    /\ queue' = [p \in Pages |-> IF p \in Connected THEN Append(queue[p], message) ELSE queue[p]]
    /\ missed' = [p \in Pages |-> FALSE]
    /\ step' = "idle"
    /\ message' = None
    /\ UNCHANGED <<level, online, last, mqttVars, page, shown>>

-----------------------------------------------------------------------------
(***************************************************************************)
(* The loop task: PLC::Process                                             *)
(***************************************************************************)
After(s) ==
    CASE s = "announce"  -> "publish"
      [] s = "publish"   -> "remember"
      [] s = "remember"  -> "broadcast"
      [] s = "broadcast" -> "idle"

\* The readings, and the comparison with the last message
Snapshot ==
    /\ step = "idle"
    /\ online
    /\ level # last
    /\ message' = level
    /\ step' = "announce"
    /\ UNCHANGED <<level, online, last, mqttVars, pageVars>>

\* _iot.PublishOnline
Announce ==
    /\ step = "announce"
    /\ announced' = (announced \/ handle)
    /\ step' = After(step)
    /\ UNCHANGED <<level, online, message, last, handle, handed, early, pageVars>>

\* _iot.Publish: nothing happens without a client, and nobody asks.
Publish ==
    /\ step = "publish"
    /\ handed' = IF handle THEN message ELSE handed
    /\ early' = ~handle
    /\ step' = After(step)
    /\ UNCHANGED <<level, online, message, last, handle, announced, pageVars>>

Remember ==
    /\ step = "remember"
    /\ last' = message
    /\ step' = After(step)
    /\ UNCHANGED <<level, online, message, mqttVars, pageVars>>

\* _webSocket.textAll: a page whose queue is full misses the message.
Broadcast ==
    /\ step = "broadcast"
    /\ queue' = [p \in Pages |-> IF p \in Connected /\ ~Full(p)
                                 THEN Append(queue[p], message) ELSE queue[p]]
    /\ missed' = [p \in Pages |-> p \in Connected /\ Full(p)]
    /\ step' = After(step)
    /\ UNCHANGED <<level, online, message, last, mqttVars, page, shown>>

Process == Snapshot \/ Announce \/ Publish \/ Remember \/ Broadcast

-----------------------------------------------------------------------------
(***************************************************************************)
(* The AsyncTCP task                                                       *)
(***************************************************************************)
\* The middleware looks at the number of clients; the request it admits becomes a
\* client when the browser has acknowledged the handshake.
Admit(p) ==
    /\ page[p] = "closed"
    /\ Cardinality(Connected) <= 1
    /\ page' = [page EXCEPT ![p] = "admitted"]
    /\ UNCHANGED <<level, online, loopVars, mqttVars, queue, shown, missed>>

Count(p) ==
    /\ page[p] = "admitted"
    /\ page' = [page EXCEPT ![p] = "counted"]
    /\ UNCHANGED <<level, online, loopVars, mqttVars, queue, shown, missed>>

\* WS_EVT_CONNECT: _lastMessagePublished.clear().  From here on a full queue no longer
\* closes the page.
Greet(p) ==
    /\ page[p] = "counted"
    /\ page' = [page EXCEPT ![p] = "open"]
    /\ last' = None
    /\ UNCHANGED <<level, online, step, message, mqttVars, queue, shown, missed>>

Take(p) ==
    /\ queue[p] # <<>>
    /\ shown' = [shown EXCEPT ![p] = Head(queue[p])]
    /\ queue' = [queue EXCEPT ![p] = Tail(queue[p])]
    /\ UNCHANGED <<level, online, loopVars, mqttVars, page, missed>>

Close(p) ==
    /\ page[p] # "closed"
    /\ page' = [page EXCEPT ![p] = "closed"]
    /\ queue' = [queue EXCEPT ![p] = <<>>]
    /\ shown' = [shown EXCEPT ![p] = None]
    /\ missed' = [missed EXCEPT ![p] = FALSE]
    /\ UNCHANGED <<level, online, loopVars, mqttVars>>

-----------------------------------------------------------------------------
(***************************************************************************)
(* The rest: inputs and outputs change, the network comes and goes, and    *)
(* ConnectToMQTTServer creates a client while OnLine.                      *)
(***************************************************************************)
ChangeLevel(m) ==
    /\ level' = m
    /\ UNCHANGED <<online, loopVars, mqttVars, pageVars>>

ChangeNetwork ==
    /\ online' = ~online
    /\ UNCHANGED <<level, loopVars, mqttVars, pageVars>>

ConnectToMQTTServer ==
    /\ online
    /\ handle' = TRUE
    /\ UNCHANGED <<level, online, loopVars, announced, handed, early, pageVars>>

Next ==
    \/ Process
    \/ \E p \in Pages : Admit(p) \/ Count(p) \/ Greet(p) \/ Take(p) \/ Close(p)
    \/ \E m \in Messages : ChangeLevel(m)
    \/ ChangeNetwork
    \/ ConnectToMQTTServer

Spec == Init /\ [][Next]_vars

\* The loop runs for ever; the AsyncTCP task finishes what it began, and an open
\* page takes what is sent to it.
FairSpec ==
    /\ Spec
    /\ WF_vars(Process)
    /\ \A p \in Pages : WF_vars(Greet(p)) /\ WF_vars(Take(p))

-----------------------------------------------------------------------------
(***************************************************************************)
(* Properties                                                              *)
(***************************************************************************)
\* Whatever the loop was doing when a page connected: as long as the last message is
\* remembered, every open page was sent it, unless its queue was full; so comparing
\* with it does not leave a page behind.
PagesWereSent ==
    last # None /\ step # "broadcast"
        => \A p \in Pages : page[p] = "open" /\ ~missed[p] => Sent(p) = last

\* The same for MQTT: what is remembered as published was handed to the client, unless
\* there was none yet.  (A reading published too early is not published again.)
LastWasHanded == last # None /\ step # "remember" /\ ~early => handed = last

\* "force a broadcast" (PLC.cpp:176): an open page comes to show the readings, once they
\* stay as they are and unless its queue was full.
PageShowsReadings ==
    \A p \in Pages, m \in Messages :
        (page[p] = "open" /\ online /\ level = m)
            ~> (shown[p] = m \/ page[p] # "open" \/ ~online \/ level # m \/ missed[p])

\* "if we have 2 clients or more, prevent the next one to connect" (PLC.cpp:166)
AtMostTwoPages == Cardinality(Connected) <= 2
=============================================================================
