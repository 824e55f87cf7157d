------------------------------ MODULE Settings ------------------------------
(***************************************************************************)
(* The settings: IOT::Init, loadSettings, saveSettings, the handler of     *)
(* /submit and the flasher window of Run (code/ESP32/main/IOT.cpp), and    *)
(* the settings of the application in PLC.cpp 60-121.                      *)
(*                                                                         *)
(* The settings live in variables; saveSettings writes them as one JSON    *)
(* text into the RAM copy that the EEPROM library keeps, whose commit      *)
(* stores all of it or, if the power fails, nothing.  A restart, planned   *)
(* or not, may come between any two steps.                                 *)
(*                                                                         *)
(* Two values that the properties have to tell apart differ in the number  *)
(* of characters they take in the JSON text: that length stands for the    *)
(* text fields of a form, and for the four limits of an analog channel.    *)
(***************************************************************************)
EXTENDS Integers, Functions

CONSTANTS
    AIPins,          \* AI_PINS, analog channels
    EepromSize,      \* EEPROM_SIZE
    FrameLength,     \* characters of the JSON text besides those below
    Texts,           \* lengths of the text fields together
    DefaultTexts,
    Limits,          \* lengths of the limits of a channel
    DefaultLimits,
    Ports,           \* port numbers a form may have
    DefaultPort,
    Selections       \* what the form's networkSelector offers

\* uint16_t
Words == 0 .. 65535

ASSUME PinsAssumption == AIPins \in Nat
ASSUME LengthAssumption ==
    /\ EepromSize \in Nat /\ FrameLength \in Nat
    /\ Texts \subseteq Nat /\ DefaultTexts \in Texts
    /\ Limits \subseteq Nat /\ DefaultLimits \in Limits
ASSUME PortAssumption == Ports \subseteq Words /\ DefaultPort \in Ports /\ DefaultPort < 32768
ASSUME SelectionAssumption == "NotConnected" \notin Selections /\ "WiFiMode" \in Selections

VARIABLES
    ram,       \* the settings in the variables of IOT and PLC
    buffer,    \* {what the RAM copy of the EEPROM parses to}, {} if it does not parse
    flash,     \* the same of the EEPROM itself
    step,      \* what the program is doing
    next,      \* ... and what it does after saveSettings
    form,      \* the part of a form that the application has still to apply
    shown      \* history: {the settings the response to the last form was made from}

vars == <<ram, buffer, flash, step, next, form, shown>>

-----------------------------------------------------------------------------
(***************************************************************************)
(* Mutants: plausible mistakes in the definitions below, used only to see  *)
(* that the properties notice them.                                        *)
(***************************************************************************)
Int16Not(n) == n                            \* no conversion of the port

SavedChannelsButLast(n) == 0 .. n - 2       \* i < _analogInputs - 1

-----------------------------------------------------------------------------
(***************************************************************************)
(* Settings, in variables and as a text                                    *)
(***************************************************************************)
Channels == 0 .. AIPins - 1

\* int16_t takes what toInt() made of the form's number ...
Int16(n) == IF n < 32768 THEN n ELSE n - 65536

\* ... and as<uint16_t>() of a negative number is 0.
AsUint16(n) == IF n < 0 THEN 0 ELSE n

Int16s == -32768 .. 32767

Networks == Selections \cup {"NotConnected"}

RamSettings ==
    [texts : Texts, net : Networks, port : Int16s, analog : 0 .. AIPins,
     limits : [Channels -> Limits]]

\* onSaveSetting: only the channels in use have their limits saved.
SavedChannels(n) == 0 .. n - 1

SavedSettings ==
    [texts : Texts, net : Networks, port : Int16s, analog : 0 .. AIPins,
     limits : UNION { [SavedChannels(n) -> Limits] : n \in 0 .. AIPins }]

Saved(s) == [s EXCEPT !.limits = [i \in SavedChannels(s.analog) |-> s.limits[i]]]

\* What the variables start with.
Initial ==
    [texts |-> DefaultTexts, net |-> "NotConnected", port |-> DefaultPort, analog |-> AIPins,
     limits |-> [i \in Channels |-> DefaultLimits]]

\* loadSettings and onLoadSetting, right after the start.
Loaded(text) ==
    [text EXCEPT !.port = AsUint16(text.port),
                 !.limits = [i \in Channels |-> IF i \in SavedChannels(text.analog)
                                                THEN text.limits[i] ELSE Initial.limits[i]]]

\* What a restart makes of an EEPROM: of one that does not parse nothing is loaded.
Restored(eeprom) == IF eeprom = {} THEN Initial ELSE Loaded(CHOOSE text \in eeprom : TRUE)

\* EEPROM.write ignores what is beyond the end; a text without its end does not parse.
Fits(text) == FrameLength + text.texts + FoldFunction(+, 0, text.limits) <= EepromSize

Written(s) == IF Fits(Saved(s)) THEN {Saved(s)} ELSE {}

Forms == [analog : 0 .. AIPins, fields : 0 .. AIPins, limits : [Channels -> Limits]]
NoForm == [analog |-> 0, fields |-> 0, limits |-> [i \in Channels |-> DefaultLimits]]

Steps == {"boot", "flasher", "serve", "inputs", "write", "commit", "reply", "restart"}

TypeOK ==
    /\ ram \in RamSettings
    /\ buffer \in SUBSET SavedSettings
    /\ flash \in SUBSET SavedSettings
    /\ step \in Steps
    /\ next \in Steps
    /\ form \in Forms
    /\ shown \in SUBSET SavedSettings

Init ==
    /\ ram = Initial
    /\ buffer = {}
    /\ flash = {}
    /\ step = "boot"
    /\ next = "serve"
    /\ form = NoForm
    /\ shown = {}

-----------------------------------------------------------------------------
(***************************************************************************)
(* More mutants                                                            *)
(***************************************************************************)
CommitForgotten ==                          \* no EEPROM.commit()
    /\ step = "commit"
    /\ step' = next
    /\ UNCHANGED <<ram, buffer, flash, next, form, shown>>

SubmitSavesAtOnce ==                        \* saveSettings before onSubmitForm, too
    /\ step = "serve"
    /\ \E texts \in Texts, net \in Selections, port \in Ports :
          ram' = [ram EXCEPT !.texts = texts, !.net = net, !.port = Int16(port)]
    /\ form' \in Forms
    /\ buffer' = Written(ram') /\ flash' = Written(ram')
    /\ step' = "inputs"
    /\ UNCHANGED <<next, shown>>

-----------------------------------------------------------------------------
(***************************************************************************)
(* Init: the factory reset pin, or else loadSettings, which saves the      *)
(* defaults if there is nothing that parses                                *)
(***************************************************************************)
Started(s) == IF s.net = "NotConnected" THEN "flasher" ELSE "serve"

FactoryReset ==
    /\ step = "boot"
    /\ buffer' = {} /\ flash' = {}
    /\ shown' = {}
    /\ step' = Started(ram)
    /\ UNCHANGED <<ram, next, form>>

LoadSettings ==
    /\ step = "boot"
    /\ ram' = Restored(buffer)
    /\ IF buffer = {}
       THEN step' = "write" /\ next' = Started(ram')
       ELSE step' = Started(ram') /\ UNCHANGED next
    /\ UNCHANGED <<buffer, flash, form, shown>>

-----------------------------------------------------------------------------
(***************************************************************************)
(* Run in Boot: the flasher may send SSID and password, or is given up     *)
(***************************************************************************)
Flasher ==
    /\ step = "flasher"
    /\ \E texts \in Texts : ram' = [ram EXCEPT !.texts = texts, !.net = "WiFiMode"]
    /\ step' = "write" /\ next' = "restart"
    /\ UNCHANGED <<buffer, flash, form, shown>>

DoneWaiting ==
    /\ step = "flasher"
    /\ step' = "serve"
    /\ UNCHANGED <<ram, buffer, flash, next, form, shown>>

-----------------------------------------------------------------------------
(***************************************************************************)
(* /submit                                                                 *)
(***************************************************************************)
\* The fields of IOT, one after the other; the page may leave any of them out.
Submit ==
    /\ step = "serve"
    /\ \E texts \in Texts, net \in Selections \cup {ram.net}, port \in {Int16(p) : p \in Ports} \cup {ram.port} :
          ram' = [ram EXCEPT !.texts = texts, !.net = net, !.port = port]
    /\ form' \in Forms
    /\ step' = "inputs"
    /\ UNCHANGED <<buffer, flash, next, shown>>

\* onSubmitForm: the page has fields for the channels that were in use when it was made.
WithInputs(s, f) ==
    [s EXCEPT !.analog = f.analog,
              !.limits = [i \in Channels |-> IF i < f.analog /\ i < f.fields
                                             THEN f.limits[i] ELSE s.limits[i]]]

SubmitInputs ==
    /\ step = "inputs"
    /\ ram' = WithInputs(ram, form)
    /\ form' = NoForm
    /\ step' = "write" /\ next' = "reply"
    /\ UNCHANGED <<buffer, flash, shown>>

\* SendNetworkSettings
Reply ==
    /\ step = "reply"
    /\ shown' = {Saved(ram)}
    /\ step' = "serve"
    /\ UNCHANGED <<ram, buffer, flash, next, form>>

-----------------------------------------------------------------------------
(***************************************************************************)
(* saveSettings                                                            *)
(***************************************************************************)
Write ==
    /\ step = "write"
    /\ buffer' = Written(ram)
    /\ step' = "commit"
    /\ UNCHANGED <<ram, flash, next, form, shown>>

\* What the user was shown last is then history.
Commit ==
    /\ step = "commit"
    /\ flash' = buffer
    /\ shown' = {}
    /\ step' = next
    /\ UNCHANGED <<ram, buffer, next, form>>

-----------------------------------------------------------------------------
(***************************************************************************)
(* esp_restart, /reboot, the watchdog, the power                           *)
(***************************************************************************)
Restart ==
    /\ ram' = Initial
    /\ buffer' = flash
    /\ form' = NoForm
    /\ step' = "boot" /\ next' = "serve"
    /\ UNCHANGED <<flash, shown>>

Next ==
    \/ FactoryReset \/ LoadSettings
    \/ Flasher \/ DoneWaiting
    \/ Submit \/ SubmitInputs \/ Reply
    \/ Write \/ Commit
    \/ Restart

Spec == Init /\ [][Next]_vars

-----------------------------------------------------------------------------
(***************************************************************************)
(* Properties                                                              *)
(***************************************************************************)
\* What a restart leaves of settings that were saved: a text that is too long is lost as
\* a whole (IOT.cpp:371 does not check it), and a port that int16_t made negative is 0
\* (IOT.cpp:358).
WhatIsLeft(s) == IF Fits(s) THEN [s EXCEPT !.port = AsUint16(s.port)] ELSE Saved(Initial)

\* The settings that the response to a form was made from are in the EEPROM until another
\* form is saved, also while that form is being applied and when the program restarts in
\* the middle of it, unless their text was too long.
AcknowledgedIsKept ==
    \A s \in shown : Fits(s) => flash = {s}

\* A restart changes none of the settings in use while no form is being applied, save for
\* what WhatIsLeft says; the channels that are not in use may lose their limits.
Agree(s, after) ==
    LET left == IF Fits(Saved(s)) THEN [s EXCEPT !.port = AsUint16(s.port)] ELSE Initial
    IN  /\ after.texts = left.texts /\ after.net = left.net
        /\ after.port = left.port /\ after.analog = left.analog
        /\ \A i \in Channels : i < left.analog => after.limits[i] = left.limits[i]

RestartChangesNothing ==
    step = "serve" => Agree(ram, Restored(flash))

\* The settings are a SettingsStore: whatever restarts in between, they are kept as the
\* whole of a form or not at all.
Store == INSTANCE SettingsStore WITH
    Values <- SavedSettings,
    Default <- Saved(Initial),
    Survivor <- [s \in SavedSettings |-> WhatIsLeft(s)],
    inUse <- Saved(IF step = "boot" THEN Restored(flash) ELSE ram),
    kept <- Saved(Restored(flash)),
    target <- IF step = "inputs" THEN {Saved(WithInputs(ram, form))}
              ELSE IF step \in {"write", "commit"} THEN {Saved(ram)} ELSE {}
StoreSpec == Store!Spec
=============================================================================
