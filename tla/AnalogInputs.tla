----------------------------- MODULE AnalogInputs -----------------------------
(***************************************************************************)
(* The analog inputs of class PLC: AnalogSensor (AnalogSensor.cpp) keeps a *)
(* rolling sum of the last SAMPLESIZE conversions of a channel, the loop   *)
(* task adds to it in PLC::Monitor and reads it in PLC::Process, and the   *)
(* AsyncTCP task reads it for READ_INPUT_REGISTER and changes the limits   *)
(* and the number of channels when the settings page is submitted.         *)
(*                                                                         *)
(* Values are ADC counts in uint32_t.  Level() is modelled by the offset   *)
(* of the average above adcReadingMin, in unsigned arithmetic; scaling it  *)
(* to minT .. maxT and rounding it are left out.                           *)
(***************************************************************************)
EXTENDS Integers

CONSTANTS
    AI_PINS,      \* number of analog inputs
    SAMPLESIZE,   \* length of the rolling sum
    WORD,         \* 2^32, the modulus of uint32_t
    Conversions,  \* results of a conversion, after the conversion to uint32_t
    Limits        \* limits that settings give, in counts

ASSUME SizesAssumption ==
    /\ AI_PINS \in Nat
    /\ SAMPLESIZE \in Nat \ {0}
    /\ WORD \in Nat \ {0}
ASSUME LimitsAssumption ==
    /\ Conversions \subseteq 0 .. WORD - 1
    /\ Limits \subseteq Nat
    /\ \A m \in Limits : SAMPLESIZE * m < WORD

Channels == 0 .. AI_PINS - 1
Words == 0 .. WORD - 1

VARIABLES
    rollingSum, numberOfSummations,  \* of each channel
    adcReadingMin, adcReadingMax,    \* of each channel
    analogInputs,   \* _analogInputs: the channels in use are 0 .. analogInputs - 1
    net,            \* "boot" until IOT::Run was called, then "offline" or "online"
    modbus,         \* the Modbus server has been started
    step,           \* where the loop task is
    channel,        \* its loop counter
    val, currentAvg,    \* local variables of AddReading
    changed,        \* history: channels whose limits were set since the last boot
    raised,         \* history: analogInputs grew since Monitor last ended
    bootInputs      \* history: analogInputs at the last boot

sums == <<rollingSum, numberOfSummations>>
settings == <<adcReadingMin, adcReadingMax, analogInputs>>
locals == <<val, currentAvg>>
history == <<changed, raised, bootInputs>>
vars == <<sums, settings, net, modbus, step, channel, locals, history>>

Steps == {"monitor", "room", "add", "run", "process"}

TypeOK ==
    /\ rollingSum \in [Channels -> Words]
    /\ numberOfSummations \in [Channels -> 0 .. SAMPLESIZE]
    /\ adcReadingMin \in [Channels -> Limits]
    /\ adcReadingMax \in [Channels -> Limits]
    /\ analogInputs \in 0 .. AI_PINS
    /\ net \in {"boot", "offline", "online"}
    /\ modbus \in BOOLEAN
    /\ step \in Steps
    /\ channel \in 0 .. AI_PINS
    /\ step \in {"room", "add"} => channel \in Channels
    /\ val \in Words
    /\ currentAvg \in Words
    /\ changed \subseteq Channels
    /\ raised \in BOOLEAN
    /\ bootInputs \in 0 .. AI_PINS

\* The settings are the saved ones, or the defaults.
Init ==
    /\ analogInputs \in 0 .. AI_PINS
    /\ adcReadingMin \in [Channels -> Limits]
    /\ adcReadingMax \in [Channels -> Limits]
    /\ rollingSum = [c \in Channels |-> 0]
    /\ numberOfSummations = [c \in Channels |-> 0]
    /\ net = "boot"
    /\ modbus = FALSE
    /\ step = "monitor"
    /\ channel = 0
    /\ val = 0
    /\ currentAvg = 0
    /\ changed = {}
    /\ raised = FALSE
    /\ bootInputs = analogInputs

\* The settings page saves what it sets, so that a restart finds it again.
Restart ==
    /\ UNCHANGED settings
    /\ rollingSum' = [c \in Channels |-> 0]
    /\ numberOfSummations' = [c \in Channels |-> 0]
    /\ net' = "boot"
    /\ modbus' = FALSE
    /\ step' = "monitor"
    /\ channel' = 0
    /\ val' = 0
    /\ currentAvg' = 0
    /\ changed' = {}
    /\ raised' = FALSE
    /\ bootInputs' = analogInputs

-----------------------------------------------------------------------------
(***************************************************************************)
(* AnalogSensor                                                            *)
(***************************************************************************)
Clamp(c, x) ==
    IF x < adcReadingMin[c] THEN adcReadingMin[c]
    ELSE IF x > adcReadingMax[c] THEN adcReadingMax[c] ELSE x

Average(c) == rollingSum[c] \div numberOfSummations[c]

\* Level(), in counts above the lower limit
Level(c) == (Average(c) - adcReadingMin[c]) % WORD

-----------------------------------------------------------------------------
(***************************************************************************)
(* Mutants: plausible mistakes in the definitions below, used only to see  *)
(* that the properties notice them.                                        *)
(***************************************************************************)
SampleUpperOnly(c) ==          \* only the upper limit is enforced
    /\ step = "monitor" /\ channel = c /\ c < analogInputs
    /\ \E x \in Conversions :
           val' = IF x > adcReadingMax[c] THEN adcReadingMax[c] ELSE x
    /\ currentAvg' = IF numberOfSummations[c] > 0 THEN Average(c) ELSE 0
    /\ step' = "room"
    /\ UNCHANGED <<sums, settings, net, modbus, channel, history>>

SampleDiscards(c) ==           \* "discard out of range readings"
    /\ step = "monitor" /\ channel = c /\ c < analogInputs
    /\ \E x \in Conversions :
          \/ /\ Clamp(c, x) = x
             /\ val' = x
             /\ currentAvg' = IF numberOfSummations[c] > 0 THEN Average(c) ELSE 0
             /\ step' = "room"
             /\ UNCHANGED channel
          \/ /\ Clamp(c, x) # x
             /\ channel' = c + 1
             /\ UNCHANGED <<val, currentAvg, step>>
    /\ UNCHANGED <<sums, settings, net, modbus, history>>

MakeRoomOneMore(c) ==          \* one sample too many
    /\ step = "room" /\ channel = c
    /\ IF numberOfSummations[c] <= SAMPLESIZE
       THEN /\ numberOfSummations' = [numberOfSummations EXCEPT ![c] = @ + 1]
            /\ UNCHANGED rollingSum
       ELSE /\ rollingSum' = [rollingSum EXCEPT ![c] = (@ - currentAvg) % WORD]
            /\ UNCHANGED numberOfSummations
    /\ step' = "add"
    /\ UNCHANGED <<settings, net, modbus, channel, locals, history>>

MonitorEndEarly ==             \* the last channel is not sampled
    /\ step = "monitor" /\ channel >= analogInputs - 1
    /\ step' = "run"
    /\ channel' = 0
    /\ raised' = FALSE
    /\ UNCHANGED <<sums, settings, net, modbus, locals, changed, bootInputs>>

GoOnLineAtBoot ==              \* setup starts the network and the server
    /\ net # "online"
    /\ net' = "online"
    /\ modbus' = TRUE
    /\ UNCHANGED <<sums, settings, step, channel, locals, history>>

-----------------------------------------------------------------------------
(***************************************************************************)
(* The loop task: PLC::Monitor, then PLC::Process                          *)
(***************************************************************************)
\* AnalogSensor::Run and the first half of AddReading
Sample(c) ==
    /\ step = "monitor" /\ channel = c /\ c < analogInputs
    /\ \E x \in Conversions : val' = Clamp(c, x)
    /\ currentAvg' = IF numberOfSummations[c] > 0 THEN Average(c) ELSE 0
    /\ step' = "room"
    /\ UNCHANGED <<sums, settings, net, modbus, channel, history>>

MakeRoom(c) ==
    /\ step = "room" /\ channel = c
    /\ IF numberOfSummations[c] < SAMPLESIZE
       THEN /\ numberOfSummations' = [numberOfSummations EXCEPT ![c] = @ + 1]
            /\ UNCHANGED rollingSum
       ELSE /\ rollingSum' = [rollingSum EXCEPT ![c] = (@ - currentAvg) % WORD]
            /\ UNCHANGED numberOfSummations
    /\ step' = "add"
    /\ UNCHANGED <<settings, net, modbus, channel, locals, history>>

AddValue(c) ==
    /\ step = "add" /\ channel = c
    /\ rollingSum' = [rollingSum EXCEPT ![c] = (@ + val) % WORD]
    /\ step' = "monitor"
    /\ channel' = c + 1
    /\ val' = 0
    /\ currentAvg' = 0
    /\ UNCHANGED <<numberOfSummations, settings, net, modbus, history>>

MonitorEnd ==
    /\ step = "monitor" /\ channel >= analogInputs
    /\ step' = "run"
    /\ channel' = 0
    /\ raised' = FALSE
    /\ UNCHANGED <<sums, settings, net, modbus, locals, changed, bootInputs>>

\* _iot.Run, and the test of the network state
RunNetwork ==
    /\ step = "run"
    /\ net' = IF net = "boot" THEN "offline" ELSE net
    /\ step' = IF net = "online" THEN "process" ELSE "monitor"
    /\ UNCHANGED <<sums, settings, modbus, channel, locals, history>>

\* The reading of the channel goes into the message.
ReadLevel ==
    /\ step = "process" /\ channel < analogInputs
    /\ numberOfSummations[channel] > 0
    /\ channel' = channel + 1
    /\ UNCHANGED <<sums, settings, net, modbus, step, locals, history>>

\* An integer division by zero is an exception: the device restarts.
ReadLevelCrash ==
    /\ step = "process" /\ channel < analogInputs
    /\ numberOfSummations[channel] = 0
    /\ Restart

ProcessEnd ==
    /\ step = "process" /\ channel >= analogInputs
    /\ step' = "monitor"
    /\ channel' = 0
    /\ UNCHANGED <<sums, settings, net, modbus, locals, history>>

LoopStep ==
    \/ \E c \in Channels : Sample(c) \/ MakeRoom(c) \/ AddValue(c)
    \/ MonitorEnd \/ RunNetwork \/ ReadLevel \/ ReadLevelCrash \/ ProcessEnd

-----------------------------------------------------------------------------
(***************************************************************************)
(* The network state machine, and the AsyncTCP task                        *)
(***************************************************************************)
\* NetworkManager leaves Boot in Run; GoOnline starts the Modbus server.
GoOnLine ==
    /\ net = "offline"
    /\ net' = "online"
    /\ modbus' = TRUE
    /\ UNCHANGED <<sums, settings, step, channel, locals, history>>

GoOffLine ==
    /\ net = "online"
    /\ net' = "offline"
    /\ UNCHANGED <<sums, settings, modbus, step, channel, locals, history>>

\* READ_INPUT_REGISTER checks its range against AI_PINS, not against analogInputs,
\* and reads a channel that was never sampled.  Reading another one changes nothing.
ReadRegisterCrash(c) ==
    /\ modbus
    /\ numberOfSummations[c] = 0
    /\ Restart

\* PLC::onSubmitForm takes each parameter that the form has: it is as many steps,
\* and each step is what a form with this parameter alone does.
SubmitAnalogInputs(k) ==
    /\ net # "boot"
    /\ analogInputs' = k
    /\ raised' = (raised \/ k > analogInputs)
    /\ UNCHANGED <<sums, adcReadingMin, adcReadingMax, net, modbus, step, channel, locals,
                   changed, bootInputs>>

SubmitMin(c, m) ==
    /\ net # "boot" /\ c < analogInputs
    /\ adcReadingMin' = [adcReadingMin EXCEPT ![c] = m]
    /\ changed' = changed \cup {c}
    /\ UNCHANGED <<sums, adcReadingMax, analogInputs, net, modbus, step, channel, locals,
                   raised, bootInputs>>

SubmitMax(c, m) ==
    /\ net # "boot" /\ c < analogInputs
    /\ adcReadingMax' = [adcReadingMax EXCEPT ![c] = m]
    /\ changed' = changed \cup {c}
    /\ UNCHANGED <<sums, adcReadingMin, analogInputs, net, modbus, step, channel, locals,
                   raised, bootInputs>>

Reboot ==
    /\ net # "boot"
    /\ Restart

-----------------------------------------------------------------------------
Next ==
    \/ LoopStep
    \/ GoOnLine \/ GoOffLine \/ Reboot
    \/ \E c \in Channels : ReadRegisterCrash(c)
    \/ \E k \in 0 .. AI_PINS : SubmitAnalogInputs(k)
    \/ \E c \in Channels, m \in Limits : SubmitMin(c, m) \/ SubmitMax(c, m)

Spec == Init /\ [][Next]_vars
\* The loop task runs for ever.
FairSpec == Spec /\ WF_vars(LoopStep)

-----------------------------------------------------------------------------
(***************************************************************************)
(* Properties                                                              *)
(***************************************************************************)
\* The loop is between the two updates that AddReading makes to channel c.
Updating(c) == step = "add" /\ channel = c

\* A level read now is within the limits of the channel.
InRange(c) ==
    adcReadingMin[c] <= adcReadingMax[c] /\ numberOfSummations[c] > 0 /\ ~Updating(c)
        => Level(c) <= adcReadingMax[c] - adcReadingMin[c]

\* With the limits that it had at boot, the level of a channel is within its range
\* whenever it can be read, by Process or by a Modbus request, except in the middle
\* of AddReading: dropping the rounded average and adding a reading never lets the
\* sum drift out of range, and the unsigned subtraction never wraps.
LevelInRange == \A c \in Channels \ changed : InRange(c)

\* Process never divides by the zero samples of a channel that Monitor passed over;
\* only raising analogInputs between the two can make it do so.
LoopReadsSampled ==
    step = "process" /\ channel < analogInputs /\ ~raised => numberOfSummations[channel] > 0

\* A Modbus request never divides by zero for a channel that was in use at boot: the
\* server starts only after a pass of the loop has sampled them all.
ModbusReadsSampled ==
    modbus => \A c \in 0 .. bootInputs - 1 : numberOfSummations[c] > 0

\* Once the settings stay as they are, the channels in use come back into their
\* range and stay there, however far off the new limits were from the rolling sum.
Recovers ==
    <>[][UNCHANGED settings]_vars =>
        <>[](\A c \in Channels : c < analogInputs => InRange(c))
=============================================================================
