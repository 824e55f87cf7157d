------------------------------- MODULE CoilBank -------------------------------
(***************************************************************************)
(* The digital outputs and inputs of class PLC (code/ESP32/main/PLC.cpp):  *)
(* the pins, the tables _digitalOutputCoils and _digitalInputDiscretes     *)
(* that the Modbus workers keep beside them, and the requests that read    *)
(* and write them.                                                         *)
(*                                                                         *)
(* The Modbus workers FC01, FC02, FC05 and FC0F run one at a time on the   *)
(* AsyncTCP task; each touches the pins one by one.  The MQTT task         *)
(* executes "Write Coil" commands meanwhile; they write an output and      *)
(* leave the coil table alone.  The inputs change when they will.          *)
(***************************************************************************)
EXTENDS Integers

CONSTANTS
    DO_PINS,       \* number of digital outputs
    DI_PINS,       \* number of digital inputs
    CoilBaseAddr,  \* _coil_base_addr, the Modbus address of the first coil
    DiscreteBaseAddr,  \* _discrete_input_base_addr, that of the first input
    Addresses,     \* the addresses requests carry
    Counts,        \* the counts of coils or inputs requests carry
    ByteCounts     \* the byte counts a write request carries

Words == 0 .. 65535    \* uint16_t

ASSUME PinsAssumption == DO_PINS \in Nat \ {0} /\ DI_PINS \in Nat \ {0}
ASSUME RequestsAssumption ==
    /\ CoilBaseAddr \in Words /\ DiscreteBaseAddr \in Words
    /\ Addresses \subseteq Words
    /\ Counts \subseteq Words
    /\ ByteCounts \subseteq 0 .. 255

Coils == 0 .. DO_PINS - 1
Inputs == 0 .. DI_PINS - 1

VARIABLES
    pins,       \* level of each output pin
    shadow,     \* _digitalOutputCoils
    inputs,     \* level of each input pin
    discretes,  \* _digitalInputDiscretes
    useMqtt,    \* _useMQTT: MQTT commands arrive
    op,         \* the Modbus function being executed, or "idle"
    start,      \* its first coil or input, relative to the base address
    num,        \* their number
    value,      \* the values it carries, by coil
    pos,        \* its loop counter
    raced,      \* history: coils MQTT wrote, or inputs that changed, since it began
    reply       \* the last response: status, coils or inputs read as on, echoed address

requestVars == <<op, start, num, value>>
inputVars == <<inputs, discretes>>
vars == <<pins, shadow, inputVars, useMqtt, requestVars, pos, raced, reply>>

-----------------------------------------------------------------------------
Functions == {"FC01", "FC02", "FC05", "FC0F"}
Statuses == {"none", "ok", "ILLEGAL_DATA_ADDRESS", "ILLEGAL_DATA_VALUE",
             "SERVER_DEVICE_FAILURE"}

TypeOK ==
    /\ pins \in [Coils -> BOOLEAN]
    /\ shadow \in [Coils -> BOOLEAN]
    /\ inputs \in [Inputs -> BOOLEAN]
    /\ discretes \in [Inputs -> BOOLEAN]
    /\ useMqtt \in BOOLEAN
    /\ op \in Functions \cup {"idle"}
    /\ start \in Words
    /\ num \in Words
    /\ value \in [Coils -> BOOLEAN]
    /\ pos \in (0 .. DO_PINS) \cup (0 .. DI_PINS)
    /\ raced \subseteq Coils \cup Inputs
    /\ reply \in [status : Statuses, bits : SUBSET (Coils \cup Inputs), first : Words]

NoReply == [status |-> "none", bits |-> {}, first |-> 0]
AllOff == [i \in Coils |-> FALSE]

\* setup leaves the outputs low and the tables cleared.
Init ==
    /\ pins = AllOff
    /\ shadow = AllOff
    /\ inputs \in [Inputs -> BOOLEAN]
    /\ discretes = [i \in Inputs |-> FALSE]
    /\ useMqtt \in BOOLEAN
    /\ op = "idle"
    /\ start = 0
    /\ num = 0
    /\ value = AllOff
    /\ pos = 0
    /\ raced = {}
    /\ reply = NoReply

-----------------------------------------------------------------------------
(***************************************************************************)
(* Requests                                                                *)
(***************************************************************************)
RelativeWide(addr) == addr - CoilBaseAddr      \* a mutant: start is an int

\* start -= CoilBaseAddr(), in 16 bits: an address below the base becomes large.
Relative(addr) == (addr - CoilBaseAddr) % 65536

\* The address of the request that start came from.
Requested(s) == (s + CoilBaseAddr) % 65536

RelativeInput(addr) == (addr - DiscreteBaseAddr) % 65536

\* The coils s .. s + n - 1 of the table, and the inputs.
Named(s, n) == {i \in Coils : s <= i /\ i < s + n}
NamedInputs(s, n) == {i \in Inputs : s <= i /\ i < s + n}

Begin(f, s, n, v) ==
    /\ op = "idle"
    /\ op' = f
    /\ start' = s
    /\ num' = n
    /\ value' = v
    /\ pos' = 0
    /\ raced' = {}
    /\ reply' = NoReply

\* The worker returns; its local variables are gone.
End(status, bits, first) ==
    /\ op' = "idle"
    /\ start' = 0
    /\ num' = 0
    /\ value' = AllOff
    /\ pos' = 0
    /\ raced' = {}
    /\ reply' = [status |-> status, bits |-> bits, first |-> first]

\* A request that is answered without touching a coil.
Refuse(status) ==
    /\ op = "idle"
    /\ End(status, {}, 0)
    /\ UNCHANGED <<pins, shadow, inputVars, useMqtt>>

-----------------------------------------------------------------------------
(***************************************************************************)
(* Mutants: plausible mistakes in the definitions below, used only to see  *)
(* that the properties notice them.                                        *)
(***************************************************************************)
RefreshShadowNever ==          \* FC01 answers from the table as it is
    /\ op = "FC01"
    /\ pos < DO_PINS
    /\ pos' = pos + 1
    /\ UNCHANGED <<shadow, pins, inputVars, useMqtt, requestVars, raced, reply>>

BeginWriteCoilPinOnly ==       \* FC05 does not keep the table up to date
    \E addr \in Addresses, on \in BOOLEAN :
        /\ Relative(addr) < DO_PINS
        /\ Begin("FC05", Relative(addr), 1, [i \in Coils |-> on])
        /\ UNCHANGED <<shadow, pins, inputVars, useMqtt>>

BeginWriteCoilsToEnd ==        \* FC0F sets the table to its end
    \E addr \in Addresses, n \in Counts, v \in [Coils -> BOOLEAN] :
        /\ Relative(addr) + n <= DO_PINS
        /\ n > 0
        /\ Begin("FC0F", Relative(addr), n, v)
        /\ shadow' = [i \in Coils |-> IF Relative(addr) <= i THEN v[i] ELSE shadow[i]]
        /\ UNCHANGED <<pins, inputVars, useMqtt>>

WritePinsShort ==              \* the loop over the pins ends one too early
    /\ op = "FC0F"
    /\ pos < DO_PINS
    /\ pins' = IF pos = DO_PINS - 1 THEN pins ELSE [pins EXCEPT ![pos] = shadow[pos]]
    /\ pos' = pos + 1
    /\ UNCHANGED <<shadow, inputVars, useMqtt, requestVars, raced, reply>>

RefreshDiscretesUnlessOn ==    \* an input that was on once stays on
    /\ op = "FC02"
    /\ pos < DI_PINS
    /\ discretes' = [discretes EXCEPT ![pos] = @ \/ inputs[pos]]
    /\ pos' = pos + 1
    /\ UNCHANGED <<pins, shadow, inputs, useMqtt, requestVars, raced, reply>>

-----------------------------------------------------------------------------
(***************************************************************************)
(* READ_COIL                                                               *)
(***************************************************************************)
\* The range check only sets the error; the rest runs all the same.
BeginRead ==
    \E addr \in Addresses, n \in Counts :
        /\ Begin("FC01", Relative(addr), n, AllOff)
        /\ UNCHANGED <<pins, shadow, inputVars, useMqtt>>

RefreshShadow ==
    /\ op = "FC01"
    /\ pos < DO_PINS
    /\ shadow' = [shadow EXCEPT ![pos] = pins[pos]]
    /\ pos' = pos + 1
    /\ UNCHANGED <<pins, inputVars, useMqtt, requestVars, raced, reply>>

\* CoilData::slice (external): nothing outside the table; a count of 0 means
\* the rest of it.
Slice(table, size, s, n) ==
    IF s + n > size THEN {}
    ELSE {i \in 0 .. size - 1 : s <= i /\ (n = 0 \/ i < s + n) /\ table[i]}

EndRead ==
    /\ op = "FC01"
    /\ pos = DO_PINS
    /\ End(IF start + num > DO_PINS THEN "ILLEGAL_DATA_ADDRESS" ELSE "ok",
           Slice(shadow, DO_PINS, start, num), 0)
    /\ UNCHANGED <<pins, shadow, inputVars, useMqtt>>

-----------------------------------------------------------------------------
(***************************************************************************)
(* READ_DISCR_INPUT                                                        *)
(***************************************************************************)
BeginReadInputs ==
    \E addr \in Addresses, n \in Counts :
        /\ Begin("FC02", RelativeInput(addr), n, AllOff)
        /\ UNCHANGED <<pins, shadow, inputVars, useMqtt>>

RefreshDiscretes ==
    /\ op = "FC02"
    /\ pos < DI_PINS
    /\ discretes' = [discretes EXCEPT ![pos] = inputs[pos]]
    /\ pos' = pos + 1
    /\ UNCHANGED <<pins, shadow, inputs, useMqtt, requestVars, raced, reply>>

EndReadInputs ==
    /\ op = "FC02"
    /\ pos = DI_PINS
    /\ End(IF start + num > DI_PINS THEN "ILLEGAL_DATA_ADDRESS" ELSE "ok",
           Slice(discretes, DI_PINS, start, num), 0)
    /\ UNCHANGED <<pins, shadow, inputVars, useMqtt>>

\* What is connected to the inputs (external).
InputChanges ==
    \E i \in Inputs :
        /\ inputs' = [inputs EXCEPT ![i] = ~@]
        /\ raced' = IF op = "FC02" THEN raced \cup {i} ELSE raced
        /\ UNCHANGED <<pins, shadow, discretes, useMqtt, requestVars, pos, reply>>

-----------------------------------------------------------------------------
(***************************************************************************)
(* WRITE_COIL.  The bound of the range check admits coil number DO_PINS,   *)
(* which CoilData::set then refuses.                                       *)
(***************************************************************************)
BeginWriteCoil ==
    \E addr \in Addresses, on \in BOOLEAN :
        LET s == Relative(addr) IN
        /\ s < DO_PINS
        /\ Begin("FC05", s, 1, [i \in Coils |-> on])
        /\ shadow' = [shadow EXCEPT ![s] = on]
        /\ UNCHANGED <<pins, inputVars, useMqtt>>

WritePin ==
    /\ op = "FC05"
    /\ pins' = [pins EXCEPT ![start] = value[start]]
    /\ End("ok", {}, Requested(start))     \* ECHO_RESPONSE: the request itself
    /\ UNCHANGED <<shadow, inputVars, useMqtt>>

\* validData: the state is 0x0000 or 0xFF00.
RefuseWriteCoil ==
    \E addr \in Addresses, validData \in BOOLEAN :
        LET s == Relative(addr) IN
        \/ /\ s > DO_PINS
           /\ Refuse("ILLEGAL_DATA_ADDRESS")
        \/ /\ s <= DO_PINS /\ ~validData
           /\ Refuse("ILLEGAL_DATA_VALUE")
        \/ /\ s = DO_PINS /\ validData
           /\ Refuse("SERVER_DEVICE_FAILURE")

-----------------------------------------------------------------------------
(***************************************************************************)
(* WRITE_MULT_COILS: the table is set for the coils named, then every pin  *)
(* is written from the table.                                              *)
(***************************************************************************)
BytesFor(n) == ((n - 1) \div 8) + 1

\* The values of a request, which has none for coils it does not name.
ValuesFor(coils) == {v \in [Coils -> BOOLEAN] : \A i \in Coils \ coils : ~v[i]}

BeginWriteCoils ==
    \E addr \in Addresses, n \in Counts :
        LET s == Relative(addr) IN
        /\ s + n <= DO_PINS
        /\ BytesFor(n) \in ByteCounts
        /\ n > 0
        /\ \E v \in ValuesFor(Named(s, n)) :
             /\ Begin("FC0F", s, n, v)
             /\ shadow' = [i \in Coils |-> IF i \in Named(s, n) THEN v[i] ELSE shadow[i]]
        /\ UNCHANGED <<pins, inputVars, useMqtt>>

WritePins ==
    /\ op = "FC0F"
    /\ pos < DO_PINS
    /\ pins' = [pins EXCEPT ![pos] = shadow[pos]]
    /\ pos' = pos + 1
    /\ UNCHANGED <<shadow, inputVars, useMqtt, requestVars, raced, reply>>

EndWriteCoils ==
    /\ op = "FC0F"
    /\ pos = DO_PINS
    /\ End("ok", {}, start)                \* start has lost the base address
    /\ UNCHANGED <<pins, shadow, inputVars, useMqtt>>

\* complete: the message holds the bytes it announces.  CoilData::set (external)
\* refuses an empty range and missing bytes.
RefuseWriteCoils ==
    \E addr \in Addresses, n \in Counts, bytes \in ByteCounts, complete \in BOOLEAN :
        LET fits == Relative(addr) + n <= DO_PINS
            exact == bytes = BytesFor(n)
        IN  \/ ~fits /\ Refuse("ILLEGAL_DATA_ADDRESS")
            \/ fits /\ ~exact /\ Refuse("ILLEGAL_DATA_VALUE")
            \/ fits /\ exact /\ (n = 0 \/ ~complete) /\ Refuse("SERVER_DEVICE_FAILURE")

-----------------------------------------------------------------------------
(***************************************************************************)
(* The MQTT command {"command": "Write Coil", "coil": c + 1, "state": ..}. *)
(* A coil number outside 1 .. DO_PINS or a wrong state changes nothing.    *)
(***************************************************************************)
MqttWriteCoil ==
    \E c \in Coils, on \in BOOLEAN :
        /\ useMqtt
        /\ pins' = [pins EXCEPT ![c] = on]
        /\ raced' = IF op \in {"idle", "FC02"} THEN raced ELSE raced \cup {c}
        /\ UNCHANGED <<shadow, inputVars, useMqtt, requestVars, pos, reply>>

-----------------------------------------------------------------------------
Next ==
    \/ BeginRead \/ RefreshShadow \/ EndRead
    \/ BeginWriteCoil \/ WritePin \/ RefuseWriteCoil
    \/ BeginWriteCoils \/ WritePins \/ EndWriteCoils \/ RefuseWriteCoils
    \/ BeginReadInputs \/ RefreshDiscretes \/ EndReadInputs
    \/ MqttWriteCoil \/ InputChanges

Spec == Init /\ [][Next]_vars

-----------------------------------------------------------------------------
(***************************************************************************)
(* Properties                                                              *)
(***************************************************************************)
\* Write Multiple Coils changes only the coils it names, "first coil to be set,
\* number of coils" (PLC.cpp:312), also after MQTT commands.
WriteCoilsInRange ==
    WritePins => \A i \in Coils : pins'[i] # pins[i] => i \in Named(start, num)
WriteCoilsStaysInRange == [][WriteCoilsInRange]_vars

\* "return shortened echo response, like the standard says" (PLC.cpp:336): the
\* response to Write Multiple Coils repeats the address of the request.
EchoIsRequest ==
    op = "FC0F" /\ reply'.status = "ok" => reply'.first = Requested(start)
WriteCoilsEchoesAddress == [][EchoIsRequest]_vars

\* A coil read reports the outputs as they are, whoever wrote them last; only a
\* coil that MQTT writes during the read may be reported with its earlier level.
ReadIsCurrent ==
    op = "FC01" /\ reply'.status = "ok" =>
        \A i \in Named(start, num) \ raced : (i \in reply'.bits) = pins[i]
ReadReportsOutputs == [][ReadIsCurrent]_vars

\* So does a read of inputs, although the table is shared by all requests and the
\* bits of the one before are still in it; an input that changes during the read may
\* be reported with either level (PLC.cpp 255-259).
InputsAreCurrent ==
    op = "FC02" /\ reply'.status = "ok" =>
        \A i \in NamedInputs(start, num) \ raced : (i \in reply'.bits) = inputs[i]
ReadReportsInputs == [][InputsAreCurrent]_vars

\* When a write is acknowledged, the outputs it names have the values it carries,
\* except for those that MQTT wrote meanwhile.
AcknowledgedIsDone ==
    op \in {"FC05", "FC0F"} /\ reply'.status = "ok" =>
        \A i \in Named(start, num) \ raced : pins'[i] = value[i]
AcknowledgedWriteIsDone == [][AcknowledgedIsDone]_vars

\* The outputs implement the promise of CoilRegisters: the coils a request names take
\* its values one by one, and no other output changes, although Write Multiple Coils
\* writes every pin from the table (PLC.cpp:332) and reads write the table; unless an
\* MQTT command has written a pin behind its back.
Unwritten ==
    CASE op = "FC05" -> {start}
      [] op = "FC0F" -> {i \in Named(start, num) : i >= pos}
      [] OTHER       -> {}

Registers == INSTANCE CoilRegisters WITH
    coils   <- pins,
    shared  <- useMqtt,
    toSet   <- {i \in Unwritten : value[i]},
    toClear <- {i \in Unwritten : ~value[i]}
RegistersSpec == Registers!Spec
=============================================================================
