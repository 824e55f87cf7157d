---------------------------- MODULE CoilBankProofs ----------------------------
(***************************************************************************)
(* Proofs about CoilBank: for any number of outputs and inputs, any base   *)
(* addresses and any requests.  The inductive invariant says what the      *)
(* tables know about the pins at every point of a request.                 *)
(***************************************************************************)
EXTENDS CoilBank, TLAPS

-----------------------------------------------------------------------------
(***************************************************************************)
(* The inductive invariant                                                 *)
(***************************************************************************)
\* What the range checks have let through; the response comes last.
WellFormed ==
    /\ op # "idle" => reply = NoReply
    /\ op = "FC05" => start \in Coils /\ num = 1
    /\ op = "FC0F" => num > 0 /\ start + num <= DO_PINS

\* A write puts its values into the table before it touches a pin.
TableHasValues ==
    op \in {"FC05", "FC0F"} => \A i \in Named(start, num) : shadow[i] = value[i]

\* Without MQTT commands the table and the pins differ only where the running write
\* has not been yet.
TableFollowsPins ==
    ~useMqtt => \A i \in Coils \ Unwritten : shadow[i] = pins[i]

\* The loops of FC01, FC0F and FC02 have done their work below pos, except where an
\* MQTT command has written, or an input has changed, since.
LoopHasPassed ==
    /\ op = "FC01" => \A i \in Coils \ raced : i < pos => shadow[i] = pins[i]
    /\ op = "FC0F" => \A i \in Named(start, num) \ raced : i < pos => pins[i] = value[i]
    /\ op = "FC02" => \A i \in Inputs \ raced : i < pos => discretes[i] = inputs[i]

IInv == TypeOK /\ WellFormed /\ TableHasValues /\ TableFollowsPins /\ LoopHasPassed

-----------------------------------------------------------------------------
(***************************************************************************)
(* Type correctness                                                        *)
(***************************************************************************)
LEMMA Word16 == \A x \in Int : x % 65536 \in Words
BY DEF Words

LEMMA WordsAreNat == Words \subseteq Nat /\ 0 \in Words /\ 1 \in Words
BY DEF Words

LEMMA RelativeIsWord ==
    ASSUME NEW addr \in Addresses
    PROVE  Relative(addr) \in Words
<1>1. addr \in Int /\ CoilBaseAddr \in Int
    BY RequestsAssumption, WordsAreNat
<1> QED
    BY <1>1, Word16 DEF Relative

LEMMA RelativeInputIsWord ==
    ASSUME NEW addr \in Addresses
    PROVE  RelativeInput(addr) \in Words
<1>1. addr \in Int /\ DiscreteBaseAddr \in Int
    BY RequestsAssumption, WordsAreNat
<1> QED
    BY <1>1, Word16 DEF RelativeInput

LEMMA RequestedIsWord ==
    ASSUME NEW s \in Words
    PROVE  Requested(s) \in Words
<1>1. s \in Int /\ CoilBaseAddr \in Int
    BY RequestsAssumption, WordsAreNat
<1> QED
    BY <1>1, Word16 DEF Requested

\* What a read reports is in its table.
LEMMA SliceOfTable ==
    ASSUME NEW table, NEW size, NEW s, NEW n
    PROVE  Slice(table, size, s, n) \subseteq 0 .. size - 1
BY DEF Slice

\* A response of the right shape, whatever request it ends.
LEMMA EndKeepsTypes ==
    ASSUME TypeOK,
           NEW status \in Statuses, NEW bits \in SUBSET (Coils \cup Inputs), NEW first \in Words,
           End(status, bits, first),
           pins' \in [Coils -> BOOLEAN], UNCHANGED <<shadow, inputVars, useMqtt>>
    PROVE  TypeOK'
BY PinsAssumption, WordsAreNat DEF TypeOK, End, AllOff, requestVars, inputVars

LEMMA BeginKeepsTypes ==
    ASSUME TypeOK,
           NEW f \in Functions, NEW s \in Words, NEW n \in Words,
           NEW v \in [Coils -> BOOLEAN],
           Begin(f, s, n, v),
           shadow' \in [Coils -> BOOLEAN], UNCHANGED <<pins, inputVars, useMqtt>>
    PROVE  TypeOK'
BY PinsAssumption, WordsAreNat DEF TypeOK, Begin, NoReply, Statuses, requestVars, inputVars

\* The types of CoilBank hold in every reachable state: a relative address stays a
\* 16-bit word however small the requested one was.
THEOREM TypeCorrect == Spec => []TypeOK
<1>1. Init => TypeOK
    BY PinsAssumption, WordsAreNat DEF Init, TypeOK, AllOff, NoReply, Statuses
<1>2. TypeOK /\ [Next]_vars => TypeOK'
    <2> SUFFICES ASSUME TypeOK, [Next]_vars PROVE TypeOK'
        OBVIOUS
    <2>1. CASE BeginRead
        <3>1. PICK addr \in Addresses, n \in Counts :
                  /\ Begin("FC01", Relative(addr), n, AllOff)
                  /\ UNCHANGED <<pins, shadow, inputVars, useMqtt>>
            BY <2>1 DEF BeginRead
        <3>2. Relative(addr) \in Words /\ n \in Words /\ "FC01" \in Functions
            BY RelativeIsWord, RequestsAssumption DEF Functions
        <3>3. AllOff \in [Coils -> BOOLEAN] /\ shadow' \in [Coils -> BOOLEAN]
            BY <3>1 DEF AllOff, TypeOK
        <3> QED
            BY <3>1, <3>2, <3>3, BeginKeepsTypes
    <2>2. CASE RefreshShadow
        BY <2>2, PinsAssumption DEF RefreshShadow, TypeOK, Coils, requestVars, inputVars
    <2>3. CASE EndRead
        <3>1. Slice(shadow, DO_PINS, start, num) \in SUBSET (Coils \cup Inputs)
            BY SliceOfTable DEF Coils
        <3> QED
            BY <2>3, <3>1, EndKeepsTypes, WordsAreNat DEF EndRead, Statuses, TypeOK
    <2>4. CASE BeginWriteCoil
        <3>1. PICK addr \in Addresses, on \in BOOLEAN :
                  /\ Relative(addr) < DO_PINS
                  /\ Begin("FC05", Relative(addr), 1, [i \in Coils |-> on])
                  /\ shadow' = [shadow EXCEPT ![Relative(addr)] = on]
                  /\ UNCHANGED <<pins, inputVars, useMqtt>>
            BY <2>4 DEF BeginWriteCoil
        <3>2. Relative(addr) \in Words /\ "FC05" \in Functions
            BY RelativeIsWord DEF Functions
        <3>3. shadow' \in [Coils -> BOOLEAN] /\ [i \in Coils |-> on] \in [Coils -> BOOLEAN]
            BY <3>1 DEF TypeOK
        <3> QED
            BY <3>1, <3>2, <3>3, BeginKeepsTypes, WordsAreNat
    <2>5. CASE WritePin
        <3>1. pins' \in [Coils -> BOOLEAN] /\ Requested(start) \in Words
            BY <2>5, RequestedIsWord DEF WritePin, TypeOK
        <3> QED
            BY <2>5, <3>1, EndKeepsTypes DEF WritePin, Statuses
    <2>6. CASE RefuseWriteCoil
        <3>1. PICK status \in Statuses : Refuse(status)
            BY <2>6 DEF RefuseWriteCoil, Statuses
        <3> QED
            BY <3>1, EndKeepsTypes, WordsAreNat DEF Refuse, TypeOK
    <2>7. CASE BeginWriteCoils
        <3>1. PICK addr \in Addresses, n \in Counts, v \in [Coils -> BOOLEAN] :
                  /\ Begin("FC0F", Relative(addr), n, v)
                  /\ shadow' = [i \in Coils |-> IF i \in Named(Relative(addr), n)
                                                 THEN v[i] ELSE shadow[i]]
                  /\ UNCHANGED <<pins, inputVars, useMqtt>>
            BY <2>7 DEF BeginWriteCoils, ValuesFor
        <3>2. Relative(addr) \in Words /\ n \in Words /\ "FC0F" \in Functions
            BY RelativeIsWord, RequestsAssumption DEF Functions
        <3>3. shadow' \in [Coils -> BOOLEAN]
            BY <3>1 DEF TypeOK
        <3> QED
            BY <3>1, <3>2, <3>3, BeginKeepsTypes
    <2>8. CASE WritePins
        BY <2>8, PinsAssumption DEF WritePins, TypeOK, Coils, requestVars, inputVars
    <2>9. CASE EndWriteCoils
        BY <2>9, EndKeepsTypes DEF EndWriteCoils, Statuses, TypeOK
    <2>10. CASE RefuseWriteCoils
        <3>1. PICK status \in Statuses : Refuse(status)
            BY <2>10 DEF RefuseWriteCoils, Statuses
        <3> QED
            BY <3>1, EndKeepsTypes, WordsAreNat DEF Refuse, TypeOK
    <2>11. CASE MqttWriteCoil
        BY <2>11 DEF MqttWriteCoil, TypeOK, requestVars, inputVars
    <2>12. CASE BeginReadInputs
        <3>1. PICK addr \in Addresses, n \in Counts :
                  /\ Begin("FC02", RelativeInput(addr), n, AllOff)
                  /\ UNCHANGED <<pins, shadow, inputVars, useMqtt>>
            BY <2>12 DEF BeginReadInputs
        <3>2. RelativeInput(addr) \in Words /\ n \in Words /\ "FC02" \in Functions
            BY RelativeInputIsWord, RequestsAssumption DEF Functions
        <3>3. AllOff \in [Coils -> BOOLEAN] /\ shadow' \in [Coils -> BOOLEAN]
            BY <3>1 DEF AllOff, TypeOK
        <3> QED
            BY <3>1, <3>2, <3>3, BeginKeepsTypes
    <2>13. CASE RefreshDiscretes
        BY <2>13, PinsAssumption DEF RefreshDiscretes, TypeOK, Inputs, requestVars
    <2>14. CASE EndReadInputs
        <3>1. Slice(discretes, DI_PINS, start, num) \in SUBSET (Coils \cup Inputs)
            BY SliceOfTable DEF Inputs
        <3> QED
            BY <2>14, <3>1, EndKeepsTypes, WordsAreNat DEF EndReadInputs, Statuses, TypeOK
    <2>15. CASE InputChanges
        BY <2>15 DEF InputChanges, TypeOK, requestVars
    <2>16. CASE UNCHANGED vars
        BY <2>16 DEF vars, TypeOK, requestVars, inputVars
    <2> QED
        BY <2>1, <2>2, <2>3, <2>4, <2>5, <2>6, <2>7, <2>8, <2>9, <2>10, <2>11, <2>12,
           <2>13, <2>14, <2>15, <2>16 DEF Next
<1> QED
    BY <1>1, <1>2, PTL DEF Spec
-----------------------------------------------------------------------------
(***************************************************************************)
(* The inductive invariant holds                                           *)
(***************************************************************************)
Table == WellFormed /\ TableHasValues /\ TableFollowsPins /\ LoopHasPassed

\* A request that ends, or is refused, leaves no obligation but the last of Table.
LEMMA EndKeepsTable ==
    ASSUME TypeOK, Table, UNCHANGED <<shadow, useMqtt>>,
           NEW status, NEW bits, NEW first, End(status, bits, first),
           ~useMqtt => \A i \in Coils : shadow[i] = pins'[i]
    PROVE  Table'
BY DEF Table, WellFormed, TableHasValues, TableFollowsPins, LoopHasPassed, Unwritten, End

LEMMA TableInductive ==
    ASSUME TypeOK, TypeOK', Table, [Next]_vars
    PROVE  Table'
<1> USE PinsAssumption, WordsAreNat
<1>1. CASE BeginRead
    <2>1. op = "idle" /\ op' = "FC01" /\ pos' = 0 /\ reply' = NoReply
          /\ UNCHANGED <<pins, shadow, useMqtt>>
        BY <1>1 DEF BeginRead, Begin
    <2> QED
        BY <2>1 DEF Table, WellFormed, TableHasValues, TableFollowsPins, LoopHasPassed,
                    Unwritten, Coils
<1>2. CASE RefreshShadow
    <2>1. /\ op = "FC01" /\ pos \in Coils /\ pos' = pos + 1
          /\ shadow' = [shadow EXCEPT ![pos] = pins[pos]]
          /\ UNCHANGED <<pins, useMqtt, op, start, num, value, raced, reply>>
        BY <1>2 DEF RefreshShadow, requestVars, TypeOK, Coils
    <2>2. TableFollowsPins'
        BY <2>1 DEF Table, TableFollowsPins, Unwritten, TypeOK
    <2>3. LoopHasPassed'
        BY <2>1 DEF Table, LoopHasPassed, Coils, TypeOK
    <2> QED
        BY <2>1, <2>2, <2>3 DEF Table, WellFormed, TableHasValues
<1>3. CASE EndRead
    <2>1. ~useMqtt => \A i \in Coils : shadow[i] = pins'[i]
        BY <1>3 DEF EndRead, Table, TableFollowsPins, Unwritten
    <2> QED
        BY <1>3, <2>1, EndKeepsTable DEF EndRead
<1>4. CASE BeginWriteCoil
    <2>1. PICK addr \in Addresses, on \in BOOLEAN :
              /\ Relative(addr) < DO_PINS
              /\ Begin("FC05", Relative(addr), 1, [i \in Coils |-> on])
              /\ shadow' = [shadow EXCEPT ![Relative(addr)] = on]
              /\ UNCHANGED <<pins, useMqtt>>
        BY <1>4 DEF BeginWriteCoil
    <2>2. Relative(addr) \in Coils
        <3>1. Relative(addr) \in Nat /\ Relative(addr) < DO_PINS
            BY <2>1, RelativeIsWord
        <3> QED
            BY <3>1 DEF Coils
    <2>3. /\ op = "idle" /\ op' = "FC05" /\ start' = Relative(addr) /\ num' = 1
          /\ value' = [i \in Coils |-> on] /\ reply' = NoReply
        BY <2>1 DEF Begin
    <2>4. Named(start', 1) = {start'}
        BY <2>2, <2>3 DEF Named, Coils
    <2> QED
        BY <2>1, <2>2, <2>3, <2>4 DEF Table, WellFormed, TableHasValues, TableFollowsPins,
               LoopHasPassed, Unwritten, TypeOK
<1>5. CASE WritePin
    <2>1. /\ op = "FC05" /\ start \in Coils
          /\ pins' = [pins EXCEPT ![start] = value[start]]
          /\ shadow[start] = value[start]
        <3>1. op = "FC05" /\ start \in Named(start, num)
            BY <1>5 DEF WritePin, Table, WellFormed, Named, Coils
        <3> QED
            BY <1>5, <3>1 DEF WritePin, Table, WellFormed, TableHasValues
    <2>2. ~useMqtt => \A i \in Coils : shadow[i] = pins'[i]
        BY <2>1 DEF Table, TableFollowsPins, Unwritten, TypeOK
    <2> QED
        BY <1>5, <2>2, EndKeepsTable DEF WritePin
<1>6. CASE RefuseWriteCoil
    <2>1. PICK status : Refuse(status)
        BY <1>6 DEF RefuseWriteCoil
    <2> QED
        BY <2>1, EndKeepsTable DEF Refuse, Table, TableFollowsPins, Unwritten
<1>7. CASE BeginWriteCoils
    <2>1. PICK addr \in Addresses, n \in Counts, v \in [Coils -> BOOLEAN] :
              /\ Relative(addr) + n <= DO_PINS
              /\ n > 0
              /\ Begin("FC0F", Relative(addr), n, v)
              /\ shadow' = [i \in Coils |-> IF i \in Named(Relative(addr), n)
                                             THEN v[i] ELSE shadow[i]]
              /\ UNCHANGED <<pins, useMqtt>>
        BY <1>7 DEF BeginWriteCoils, ValuesFor
    <2>2. /\ op = "idle" /\ op' = "FC0F" /\ start' = Relative(addr) /\ num' = n /\ value' = v
          /\ pos' = 0 /\ reply' = NoReply
        BY <2>1 DEF Begin
    <2>3. Unwritten' = Named(Relative(addr), n) /\ Unwritten = {}
        BY <2>2 DEF Unwritten, Named, Coils
    <2>4. Named(Relative(addr), n) \subseteq Coils
        BY DEF Named
    <2> QED
        BY <2>1, <2>2, <2>3, <2>4 DEF Table, WellFormed, TableHasValues, TableFollowsPins,
               LoopHasPassed, Coils
<1>8. CASE WritePins
    <2>1. /\ op = "FC0F" /\ pos \in Coils /\ pos' = pos + 1
          /\ pins' = [pins EXCEPT ![pos] = shadow[pos]]
          /\ UNCHANGED <<shadow, useMqtt, op, start, num, value, raced, reply>>
        BY <1>8 DEF WritePins, requestVars, TypeOK, Coils
    <2>2. Unwritten' = Unwritten \ {pos}
        BY <2>1 DEF Unwritten, Named, Coils
    <2>3. TableFollowsPins'
        BY <2>1, <2>2 DEF Table, TableFollowsPins, TypeOK
    <2>4. LoopHasPassed'
        BY <2>1 DEF Table, LoopHasPassed, TableHasValues, Named, Coils, TypeOK
    <2> QED
        BY <2>1, <2>3, <2>4 DEF Table, WellFormed, TableHasValues
<1>9. CASE EndWriteCoils
    <2>1. Unwritten = {}
        BY <1>9 DEF EndWriteCoils, Unwritten, Named, Coils
    <2> QED
        BY <1>9, <2>1, EndKeepsTable DEF EndWriteCoils, Table, TableFollowsPins
<1>10. CASE RefuseWriteCoils
    <2>1. PICK status : Refuse(status)
        BY <1>10 DEF RefuseWriteCoils
    <2> QED
        BY <2>1, EndKeepsTable DEF Refuse, Table, TableFollowsPins, Unwritten
<1>11. CASE MqttWriteCoil
    <2>1. PICK c \in Coils, on \in BOOLEAN :
              /\ useMqtt
              /\ pins' = [pins EXCEPT ![c] = on]
              /\ raced' = IF op \in {"idle", "FC02"} THEN raced ELSE raced \cup {c}
              /\ UNCHANGED <<shadow, inputs, discretes, useMqtt,
                            op, start, num, value, pos, reply>>
        BY <1>11 DEF MqttWriteCoil, requestVars, inputVars
    <2> QED
        BY <2>1 DEF Table, WellFormed, TableHasValues, TableFollowsPins, LoopHasPassed, TypeOK,
                    Named
<1>12. CASE BeginReadInputs
    <2>1. op = "idle" /\ op' = "FC02" /\ pos' = 0 /\ reply' = NoReply
          /\ UNCHANGED <<pins, shadow, useMqtt>>
        BY <1>12 DEF BeginReadInputs, Begin
    <2> QED
        BY <2>1 DEF Table, WellFormed, TableHasValues, TableFollowsPins, LoopHasPassed,
                    Unwritten, Inputs
<1>13. CASE RefreshDiscretes
    <2>1. /\ op = "FC02" /\ pos \in Inputs /\ pos' = pos + 1
          /\ discretes' = [discretes EXCEPT ![pos] = inputs[pos]]
          /\ UNCHANGED <<pins, shadow, inputs, useMqtt, op, start, num, value, raced, reply>>
        BY <1>13 DEF RefreshDiscretes, requestVars, TypeOK, Inputs
    <2>2. LoopHasPassed'
        BY <2>1 DEF Table, LoopHasPassed, Inputs, TypeOK
    <2> QED
        BY <2>1, <2>2 DEF Table, WellFormed, TableHasValues, TableFollowsPins, Unwritten
<1>14. CASE EndReadInputs
    <2>1. ~useMqtt => \A i \in Coils : shadow[i] = pins'[i]
        BY <1>14 DEF EndReadInputs, Table, TableFollowsPins, Unwritten
    <2> QED
        BY <1>14, <2>1, EndKeepsTable DEF EndReadInputs
<1>15. CASE InputChanges
    <2>1. PICK i \in Inputs :
              /\ inputs' = [inputs EXCEPT ![i] = ~inputs[i]]
              /\ raced' = IF op = "FC02" THEN raced \cup {i} ELSE raced
              /\ UNCHANGED <<pins, shadow, discretes, useMqtt, op, start, num, value, pos, reply>>
        BY <1>15 DEF InputChanges, requestVars
    <2> QED
        BY <2>1 DEF Table, WellFormed, TableHasValues, TableFollowsPins, LoopHasPassed, TypeOK,
                    Unwritten
<1>16. CASE UNCHANGED vars
    BY <1>16 DEF vars, requestVars, inputVars, Table, WellFormed, TableHasValues,
                 TableFollowsPins, LoopHasPassed, Unwritten
<1> QED
    BY <1>1, <1>2, <1>3, <1>4, <1>5, <1>6, <1>7, <1>8, <1>9, <1>10, <1>11, <1>12,
       <1>13, <1>14, <1>15, <1>16 DEF Next

\* The table and the pins stay related as IInv says.
THEOREM Invariance == Spec => []IInv
<1>1. Init => Table
    BY DEF Init, Table, WellFormed, TableHasValues, TableFollowsPins, LoopHasPassed, AllOff
<1>2. TypeOK /\ TypeOK' /\ Table /\ [Next]_vars => Table'
    BY TableInductive
<1>3. TypeOK /\ Table => IInv
    BY DEF Table, IInv
<1> QED
    BY <1>1, <1>2, <1>3, TypeCorrect, PTL DEF Spec
-----------------------------------------------------------------------------
(***************************************************************************)
(* What the responses say                                                  *)
(***************************************************************************)
\* An acknowledged write is done, unless MQTT commands undid it meanwhile: the loop
\* over the pins has passed every coil that the request names.
THEOREM AcknowledgedWrites == Spec => AcknowledgedWriteIsDone
<1>1. IInv /\ [Next]_vars => [AcknowledgedIsDone]_vars
    <2> SUFFICES ASSUME IInv, Next,
                        op \in {"FC05", "FC0F"}, reply'.status = "ok",
                        NEW i \in Named(start, num) \ raced
                 PROVE  pins'[i] = value[i]
        BY DEF AcknowledgedIsDone
    <2>1. reply' # reply
        BY DEF IInv, WellFormed, NoReply
    <2>2. WritePin \/ EndWriteCoils
        BY <2>1 DEF Next, BeginRead, RefreshShadow, EndRead, BeginWriteCoil, RefuseWriteCoil,
               BeginWriteCoils, WritePins, RefuseWriteCoils, MqttWriteCoil, Begin, Refuse,
               BeginReadInputs, RefreshDiscretes, EndReadInputs, InputChanges
    <2>3. CASE WritePin
        <3>1. op = "FC05" /\ pins' = [pins EXCEPT ![start] = value[start]] /\ start \in Coils
            BY <2>3 DEF WritePin, IInv, WellFormed
        <3>2. i = start
            BY <3>1, WordsAreNat DEF IInv, WellFormed, Named, Coils
        <3> QED
            BY <3>1, <3>2 DEF IInv, TypeOK
    <2>4. CASE EndWriteCoils
        BY <2>4, PinsAssumption DEF EndWriteCoils, IInv, LoopHasPassed, Named, Coils
    <2> QED
        BY <2>2, <2>3, <2>4
<1> QED
    BY <1>1, Invariance, PTL DEF Spec, AcknowledgedWriteIsDone

\* A read that is answered reports the pins, whoever wrote them: the table was
\* refreshed from them below pos, and pos has reached the end.
THEOREM ReadsAreCurrent == Spec => ReadReportsOutputs
<1>1. IInv /\ [Next]_vars => [ReadIsCurrent]_vars
    <2> SUFFICES ASSUME IInv, Next,
                        op = "FC01", reply'.status = "ok",
                        NEW i \in Named(start, num) \ raced
                 PROVE  (i \in reply'.bits) = pins[i]
        BY DEF ReadIsCurrent
    <2>1. reply' # reply
        BY DEF IInv, WellFormed, NoReply
    <2>2. EndRead
        BY <2>1 DEF Next, BeginRead, RefreshShadow, WritePin, EndWriteCoils, BeginWriteCoil,
               RefuseWriteCoil, BeginWriteCoils, WritePins, RefuseWriteCoils, MqttWriteCoil,
               Begin, Refuse, BeginReadInputs, RefreshDiscretes, EndReadInputs, InputChanges
    <2>3. start + num <= DO_PINS /\ reply'.bits = Slice(shadow, DO_PINS, start, num)
        BY <2>2, WordsAreNat, PinsAssumption DEF EndRead, End, IInv, TypeOK
    <2>4. num # 0 /\ i \in Coils
        BY WordsAreNat DEF Named, Coils, IInv, TypeOK
    <2>5. shadow[i] = pins[i]
        BY <2>2, <2>4, PinsAssumption DEF EndRead, IInv, LoopHasPassed, Coils
    <2>6. (i \in Slice(shadow, DO_PINS, start, num)) = shadow[i]
        <3>1. ~(start + num > DO_PINS)
            BY <2>3, WordsAreNat, PinsAssumption DEF IInv, TypeOK
        <3>2. Slice(shadow, DO_PINS, start, num) = {j \in Named(start, num) : shadow[j]}
            BY <2>4, <3>1 DEF Slice, Named, Coils
        <3>3. shadow[i] \in BOOLEAN
            BY <2>4 DEF IInv, TypeOK
        <3> QED
            BY <3>2, <3>3
    <2> QED
        BY <2>3, <2>5, <2>6
<1> QED
    BY <1>1, Invariance, PTL DEF Spec, ReadReportsOutputs

\* The same of the inputs.
THEOREM InputReadsAreCurrent == Spec => ReadReportsInputs
<1>1. IInv /\ [Next]_vars => [InputsAreCurrent]_vars
    <2> SUFFICES ASSUME IInv, Next,
                        op = "FC02", reply'.status = "ok",
                        NEW i \in NamedInputs(start, num) \ raced
                 PROVE  (i \in reply'.bits) = inputs[i]
        BY DEF InputsAreCurrent
    <2>1. reply' # reply
        BY DEF IInv, WellFormed, NoReply
    <2>2. EndReadInputs
        BY <2>1 DEF Next, BeginRead, RefreshShadow, EndRead, WritePin, EndWriteCoils,
               BeginWriteCoil, RefuseWriteCoil, BeginWriteCoils, WritePins, RefuseWriteCoils,
               MqttWriteCoil, Begin, Refuse, BeginReadInputs, RefreshDiscretes, InputChanges
    <2>3. start + num <= DI_PINS /\ reply'.bits = Slice(discretes, DI_PINS, start, num)
        BY <2>2, WordsAreNat, PinsAssumption DEF EndReadInputs, End, IInv, TypeOK
    <2>4. num # 0 /\ i \in Inputs
        BY WordsAreNat DEF NamedInputs, Inputs, IInv, TypeOK
    <2>5. discretes[i] = inputs[i]
        BY <2>2, <2>4, PinsAssumption DEF EndReadInputs, IInv, LoopHasPassed, Inputs
    <2>6. (i \in Slice(discretes, DI_PINS, start, num)) = discretes[i]
        <3>1. ~(start + num > DI_PINS)
            BY <2>3, WordsAreNat, PinsAssumption DEF IInv, TypeOK
        <3>2. Slice(discretes, DI_PINS, start, num)
                  = {j \in NamedInputs(start, num) : discretes[j]}
            BY <2>4, <3>1 DEF Slice, NamedInputs, Inputs
        <3>3. discretes[i] \in BOOLEAN
            BY <2>4 DEF IInv, TypeOK
        <3> QED
            BY <3>2, <3>3
    <2> QED
        BY <2>3, <2>5, <2>6
<1> QED
    BY <1>1, Invariance, PTL DEF Spec, ReadReportsInputs
-----------------------------------------------------------------------------
(***************************************************************************)
(* Addresses.  A count and a relative address are 16 bits wide each and    *)
(* their sum is wider, so the range check cannot be fooled by an address   *)
(* below the base.                                                         *)
(***************************************************************************)
LEMMA WordRange == \A x \in Words : x \in Int /\ 0 <= x /\ x < 65536
BY DEF Words

LEMMA Mod16 ==
    ASSUME NEW x \in Int, 0 <= x, x < 65536
    PROVE  x % 65536 = x /\ (x + 65536) % 65536 = x /\ (x - 65536) % 65536 = x
OBVIOUS

\* A relative address, by where the address lies.
LEMMA RelativeAddress ==
    ASSUME NEW addr \in Addresses
    PROVE  /\ addr >= CoilBaseAddr => Relative(addr) = addr - CoilBaseAddr
           /\ addr < CoilBaseAddr => Relative(addr) = addr - CoilBaseAddr + 65536
<1>1. /\ addr \in Int /\ 0 <= addr /\ addr < 65536
      /\ CoilBaseAddr \in Int /\ 0 <= CoilBaseAddr /\ CoilBaseAddr < 65536
    BY RequestsAssumption, WordRange
<1>2. CASE addr >= CoilBaseAddr
    <2> DEFINE x == addr - CoilBaseAddr
    <2>1. x \in Int /\ 0 <= x /\ x < 65536
        BY <1>1, <1>2
    <2>2. x % 65536 = x
        BY <2>1, Mod16
    <2> QED
        BY <1>1, <1>2, <2>2 DEF Relative
<1>3. CASE addr < CoilBaseAddr
    <2> DEFINE x == addr - CoilBaseAddr + 65536
    <2>1. x \in Int /\ 0 <= x /\ x < 65536
        BY <1>1, <1>3
    <2>2. (x - 65536) % 65536 = x
        BY <2>1, Mod16
    <2>3. x - 65536 = addr - CoilBaseAddr
        BY <1>1
    <2>4. (addr - CoilBaseAddr) % 65536 = x
        BY <2>2, <2>3
    <2> QED
        BY <1>1, <1>3, <2>4 DEF Relative
<1> QED
    BY <1>1, <1>2, <1>3

\* The range check of FC01 and FC0F (PLC.cpp:226, 321) passes exactly the requests
\* for coils the device has, although the subtraction before it may wrap around; only
\* the base must leave room for the coils.
THEOREM RangeCheckIsExact ==
    ASSUME CoilBaseAddr + DO_PINS <= 65536,
           NEW addr \in Addresses, NEW n \in Counts, n > 0
    PROVE  Relative(addr) + n <= DO_PINS
               <=> CoilBaseAddr <= addr /\ addr + n <= CoilBaseAddr + DO_PINS
<1>1. /\ addr \in Nat /\ CoilBaseAddr \in Nat /\ n \in Nat /\ DO_PINS \in Nat
    BY RequestsAssumption, PinsAssumption, WordsAreNat
<1>2. CASE addr >= CoilBaseAddr
    BY <1>1, <1>2, RelativeAddress
<1>3. CASE addr < CoilBaseAddr
    BY <1>1, <1>3, RelativeAddress
<1> QED
    BY <1>1, <1>2, <1>3

-----------------------------------------------------------------------------
(***************************************************************************)
(* What Write Multiple Coils promises, and when it keeps it                *)
(***************************************************************************)
\* Write Multiple Coils, which writes every output from the table, changes none that
\* the request does not name as long as MQTT is not used; with MQTT it may (the run
\* coil_mqtt).
THEOREM WriteCoilsInRangeWithoutMqtt == Spec /\ ~useMqtt => WriteCoilsStaysInRange
<1>1. ~useMqtt /\ [Next]_vars => ~useMqtt'
    BY DEF Next, BeginRead, RefreshShadow, EndRead, BeginWriteCoil, WritePin, RefuseWriteCoil,
           BeginWriteCoils, WritePins, EndWriteCoils, RefuseWriteCoils, Refuse, MqttWriteCoil,
           BeginReadInputs, RefreshDiscretes, EndReadInputs, InputChanges, vars
<1>2. IInv /\ ~useMqtt => WriteCoilsInRange
    <2> SUFFICES ASSUME IInv, ~useMqtt, WritePins, NEW i \in Coils, pins'[i] # pins[i]
                 PROVE  i \in Named(start, num)
        BY DEF WriteCoilsInRange
    <2>1. op = "FC0F" /\ pos \in Coils /\ pins' = [pins EXCEPT ![pos] = shadow[pos]]
        BY PinsAssumption DEF WritePins, IInv, TypeOK, Coils
    <2>2. i = pos /\ shadow[i] # pins[i]
        BY <2>1 DEF IInv, TypeOK
    <2>3. i \in Unwritten
        BY <2>2 DEF IInv, TableFollowsPins
    <2> QED
        BY <2>1, <2>3 DEF Unwritten
<1> QED
    BY <1>1, <1>2, Invariance, PTL DEF Spec, WriteCoilsStaysInRange

\* Write Multiple Coils echoes the address requested if the coils begin at address 0;
\* with another base it does not (the run coil_echo).
THEOREM EchoWithoutBase ==
    ASSUME CoilBaseAddr = 0
    PROVE  Spec => WriteCoilsEchoesAddress
<1>1. IInv /\ [Next]_vars => [EchoIsRequest]_vars
    <2> SUFFICES ASSUME IInv, Next, op = "FC0F", reply'.status = "ok"
                 PROVE  reply'.first = Requested(start)
        BY DEF EchoIsRequest
    <2>1. reply' # reply
        BY DEF IInv, WellFormed, NoReply
    <2>2. EndWriteCoils
        BY <2>1 DEF Next, BeginRead, RefreshShadow, EndRead, BeginWriteCoil, WritePin,
               RefuseWriteCoil, BeginWriteCoils, WritePins, RefuseWriteCoils, MqttWriteCoil,
               Begin, Refuse, BeginReadInputs, RefreshDiscretes, EndReadInputs, InputChanges
    <2>3. start \in Int /\ 0 <= start /\ start < 65536
        BY WordRange DEF IInv, TypeOK
    <2>4. start + CoilBaseAddr = start
        BY <2>3
    <2>5. Requested(start) = start
        BY <2>3, <2>4, Mod16 DEF Requested
    <2> QED
        BY <2>2, <2>5 DEF EndWriteCoils, End
<1> QED
    BY <1>1, Invariance, PTL DEF Spec, WriteCoilsEchoesAddress
-----------------------------------------------------------------------------
(***************************************************************************)
(* The outputs implement CoilRegisters                                     *)
(***************************************************************************)
ToSet == {i \in Unwritten : value[i]}
ToClear == {i \in Unwritten : ~value[i]}

\* Nothing to write before and after, or as much as before: a stutter.
LEMMA QuietStep ==
    ASSUME UNCHANGED <<pins, useMqtt>>, ToSet' = ToSet, ToClear' = ToClear
    PROVE  [Registers!Next]_(Registers!vars)
BY DEF Registers!vars, ToSet, ToClear

\* A step at which no write is running.
LEMMA ReadStep ==
    ASSUME UNCHANGED <<pins, useMqtt>>, op \notin {"FC05", "FC0F"}, op' \notin {"FC05", "FC0F"}
    PROVE  [Registers!Next]_(Registers!vars)
<1>1. Unwritten = {} /\ Unwritten' = {}
    BY DEF Unwritten
<1> QED
    BY <1>1, QuietStep DEF ToSet, ToClear

\* A write request has been accepted.
LEMMA AcceptStep ==
    ASSUME UNCHANGED <<pins, useMqtt>>, Unwritten = {},
           NEW first \in Coils, NEW last \in Coils, Unwritten' = first .. last
    PROVE  [Registers!Next]_(Registers!vars)
<1>1. ToSet = {} /\ ToClear = {}
    BY DEF ToSet, ToClear
<1>2. ToSet' \in SUBSET (first .. last) /\ ToClear' = (first .. last) \ ToSet'
    BY DEF ToSet, ToClear
<1>3. Registers!Accept
    BY <1>1, <1>2 DEF Registers!Accept, ToSet, ToClear
<1> QED
    BY <1>3 DEF Registers!Next

\* A pin that the running write names takes its value.
LEMMA ApplyStep ==
    ASSUME TypeOK, NEW i \in Coils, i \in Unwritten, Unwritten' = Unwritten \ {i},
           \A j \in Unwritten' : value'[j] = value[j],
           pins' = [pins EXCEPT ![i] = value[i]], UNCHANGED useMqtt
    PROVE  [Registers!Next]_(Registers!vars)
<1>1. value[i] \in BOOLEAN
    BY DEF TypeOK
<1>2. CASE value[i]
    <2>1. ToSet' = ToSet \ {i} /\ ToClear' = ToClear /\ i \in ToSet
        BY <1>2 DEF ToSet, ToClear
    <2>2. Registers!SetCoil(i)
        BY <1>2, <2>1 DEF Registers!SetCoil, ToSet, ToClear
    <2> QED
        BY <2>2 DEF Registers!Next
<1>3. CASE ~value[i]
    <2>1. ToClear' = ToClear \ {i} /\ ToSet' = ToSet /\ i \in ToClear
        BY <1>3 DEF ToSet, ToClear
    <2>2. pins' = [pins EXCEPT ![i] = FALSE]
        BY <1>1, <1>3
    <2>3. Registers!ClearCoil(i)
        BY <2>1, <2>2 DEF Registers!ClearCoil, ToSet, ToClear
    <2> QED
        BY <2>3 DEF Registers!Next
<1> QED
    BY <1>1, <1>2, <1>3

\* A pin is written that the running write does not name, or by an MQTT command.
LEMMA OtherStep ==
    ASSUME TypeOK, NEW i \in Coils, NEW on \in BOOLEAN, pins[i] # on => useMqtt,
           pins' = [pins EXCEPT ![i] = on],
           UNCHANGED useMqtt, ToSet' = ToSet, ToClear' = ToClear
    PROVE  [Registers!Next]_(Registers!vars)
<1>1. CASE pins[i] = on
    <2>1. pins' = pins
        BY <1>1 DEF TypeOK
    <2> QED
        BY <2>1, QuietStep
<1>2. CASE pins[i] # on
    <2>1. pins' = [pins EXCEPT ![i] = ~pins[i]]
        BY <1>2 DEF TypeOK
    <2>2. Registers!Disturb(i)
        BY <1>2, <2>1 DEF Registers!Disturb, ToSet, ToClear
    <2> QED
        BY <2>2 DEF Registers!Next
<1> QED
    BY <1>1, <1>2

LEMMA StepRefines ==
    ASSUME IInv, [Next]_vars
    PROVE  [Registers!Next]_(Registers!vars)
<1> USE PinsAssumption, WordsAreNat
<1>1. CASE BeginRead \/ RefreshShadow \/ EndRead \/ RefuseWriteCoil \/ RefuseWriteCoils
    BY <1>1, ReadStep DEF BeginRead, RefreshShadow, EndRead, RefuseWriteCoil, RefuseWriteCoils,
               Begin, Refuse, End, requestVars
<1>2. CASE BeginWriteCoil
    <2>1. PICK addr \in Addresses : /\ Relative(addr) < DO_PINS
                                    /\ op = "idle" /\ op' = "FC05" /\ start' = Relative(addr)
                                    /\ UNCHANGED <<pins, useMqtt>>
        BY <1>2 DEF BeginWriteCoil, Begin
    <2>2. Relative(addr) \in Nat /\ Relative(addr) < DO_PINS
        BY <2>1, RelativeIsWord
    <2>3. Relative(addr) \in Coils
        BY <2>2 DEF Coils
    <2>4. Unwritten = {} /\ Unwritten' = Relative(addr) .. Relative(addr)
        BY <2>1, <2>2 DEF Unwritten
    <2> QED
        BY <2>1, <2>3, <2>4, AcceptStep
<1>3. CASE WritePin
    <2>1. /\ op = "FC05" /\ op' = "idle" /\ start \in Coils
          /\ pins' = [pins EXCEPT ![start] = value[start]] /\ UNCHANGED useMqtt
        BY <1>3 DEF WritePin, End, IInv, WellFormed
    <2>2. Unwritten = {start} /\ Unwritten' = {}
        BY <2>1 DEF Unwritten
    <2> QED
        BY <2>1, <2>2, ApplyStep DEF IInv
<1>4. CASE BeginWriteCoils
    <2>1. PICK addr \in Addresses, n \in Counts, v \in [Coils -> BOOLEAN] :
              /\ Relative(addr) + n <= DO_PINS
              /\ n > 0
              /\ Begin("FC0F", Relative(addr), n, v)
              /\ UNCHANGED <<pins, useMqtt>>
        BY <1>4 DEF BeginWriteCoils, ValuesFor
    <2>2. /\ op = "idle" /\ op' = "FC0F" /\ start' = Relative(addr) /\ num' = n /\ pos' = 0
        BY <2>1 DEF Begin
    <2>3. Relative(addr) \in Nat /\ n \in Nat
        BY RelativeIsWord, RequestsAssumption
    <2>4. Relative(addr) \in Coils /\ Relative(addr) + n - 1 \in Coils
        BY <2>1, <2>3 DEF Coils
    <2>5. Unwritten = {} /\ Unwritten' = Named(Relative(addr), n)
        BY <2>2 DEF Unwritten, Named, Coils
    <2>6. Named(Relative(addr), n) = Relative(addr) .. (Relative(addr) + n - 1)
        BY <2>1, <2>3 DEF Named, Coils
    <2> QED
        BY <2>1, <2>4, <2>5, <2>6, AcceptStep
<1>5. CASE WritePins
    <2>1. /\ op = "FC0F" /\ pos \in Coils /\ pos' = pos + 1
          /\ pins' = [pins EXCEPT ![pos] = shadow[pos]]
          /\ UNCHANGED <<shadow, useMqtt, op, start, num, value>>
        BY <1>5 DEF WritePins, requestVars, IInv, TypeOK, Coils
    <2>2. Unwritten' = Unwritten \ {pos}
        BY <2>1 DEF Unwritten, Named, Coils
    <2>3. CASE pos \in Unwritten
        <3>1. shadow[pos] = value[pos]
            BY <2>1, <2>3 DEF IInv, TableHasValues, Unwritten
        <3> QED
            BY <2>1, <2>2, <2>3, <3>1, ApplyStep DEF IInv
    <2>4. CASE pos \notin Unwritten
        <3>1. Unwritten' = Unwritten
            BY <2>2, <2>4
        <3>2. ToSet' = ToSet /\ ToClear' = ToClear
            BY <2>1, <3>1 DEF ToSet, ToClear
        <3>3. pins[pos] # shadow[pos] => useMqtt
            BY <2>1, <2>4 DEF IInv, TableFollowsPins, TypeOK
        <3>4. shadow[pos] \in BOOLEAN
            BY <2>1 DEF IInv, TypeOK
        <3> QED
            BY <2>1, <3>2, <3>3, <3>4, OtherStep DEF IInv
    <2> QED
        BY <2>3, <2>4
<1>6. CASE EndWriteCoils
    <2>1. Unwritten = {} /\ Unwritten' = {} /\ UNCHANGED <<pins, useMqtt>>
        BY <1>6 DEF EndWriteCoils, End, Unwritten, Named, Coils
    <2> QED
        BY <2>1, QuietStep DEF ToSet, ToClear
<1>7. CASE MqttWriteCoil
    <2>1. PICK c \in Coils, on \in BOOLEAN :
              /\ useMqtt
              /\ pins' = [pins EXCEPT ![c] = on]
              /\ UNCHANGED <<useMqtt, op, start, num, value, pos>>
        BY <1>7 DEF MqttWriteCoil, requestVars
    <2>2. ToSet' = ToSet /\ ToClear' = ToClear
        BY <2>1 DEF ToSet, ToClear, Unwritten
    <2> QED
        BY <2>1, <2>2, OtherStep DEF IInv
<1>8. CASE BeginReadInputs \/ RefreshDiscretes \/ EndReadInputs
    BY <1>8, ReadStep DEF BeginReadInputs, RefreshDiscretes, EndReadInputs,
               Begin, End, requestVars
<1>9. CASE InputChanges
    BY <1>9, QuietStep DEF InputChanges, requestVars, ToSet, ToClear, Unwritten
<1>10. CASE UNCHANGED vars
    BY <1>10, QuietStep DEF vars, requestVars, ToSet, ToClear, Unwritten
<1> QED
    BY <1>1, <1>2, <1>3, <1>4, <1>5, <1>6, <1>7, <1>8, <1>9, <1>10 DEF Next

\* For any number of outputs and any requests the outputs behave as CoilRegisters
\* promises: every step of the program is a step of the abstract registers or none.
THEOREM ImplementsRegisters == Spec => RegistersSpec
<1>1. Init => Registers!Init
    BY DEF Init, Registers!Init, AllOff, Unwritten
<1>2. IInv /\ [Next]_vars => [Registers!Next]_(Registers!vars)
    BY StepRefines
<1> QED
    BY <1>1, <1>2, Invariance, PTL DEF Spec, RegistersSpec, Registers!Spec
=============================================================================
