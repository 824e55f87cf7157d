-------------------------- MODULE AnalogInputsProofs --------------------------
(***************************************************************************)
(* Proofs about AnalogInputs: for any number of channels, any length of    *)
(* the rolling sum, any word width that holds SAMPLESIZE readings, and any *)
(* limits.                                                                 *)
(***************************************************************************)
EXTENDS AnalogInputs, TLAPS

-----------------------------------------------------------------------------
(***************************************************************************)
(* Arithmetic                                                              *)
(***************************************************************************)
LEMMA ModRange ==
    ASSUME NEW x \in Int, NEW w \in Nat \ {0}
    PROVE  x % w \in 0 .. w - 1
OBVIOUS

LEMMA ModSmall ==
    ASSUME NEW w \in Nat \ {0}, NEW x \in 0 .. w - 1
    PROVE  x % w = x
OBVIOUS

LEMMA ModWrap ==
    ASSUME NEW w \in Nat \ {0}, NEW x \in Int, -w <= x, x < 0
    PROVE  x % w = x + w
OBVIOUS

LEMMA Division ==
    ASSUME NEW a \in Nat, NEW n \in Nat \ {0}
    PROVE  /\ a \div n \in Nat
           /\ n * (a \div n) <= a
           /\ a < n * (a \div n) + n
OBVIOUS

LEMMA Monotone ==
    ASSUME NEW a \in Nat, NEW b \in Nat, NEW n \in Nat, a <= b
    PROVE  n * a <= n * b
OBVIOUS

LEMMA Cancel ==
    ASSUME NEW a \in Nat, NEW b \in Nat, NEW n \in Nat \ {0}, n * a < n * b
    PROVE  a < b
OBVIOUS

LEMMA OneMore ==
    ASSUME NEW a \in Nat, NEW n \in Nat
    PROVE  /\ n * a \in Nat
           /\ (n + 1) * a = n * a + a
           /\ (n - 1) * a = n * a - a
OBVIOUS

\* The quotient of a sum of n terms between lo and hi lies between them.
LEMMA QuotientInRange ==
    ASSUME NEW s \in Nat, NEW n \in Nat \ {0}, NEW lo \in Nat, NEW hi \in Nat,
           n * lo <= s, s <= n * hi
    PROVE  lo <= s \div n /\ s \div n <= hi
<1> DEFINE q == s \div n
<1>1. q \in Nat /\ n * q <= s /\ s < n * q + n
    BY Division
<1>2. n * (q + 1) = n * q + n /\ n * (hi + 1) = n * hi + n
    BY <1>1
<1> HIDE DEF q
<1>3. lo < q + 1
    <2>1. n * lo < n * (q + 1)
        BY <1>1, <1>2
    <2> QED
        BY <1>1, <2>1, Cancel
<1>4. q < hi + 1
    <2>1. n * q < n * (hi + 1)
        BY <1>1, <1>2
    <2> QED
        BY <1>1, <2>1, Cancel
<1>5. lo <= q /\ q <= hi
    BY <1>1, <1>3, <1>4
<1> QED
    BY <1>5 DEF q

\* Dropping the rounded-down average from a sum of n terms between lo and hi leaves
\* what n - 1 such terms could sum up to: rounding down never pushes it above, because
\* an average that was rounded is below hi.
LEMMA DropAverage ==
    ASSUME NEW s \in Nat, NEW n \in Nat \ {0}, NEW lo \in Nat, NEW hi \in Nat,
           n * lo <= s, s <= n * hi
    PROVE  /\ s - s \div n \in Nat
           /\ (n - 1) * lo <= s - s \div n
           /\ s - s \div n <= (n - 1) * hi
<1> DEFINE q == s \div n
<1>1. q \in Nat /\ n * q <= s /\ s < n * q + n
    BY Division
<1>2. lo <= q /\ q <= hi
    BY QuotientInRange
<1> HIDE DEF q
<1>3. n - 1 \in Nat
    OBVIOUS
<1>4. (n - 1) * q = n * q - q /\ (n - 1) * hi = n * hi - hi
    BY <1>1, OneMore
<1>5. (n - 1) * q \in Nat
    BY <1>1, <1>3
<1>6. (n - 1) * lo <= (n - 1) * q
    BY <1>1, <1>2, <1>3, Monotone
<1>7. s - q <= (n - 1) * hi
    <2>1. CASE q = hi
        BY <1>1, <1>4, <2>1
    <2>2. CASE q < hi
        <3>1. q + 1 <= hi /\ q + 1 \in Nat
            BY <1>1, <2>2
        <3>2. (n - 1) * (q + 1) <= (n - 1) * hi
            BY <1>3, <3>1, Monotone
        <3>3. (n - 1) * (q + 1) = n * q + n - q - 1
            BY <1>1, <1>4
        <3> QED
            BY <1>1, <3>2, <3>3
    <2> QED
        BY <1>1, <1>2, <2>1, <2>2
<1>8. s - q \in Nat /\ (n - 1) * lo <= s - q
    BY <1>1, <1>4, <1>5, <1>6
<1> QED
    BY <1>7, <1>8 DEF q
-----------------------------------------------------------------------------
(***************************************************************************)
(* The inductive invariants                                                *)
(***************************************************************************)
Between(c, k, x) == k * adcReadingMin[c] <= x /\ x <= k * adcReadingMax[c]

\* The sum of a channel is one of as many readings as numberOfSummations says, and in
\* the middle of AddReading of one less.
SumBetween(c) ==
    IF Updating(c)
    THEN /\ numberOfSummations[c] > 0
         /\ Between(c, numberOfSummations[c] - 1, rollingSum[c])
    ELSE Between(c, numberOfSummations[c], rollingSum[c])

\* What AddReading holds in its local variables.
SampleReady(c) ==
    channel = c =>
        /\ step \in {"room", "add"} => Between(c, 1, val)
        /\ step = "room" /\ numberOfSummations[c] > 0 => currentAvg = Average(c)

SumInv ==
    \A c \in Channels \ changed :
        adcReadingMin[c] <= adcReadingMax[c] => SumBetween(c) /\ SampleReady(c)

\* Which channels have been sampled, by the place of the loop task.
Adding == step \in {"monitor", "room", "add"}

SampledInv ==
    /\ Adding => \A c \in Channels : c < channel => numberOfSummations[c] > 0
    /\ step = "add" => numberOfSummations[channel] > 0
    /\ step = "run" => channel = 0
    /\ ~Adding /\ ~raised => \A c \in Channels : c < analogInputs => numberOfSummations[c] > 0
    /\ net = "boot" => bootInputs = analogInputs /\ ~modbus /\ ~raised /\ step # "process"
    /\ net # "boot" => \A c \in Channels : c < bootInputs => numberOfSummations[c] > 0
-----------------------------------------------------------------------------
(***************************************************************************)
(* Type correctness                                                        *)
(***************************************************************************)
LEMMA LimitsAreWords == \A m \in Limits : m \in Words
<1> SUFFICES ASSUME NEW m \in Limits PROVE m \in Words
    OBVIOUS
<1>1. m \in Nat /\ SAMPLESIZE * m < WORD /\ SAMPLESIZE \in Nat \ {0}
    BY SizesAssumption, LimitsAssumption
<1>2. 1 * m <= SAMPLESIZE * m
    BY <1>1
<1> QED
    BY <1>1, <1>2, SizesAssumption DEF Words

LEMMA WordsAreNat == \A w \in Words : w \in Nat
BY DEF Words

LEMMA ZeroIsWord == 0 \in Words
BY SizesAssumption DEF Words

LEMMA ClampIsWord ==
    ASSUME TypeOK, NEW c \in Channels, NEW x \in Conversions
    PROVE  Clamp(c, x) \in Words
BY LimitsAssumption, LimitsAreWords DEF Clamp, TypeOK, Words

LEMMA AverageIsWord ==
    ASSUME TypeOK, NEW c \in Channels, numberOfSummations[c] > 0
    PROVE  Average(c) \in Words
<1>1. /\ rollingSum[c] \in Nat /\ rollingSum[c] < WORD
      /\ numberOfSummations[c] \in Nat \ {0}
    BY SizesAssumption DEF TypeOK, Words
<1> DEFINE q == rollingSum[c] \div numberOfSummations[c]
<1>2. q \in Nat /\ numberOfSummations[c] * q <= rollingSum[c]
    BY <1>1, Division
<1>3. 1 * q <= numberOfSummations[c] * q
    BY <1>1, <1>2
<1>4. q \in 0 .. WORD - 1
    BY <1>1, <1>2, <1>3, SizesAssumption
<1> QED
    BY <1>4 DEF Average, Words

LEMMA RestartKeepsTypes ==
    ASSUME TypeOK, Restart
    PROVE  TypeOK'
<1>1. step' \in Steps /\ channel' \in 0 .. AI_PINS
    BY SizesAssumption DEF Restart, Steps
<1>2. numberOfSummations' \in [Channels -> 0 .. SAMPLESIZE]
    BY SizesAssumption DEF Restart
<1> QED
    BY <1>1, <1>2, ZeroIsWord DEF TypeOK, Restart, settings

LEMMA LoopKeepsTypes ==
    ASSUME TypeOK, LoopStep
    PROVE  TypeOK'
<1>1. ASSUME NEW c \in Channels, Sample(c) PROVE TypeOK'
    <2>1. val' \in Words
        BY <1>1, ClampIsWord DEF Sample
    <2>2. currentAvg' \in Words
        BY <1>1, AverageIsWord, ZeroIsWord DEF Sample, TypeOK
    <2> QED
        BY <1>1, <2>1, <2>2 DEF Sample, TypeOK, Steps, sums, settings, history
<1>2. ASSUME NEW c \in Channels, MakeRoom(c) PROVE TypeOK'
    <2>1. numberOfSummations' \in [Channels -> 0 .. SAMPLESIZE]
        BY <1>2, SizesAssumption DEF MakeRoom, TypeOK
    <2>2. rollingSum' \in [Channels -> Words]
        <3>1. (rollingSum[c] - currentAvg) % WORD \in Words
            <4>1. rollingSum[c] - currentAvg \in Int
                BY WordsAreNat DEF TypeOK
            <4> QED
                BY <4>1, ModRange, SizesAssumption DEF Words
        <3> QED
            BY <1>2, <3>1 DEF MakeRoom, TypeOK
    <2> QED
        BY <1>2, <2>1, <2>2 DEF MakeRoom, TypeOK, Steps, settings, locals, history
<1>3. ASSUME NEW c \in Channels, AddValue(c) PROVE TypeOK'
    <2>1. (rollingSum[c] + val) % WORD \in Words
        <3>1. rollingSum[c] + val \in Int
            BY WordsAreNat DEF TypeOK
        <3> QED
            BY <3>1, ModRange, SizesAssumption DEF Words
    <2>2. c + 1 \in 0 .. AI_PINS
        BY SizesAssumption DEF Channels
    <2> QED
        BY <1>3, <2>1, <2>2, ZeroIsWord DEF AddValue, TypeOK, Steps, settings, history
<1>4. CASE MonitorEnd
    <2>1. step' \in Steps /\ channel' \in 0 .. AI_PINS
        BY <1>4, SizesAssumption DEF MonitorEnd, Steps, TypeOK
    <2> QED
        BY <1>4, <2>1 DEF MonitorEnd, TypeOK, sums, settings, locals
<1>5. CASE RunNetwork
    <2>1. step' \in Steps /\ channel' \in 0 .. AI_PINS
        BY <1>5, SizesAssumption DEF RunNetwork, Steps, TypeOK
    <2> QED
        BY <1>5, <2>1 DEF RunNetwork, TypeOK, sums, settings, locals, history
<1>6. CASE ReadLevel
    <2>1. step' \in Steps /\ channel' \in 0 .. AI_PINS
        BY <1>6, SizesAssumption DEF ReadLevel, Steps, TypeOK
    <2> QED
        BY <1>6, <2>1 DEF ReadLevel, TypeOK, sums, settings, locals, history
<1>7. CASE ReadLevelCrash
    BY <1>7, RestartKeepsTypes DEF ReadLevelCrash
<1>8. CASE ProcessEnd
    <2>1. step' \in Steps /\ channel' \in 0 .. AI_PINS
        BY <1>8, SizesAssumption DEF ProcessEnd, Steps, TypeOK
    <2> QED
        BY <1>8, <2>1 DEF ProcessEnd, TypeOK, sums, settings, locals, history
<1> QED
    BY <1>1, <1>2, <1>3, <1>4, <1>5, <1>6, <1>7, <1>8 DEF LoopStep

\* The types of AnalogInputs hold in every reachable state, with the unsigned
\* arithmetic of AddReading in words of any width.
THEOREM TypeCorrect == Spec => []TypeOK
<1>1. Init => TypeOK
    <2>1. Init => step \in Steps /\ channel \in 0 .. AI_PINS
        BY SizesAssumption DEF Init, Steps
    <2>2. Init => numberOfSummations \in [Channels -> 0 .. SAMPLESIZE]
        BY SizesAssumption DEF Init
    <2> QED
        BY <2>1, <2>2, ZeroIsWord DEF Init, TypeOK
<1>2. TypeOK /\ [Next]_vars => TypeOK'
    <2> SUFFICES ASSUME TypeOK, [Next]_vars PROVE TypeOK'
        OBVIOUS
    <2>1. CASE LoopStep
        BY <2>1, LoopKeepsTypes
    <2>2. CASE GoOnLine
        BY <2>2 DEF GoOnLine, TypeOK, Steps, sums, settings, locals, history
    <2>3. CASE GoOffLine
        BY <2>3 DEF GoOffLine, TypeOK, Steps, sums, settings, locals, history
    <2>4. CASE Reboot
        BY <2>4, RestartKeepsTypes DEF Reboot
    <2>5. ASSUME NEW c \in Channels, ReadRegisterCrash(c) PROVE TypeOK'
        BY <2>5, RestartKeepsTypes DEF ReadRegisterCrash
    <2>6. ASSUME NEW k \in 0 .. AI_PINS, SubmitAnalogInputs(k) PROVE TypeOK'
        BY <2>6 DEF SubmitAnalogInputs, TypeOK, Steps, sums, locals
    <2>7. ASSUME NEW c \in Channels, NEW m \in Limits, SubmitMin(c, m) PROVE TypeOK'
        BY <2>7 DEF SubmitMin, TypeOK, Steps, sums, locals
    <2>8. ASSUME NEW c \in Channels, NEW m \in Limits, SubmitMax(c, m) PROVE TypeOK'
        BY <2>8 DEF SubmitMax, TypeOK, Steps, sums, locals
    <2>9. CASE UNCHANGED vars
        BY <2>9 DEF vars, TypeOK, sums, settings, locals, history
    <2> QED
        BY <2>1, <2>2, <2>3, <2>4, <2>5, <2>6, <2>7, <2>8, <2>9 DEF Next
<1> QED
    BY <1>1, <1>2, PTL DEF Spec
-----------------------------------------------------------------------------
(***************************************************************************)
(* Every channel that is read has been sampled                             *)
(***************************************************************************)
LEMMA RestartKeepsSampled ==
    ASSUME Restart
    PROVE  SampledInv'
<1>1. \A d \in Channels : ~(d < 0)
    BY DEF Channels
<1>2. /\ step' = "monitor" /\ channel' = 0 /\ net' = "boot" /\ ~modbus' /\ ~raised'
      /\ bootInputs' = analogInputs' /\ Adding'
    BY DEF Restart, settings, Adding
<1> QED
    BY <1>1, <1>2 DEF SampledInv

LEMMA LoopKeepsSampled ==
    ASSUME TypeOK, SampledInv, LoopStep
    PROVE  SampledInv'
<1>1. ASSUME NEW c \in Channels, Sample(c) PROVE SampledInv'
    BY <1>1 DEF Sample, SampledInv, Adding, sums, settings, history
<1>2. ASSUME NEW c \in Channels, MakeRoom(c) PROVE SampledInv'
    <2>1. /\ step = "room" /\ step' = "add" /\ channel = c
          /\ UNCHANGED <<analogInputs, net, modbus, channel, raised, bootInputs>>
        BY <1>2 DEF MakeRoom, settings, history
    <2>2. \A d \in Channels : numberOfSummations[d] > 0 => numberOfSummations'[d] > 0
        BY <1>2 DEF MakeRoom, TypeOK
    <2>3. numberOfSummations'[c] > 0
        BY <1>2, SizesAssumption DEF MakeRoom, TypeOK
    <2> QED
        BY <2>1, <2>2, <2>3 DEF SampledInv, Adding
<1>3. ASSUME NEW c \in Channels, AddValue(c) PROVE SampledInv'
    <2>1. /\ step = "add" /\ step' = "monitor" /\ channel = c /\ channel' = c + 1
          /\ UNCHANGED <<numberOfSummations, analogInputs, net, modbus, raised, bootInputs>>
        BY <1>3 DEF AddValue, settings, history
    <2>2. \A d \in Channels : d < c + 1 => d < c \/ d = c
        BY DEF Channels
    <2> QED
        BY <2>1, <2>2 DEF SampledInv, Adding
<1>4. CASE MonitorEnd
    <2>1. /\ step = "monitor" /\ step' = "run" /\ channel >= analogInputs
          /\ channel' = 0 /\ ~raised'
          /\ UNCHANGED <<numberOfSummations, analogInputs, net, modbus, bootInputs>>
        BY <1>4 DEF MonitorEnd, sums, settings
    <2>2. \A d \in Channels : d < analogInputs => d < channel
        BY <2>1 DEF Channels, TypeOK
    <2> QED
        BY <2>1, <2>2 DEF SampledInv, Adding
<1>5. CASE RunNetwork
    <2>1. /\ step = "run" /\ step' \in {"monitor", "process"} /\ net' # "boot"
          /\ UNCHANGED <<numberOfSummations, analogInputs, channel, modbus, raised, bootInputs>>
        BY <1>5 DEF RunNetwork, sums, settings, history
    <2>2. channel' = 0 /\ \A d \in Channels : ~(d < 0)
        BY <2>1 DEF SampledInv, Channels
    <2>3. \A d \in Channels : d < bootInputs => numberOfSummations[d] > 0
        BY <2>1 DEF SampledInv, Adding
    <2> QED
        BY <2>1, <2>2, <2>3 DEF SampledInv, Adding
<1>6. CASE ReadLevel
    BY <1>6 DEF ReadLevel, SampledInv, Adding, sums, settings, history
<1>7. CASE ReadLevelCrash
    BY <1>7, RestartKeepsSampled DEF ReadLevelCrash
<1>8. CASE ProcessEnd
    <2>1. \A d \in Channels : ~(d < 0)
        BY DEF Channels
    <2> QED
        BY <1>8, <2>1 DEF ProcessEnd, SampledInv, Adding, sums, settings, history
<1> QED
    BY <1>1, <1>2, <1>3, <1>4, <1>5, <1>6, <1>7, <1>8 DEF LoopStep

LEMMA SampledInductive ==
    ASSUME TypeOK, SampledInv, [Next]_vars
    PROVE  SampledInv'
<1>1. CASE LoopStep
    BY <1>1, LoopKeepsSampled
<1>2. CASE GoOnLine
    BY <1>2 DEF GoOnLine, SampledInv, Adding, sums, settings, history
<1>3. CASE GoOffLine
    BY <1>3 DEF GoOffLine, SampledInv, Adding, sums, settings, history
<1>4. CASE Reboot
    BY <1>4, RestartKeepsSampled DEF Reboot
<1>5. ASSUME NEW c \in Channels, ReadRegisterCrash(c) PROVE SampledInv'
    BY <1>5, RestartKeepsSampled DEF ReadRegisterCrash
<1>6. ASSUME NEW k \in 0 .. AI_PINS, SubmitAnalogInputs(k) PROVE SampledInv'
    <2>1. /\ net # "boot" /\ analogInputs' = k /\ raised' = (raised \/ k > analogInputs)
          /\ UNCHANGED <<numberOfSummations, step, channel, net, modbus, bootInputs>>
        BY <1>6 DEF SubmitAnalogInputs, sums
    <2>2. ~raised' => ~raised /\ \A d \in Channels : d < k => d < analogInputs
        <3>1. k \in Int /\ analogInputs \in Int /\ \A d \in Channels : d \in Int
            BY DEF TypeOK, Channels
        <3>2. ~raised' => ~raised /\ ~(k > analogInputs)
            BY <2>1
        <3> QED
            BY <3>1, <3>2
    <2> QED
        BY <2>1, <2>2 DEF SampledInv, Adding
<1>7. ASSUME NEW c \in Channels, NEW m \in Limits, SubmitMin(c, m) \/ SubmitMax(c, m)
      PROVE  SampledInv'
    BY <1>7 DEF SubmitMin, SubmitMax, SampledInv, Adding, sums
<1>8. CASE UNCHANGED vars
    BY <1>8 DEF vars, SampledInv, Adding, sums, settings, history
<1> QED
    BY <1>1, <1>2, <1>3, <1>4, <1>5, <1>6, <1>7, <1>8 DEF Next

THEOREM SampledInvariance == Spec => []SampledInv
<1>1. Init => SampledInv
    BY DEF Init, SampledInv, Adding, Channels
<1>2. TypeOK /\ SampledInv /\ [Next]_vars => SampledInv'
    BY SampledInductive
<1> QED
    BY <1>1, <1>2, TypeCorrect, PTL DEF Spec

\* The loop task reads only sampled channels, unless analogInputs was raised between
\* Monitor and Process.
THEOREM LoopReadsOnlySampled == Spec => []LoopReadsSampled
<1>1. TypeOK /\ SampledInv => LoopReadsSampled
    <2> SUFFICES ASSUME TypeOK, SampledInv, step = "process", channel < analogInputs, ~raised
                 PROVE  numberOfSummations[channel] > 0
        BY DEF LoopReadsSampled
    <2>1. channel \in Channels
        BY SizesAssumption DEF TypeOK, Channels
    <2> QED
        BY <2>1 DEF SampledInv, Adding
<1> QED
    BY <1>1, TypeCorrect, SampledInvariance, PTL

\* The Modbus server runs only when every channel in use at boot has been sampled.
THEOREM ModbusReadsOnlySampled == Spec => []ModbusReadsSampled
<1>1. TypeOK /\ SampledInv => ModbusReadsSampled
    BY SizesAssumption DEF TypeOK, SampledInv, ModbusReadsSampled, Channels
<1> QED
    BY <1>1, TypeCorrect, SampledInvariance, PTL
-----------------------------------------------------------------------------
(***************************************************************************)
(* The rolling sum stays within its range                                  *)
(***************************************************************************)
\* Arithmetic facts about a channel whose limits are in order.
LEMMA ChannelFacts ==
    ASSUME TypeOK, NEW c \in Channels
    PROVE  /\ adcReadingMin[c] \in Nat /\ adcReadingMax[c] \in Nat
           /\ numberOfSummations[c] \in Nat /\ numberOfSummations[c] <= SAMPLESIZE
           /\ rollingSum[c] \in Nat /\ rollingSum[c] < WORD
           /\ SAMPLESIZE * adcReadingMax[c] < WORD
           /\ WORD \in Nat \ {0} /\ SAMPLESIZE \in Nat \ {0}
           /\ val \in Nat /\ currentAvg \in Nat
<1>1. adcReadingMin[c] \in Limits /\ adcReadingMax[c] \in Limits
    BY DEF TypeOK
<1>2. numberOfSummations[c] \in 0 .. SAMPLESIZE /\ rollingSum[c] \in Words
      /\ val \in Words /\ currentAvg \in Words
    BY DEF TypeOK
<1>3. adcReadingMin[c] \in Nat /\ adcReadingMax[c] \in Nat /\ SAMPLESIZE * adcReadingMax[c] < WORD
    BY <1>1, LimitsAssumption
<1>4. /\ numberOfSummations[c] \in Nat /\ numberOfSummations[c] <= SAMPLESIZE
      /\ rollingSum[c] \in Nat /\ rollingSum[c] < WORD /\ val \in Nat /\ currentAvg \in Nat
    BY <1>2, SizesAssumption DEF Words
<1> QED
    BY <1>3, <1>4, SizesAssumption

LEMMA SampleKeepsSum ==
    ASSUME TypeOK, SumInv, NEW c \in Channels, Sample(c)
    PROVE  SumInv'
<1> SUFFICES ASSUME NEW d \in Channels \ changed', adcReadingMin'[d] <= adcReadingMax'[d]
             PROVE  SumBetween(d)' /\ SampleReady(d)'
    BY DEF SumInv
<1>1. /\ UNCHANGED <<rollingSum, numberOfSummations, adcReadingMin, adcReadingMax, channel, changed>>
      /\ step = "monitor" /\ step' = "room" /\ channel = c
    BY DEF Sample, sums, settings, history
<1>2. SumBetween(d)'
    BY <1>1 DEF SumInv, SumBetween, Updating, Between
<1>3. CASE d = c
    <2>1. PICK x \in Conversions : val' = Clamp(c, x)
        BY DEF Sample
    <2>2. x \in Nat
        BY LimitsAssumption
    <2>3. adcReadingMin[c] <= val' /\ val' <= adcReadingMax[c] /\ val' \in Nat
        BY <1>1, <1>3, <2>1, <2>2, ChannelFacts DEF Clamp
    <2>4. Between(c, 1, val)'
        BY <1>1, <2>3, ChannelFacts DEF Between
    <2>5. numberOfSummations[c] > 0 => currentAvg' = Average(c)'
        BY <1>1 DEF Sample, Average
    <2> QED
        BY <1>1, <1>2, <1>3, <2>4, <2>5 DEF SampleReady
<1>4. CASE d # c
    BY <1>1, <1>2, <1>4 DEF SampleReady
<1> QED
    BY <1>3, <1>4

LEMMA MakeRoomKeepsSum ==
    ASSUME TypeOK, SumInv, NEW c \in Channels, MakeRoom(c)
    PROVE  SumInv'
<1> SUFFICES ASSUME NEW d \in Channels \ changed', adcReadingMin'[d] <= adcReadingMax'[d]
             PROVE  SumBetween(d)' /\ SampleReady(d)'
    BY DEF SumInv
<1>1. /\ UNCHANGED <<adcReadingMin, adcReadingMax, channel, val, currentAvg, changed>>
      /\ step = "room" /\ step' = "add" /\ channel = c
    BY DEF MakeRoom, settings, locals, history
<1>2. SumBetween(d) /\ SampleReady(d)
    BY <1>1 DEF SumInv
<1>3. CASE d = c
    <2> DEFINE n == numberOfSummations[c]
               s == rollingSum[c]
               lo == adcReadingMin[c]
               hi == adcReadingMax[c]
    <2>1. /\ n \in Nat /\ n <= SAMPLESIZE /\ s \in Nat /\ s < WORD /\ lo \in Nat /\ hi \in Nat
          /\ WORD \in Nat \ {0} /\ SAMPLESIZE \in Nat \ {0}
        BY ChannelFacts
    <2>2. n * lo <= s /\ s <= n * hi
        BY <1>1, <1>2, <1>3 DEF SumBetween, Updating, Between
    <2>3. CASE n < SAMPLESIZE
        <3>1. numberOfSummations'[c] = n + 1 /\ rollingSum'[c] = s
            BY <2>3 DEF MakeRoom, TypeOK
        <3>2. numberOfSummations'[c] - 1 = n /\ numberOfSummations'[c] > 0
            BY <2>1, <3>1
        <3> QED
            BY <1>1, <1>2, <1>3, <2>2, <3>1, <3>2
               DEF SumBetween, SampleReady, Updating, Between
    <2>4. CASE ~(n < SAMPLESIZE)
        <3>1. n \in Nat \ {0} /\ n > 0
            BY <2>1, <2>4
        <3>2. currentAvg = s \div n
            BY <1>1, <1>2, <1>3, <3>1 DEF SampleReady, Average
        <3>3. s \div n \in Nat
            BY <2>1, <3>1, Division
        <3>4. /\ s - s \div n \in Nat
              /\ (n - 1) * lo <= s - s \div n
              /\ s - s \div n <= (n - 1) * hi
            BY <2>1, <2>2, <3>1, DropAverage
        <3>5. s - s \div n \in 0 .. WORD - 1
            BY <2>1, <3>3, <3>4
        <3>6. (s - s \div n) % WORD = s - s \div n
            BY <2>1, <3>5, ModSmall
        <3>7. rollingSum'[c] = s - s \div n /\ numberOfSummations'[c] = n
            BY <2>4, <3>2, <3>6 DEF MakeRoom, TypeOK
        <3> QED
            BY <1>1, <1>2, <1>3, <3>1, <3>4, <3>7
               DEF SumBetween, SampleReady, Updating, Between
    <2> QED
        BY <2>3, <2>4
<1>4. CASE d # c
    <2>1. rollingSum'[d] = rollingSum[d] /\ numberOfSummations'[d] = numberOfSummations[d]
        BY <1>4 DEF MakeRoom, TypeOK
    <2> QED
        BY <1>1, <1>2, <1>4, <2>1 DEF SumBetween, SampleReady, Updating, Between
<1> QED
    BY <1>3, <1>4

LEMMA AddValueKeepsSum ==
    ASSUME TypeOK, SumInv, NEW c \in Channels, AddValue(c)
    PROVE  SumInv'
<1> SUFFICES ASSUME NEW d \in Channels \ changed', adcReadingMin'[d] <= adcReadingMax'[d]
             PROVE  SumBetween(d)' /\ SampleReady(d)'
    BY DEF SumInv
<1>1. /\ UNCHANGED <<numberOfSummations, adcReadingMin, adcReadingMax, changed>>
      /\ step = "add" /\ step' = "monitor" /\ channel = c
    BY DEF AddValue, settings, history
<1>2. SumBetween(d) /\ SampleReady(d)
    BY <1>1 DEF SumInv
<1>3. CASE d = c
    <2> DEFINE n == numberOfSummations[c]
               s == rollingSum[c]
               lo == adcReadingMin[c]
               hi == adcReadingMax[c]
    <2>1. /\ n \in Nat /\ n <= SAMPLESIZE /\ s \in Nat /\ lo \in Nat /\ hi \in Nat
          /\ val \in Nat /\ WORD \in Nat \ {0} /\ SAMPLESIZE \in Nat \ {0}
          /\ SAMPLESIZE * hi < WORD
        BY ChannelFacts
    <2>2. n > 0 /\ (n - 1) * lo <= s /\ s <= (n - 1) * hi
        BY <1>1, <1>2, <1>3 DEF SumBetween, Updating, Between
    <2>3. lo <= val /\ val <= hi
        BY <1>1, <1>2, <1>3, <2>1 DEF SampleReady, Between
    <2>4. (n - 1) * lo = n * lo - lo /\ (n - 1) * hi = n * hi - hi
          /\ n * lo \in Nat /\ n * hi \in Nat
        BY <2>1, OneMore
    <2>5. n * lo <= s + val /\ s + val <= n * hi
        BY <2>1, <2>2, <2>3, <2>4
    <2>6. n * hi <= SAMPLESIZE * hi
        <3>1. hi * n <= hi * SAMPLESIZE
            BY <2>1, Monotone
        <3> QED
            BY <2>1, <3>1
    <2>7. s + val \in 0 .. WORD - 1
        <3>1. SAMPLESIZE * hi \in Nat
            BY <2>1
        <3> QED
            BY <2>1, <2>4, <2>5, <2>6, <3>1
    <2>8. rollingSum'[c] = s + val
        BY <2>1, <2>7, ModSmall DEF AddValue, TypeOK
    <2> QED
        BY <1>1, <1>3, <2>5, <2>8 DEF SumBetween, SampleReady, Updating, Between
<1>4. CASE d # c
    <2>1. rollingSum'[d] = rollingSum[d]
        BY <1>4 DEF AddValue, TypeOK
    <2> QED
        BY <1>1, <1>2, <1>4, <2>1 DEF SumBetween, SampleReady, Updating, Between
<1> QED
    BY <1>3, <1>4

LEMMA RestartKeepsSum ==
    ASSUME TypeOK, Restart
    PROVE  SumInv'
<1> SUFFICES ASSUME NEW d \in Channels, adcReadingMin'[d] <= adcReadingMax'[d]
             PROVE  SumBetween(d)' /\ SampleReady(d)'
    BY DEF SumInv
<1>1. /\ rollingSum'[d] = 0 /\ numberOfSummations'[d] = 0 /\ step' = "monitor"
      /\ UNCHANGED <<adcReadingMin, adcReadingMax>>
    BY DEF Restart, settings
<1>2. 0 * adcReadingMin[d] = 0 /\ 0 * adcReadingMax[d] = 0
    BY ChannelFacts
<1> QED
    BY <1>1, <1>2 DEF SumBetween, SampleReady, Updating, Between

\* Steps that write neither a sum nor a limit, and do not enter or leave AddReading.
LEMMA OtherKeepsSum ==
    ASSUME SumInv, UNCHANGED <<sums, adcReadingMin, adcReadingMax, val, currentAvg, changed>>,
           \/ UNCHANGED <<step, channel>>
           \/ step \notin {"room", "add"} /\ step' \notin {"room", "add"}
    PROVE  SumInv'
BY DEF SumInv, SumBetween, SampleReady, Updating, Between, Average, sums

LEMMA LimitKeepsSum ==
    ASSUME TypeOK, SumInv, NEW c \in Channels, NEW m \in Limits,
           SubmitMin(c, m) \/ SubmitMax(c, m)
    PROVE  SumInv'
<1> SUFFICES ASSUME NEW d \in Channels \ changed', adcReadingMin'[d] <= adcReadingMax'[d]
             PROVE  SumBetween(d)' /\ SampleReady(d)'
    BY DEF SumInv
<1>1. /\ changed' = changed \cup {c}
      /\ UNCHANGED <<rollingSum, numberOfSummations, step, channel, val, currentAvg>>
    BY DEF SubmitMin, SubmitMax, sums, locals
<1>2. adcReadingMin'[d] = adcReadingMin[d] /\ adcReadingMax'[d] = adcReadingMax[d]
    BY <1>1 DEF SubmitMin, SubmitMax, TypeOK
<1>3. SumBetween(d) /\ SampleReady(d)
    BY <1>1, <1>2 DEF SumInv
<1> QED
    BY <1>1, <1>2, <1>3 DEF SumBetween, SampleReady, Updating, Between, Average

THEOREM SumInvariance == Spec => []SumInv
<1>1. Init => SumInv
    <2> SUFFICES ASSUME Init, NEW d \in Channels
                 PROVE  SumBetween(d) /\ SampleReady(d)
        BY DEF SumInv
    <2>1. adcReadingMin[d] \in Nat /\ adcReadingMax[d] \in Nat
        BY LimitsAssumption DEF Init
    <2> QED
        BY <2>1 DEF Init, SumBetween, SampleReady, Updating, Between
<1>2. TypeOK /\ SumInv /\ [Next]_vars => SumInv'
    <2> SUFFICES ASSUME TypeOK, SumInv, [Next]_vars PROVE SumInv'
        OBVIOUS
    <2>1. CASE LoopStep
        <3>1. CASE MonitorEnd \/ RunNetwork \/ ReadLevel \/ ProcessEnd
            BY <3>1, OtherKeepsSum DEF MonitorEnd, RunNetwork, ReadLevel, ProcessEnd, settings,
                   locals, history
        <3>2. CASE ReadLevelCrash
            BY <3>2, RestartKeepsSum DEF ReadLevelCrash
        <3> QED
            BY <2>1, <3>1, <3>2, SampleKeepsSum, MakeRoomKeepsSum, AddValueKeepsSum DEF LoopStep
    <2>2. CASE GoOnLine \/ GoOffLine
        BY <2>2, OtherKeepsSum DEF GoOnLine, GoOffLine, settings, locals, history
    <2>3. CASE Reboot
        BY <2>3, RestartKeepsSum DEF Reboot
    <2>4. ASSUME NEW c \in Channels, ReadRegisterCrash(c) PROVE SumInv'
        BY <2>4, RestartKeepsSum DEF ReadRegisterCrash
    <2>5. ASSUME NEW k \in 0 .. AI_PINS, SubmitAnalogInputs(k) PROVE SumInv'
        BY <2>5, OtherKeepsSum DEF SubmitAnalogInputs, locals
    <2>6. CASE UNCHANGED vars
        BY <2>6, OtherKeepsSum DEF vars, settings, locals, history
    <2> QED
        BY <2>1, <2>2, <2>3, <2>4, <2>5, <2>6, LimitKeepsSum DEF Next
<1> QED
    BY <1>1, <1>2, TypeCorrect, PTL DEF Spec

\* A level is within its limits whenever it can be read outside of AddReading, and the
\* unsigned subtraction of Level() does not wrap.
THEOREM LevelsInRange == Spec => []LevelInRange
<1>1. TypeOK /\ SumInv => LevelInRange
    <2> SUFFICES ASSUME TypeOK, SumInv, NEW c \in Channels \ changed,
                        adcReadingMin[c] <= adcReadingMax[c], numberOfSummations[c] > 0,
                        ~Updating(c)
                 PROVE  Level(c) <= adcReadingMax[c] - adcReadingMin[c]
        BY DEF LevelInRange, InRange
    <2> DEFINE n == numberOfSummations[c]
               s == rollingSum[c]
               lo == adcReadingMin[c]
               hi == adcReadingMax[c]
    <2>1. /\ n \in Nat \ {0} /\ s \in Nat /\ lo \in Nat /\ hi \in Nat
        BY ChannelFacts
    <2>2. n * lo <= s /\ s <= n * hi
        BY DEF SumInv, SumBetween, Between
    <2>3. lo <= s \div n /\ s \div n <= hi
        BY <2>1, <2>2, QuotientInRange
    <2>4. Average(c) \in Words /\ Average(c) = s \div n
        BY AverageIsWord DEF Average
    <2>5. Average(c) - lo \in 0 .. WORD - 1
        BY <2>1, <2>3, <2>4, SizesAssumption DEF Words
    <2>6. Level(c) = Average(c) - lo
        BY <2>5, ModSmall, SizesAssumption DEF Level
    <2> QED
        BY <2>1, <2>3, <2>4, <2>6, WordsAreNat
<1> QED
    BY <1>1, TypeCorrect, SumInvariance, PTL
-----------------------------------------------------------------------------
(***************************************************************************)
(* A channel whose limits were changed.  Its sum need not be one of        *)
(* readings within the new limits, so SumInv says nothing of it; but once  *)
(* its average is within them, it stays.  The remainder of the division is *)
(* never dropped: the sum may be up to one less than a count above.        *)
(***************************************************************************)
\* A sum of k readings whose average is not above the upper limit, or one that is left
\* when the average of k + 1 was dropped.
SumSettled(c) ==
    LET n == numberOfSummations[c]
        lo == adcReadingMin[c]
        hi == adcReadingMax[c]
    IN  IF Updating(c)
        THEN n > 0 /\ (n - 1) * lo <= rollingSum[c] /\ rollingSum[c] <= (n - 1) * (hi + 1)
        ELSE /\ n = 0 => rollingSum[c] = 0
             /\ n > 0 => n * lo <= rollingSum[c] /\ rollingSum[c] < n * (hi + 1)

Settled(c) == adcReadingMin[c] <= adcReadingMax[c] /\ SumSettled(c) /\ SampleReady(c)

\* The quotient is within the limits exactly if the sum is within their multiples.
LEMMA QuotientExactly ==
    ASSUME NEW s \in Nat, NEW n \in Nat \ {0}, NEW lo \in Nat, NEW hi \in Nat
    PROVE  /\ n * lo <= s <=> lo <= s \div n
           /\ s < n * (hi + 1) <=> s \div n <= hi
<1> DEFINE q == s \div n
<1>1. q \in Nat /\ n * q <= s /\ s < n * q + n
    BY Division
<1>2. n * (q + 1) = n * q + n /\ n * q \in Nat /\ n * lo \in Nat /\ n * (hi + 1) \in Nat
    BY <1>1
<1> HIDE DEF q
<1>3. lo <= q => n * lo <= s
    <2>1. lo <= q => n * lo <= n * q
        BY <1>1, Monotone
    <2> QED
        BY <1>1, <1>2, <2>1
<1>4. n * lo <= s => lo <= q
    <2>1. n * lo <= s => n * lo < n * (q + 1)
        BY <1>1, <1>2
    <2>2. n * lo < n * (q + 1) => lo < q + 1
        BY <1>1, Cancel
    <2> QED
        BY <1>1, <2>1, <2>2
<1>5. q <= hi => s < n * (hi + 1)
    <2>1. q <= hi => n * (q + 1) <= n * (hi + 1)
        BY <1>1, Monotone
    <2> QED
        BY <1>1, <1>2, <2>1
<1>6. s < n * (hi + 1) => q <= hi
    <2>1. s < n * (hi + 1) => n * q < n * (hi + 1)
        BY <1>1, <1>2
    <2>2. n * q < n * (hi + 1) => q < hi + 1
        BY <1>1, Cancel
    <2> QED
        BY <1>1, <2>1, <2>2
<1> QED
    BY <1>3, <1>4, <1>5, <1>6 DEF q

\* Dropping the average leaves room for a reading, the remainder included.
LEMMA DropSettled ==
    ASSUME NEW s \in Nat, NEW n \in Nat \ {0}, NEW lo \in Nat, NEW hi \in Nat,
           n * lo <= s, s < n * (hi + 1)
    PROVE  /\ s - s \div n \in Nat
           /\ (n - 1) * lo <= s - s \div n
           /\ s - s \div n <= (n - 1) * (hi + 1)
<1> DEFINE q == s \div n
<1>1. q \in Nat /\ n * q <= s /\ s < n * q + n
    BY Division
<1>2. lo <= q /\ q <= hi
    BY QuotientExactly
<1> HIDE DEF q
<1>3. n - 1 \in Nat
    OBVIOUS
<1>4. /\ (n - 1) * q = n * q - q /\ n * q \in Nat
      /\ (n - 1) * (q + 1) = n * q - q + n - 1
    BY <1>1, OneMore
<1>5. (n - 1) * lo <= (n - 1) * q /\ (n - 1) * lo \in Nat
    BY <1>1, <1>2, <1>3, Monotone
<1>6. (n - 1) * (q + 1) <= (n - 1) * (hi + 1) /\ (n - 1) * (hi + 1) \in Nat
    BY <1>1, <1>2, <1>3, Monotone
<1>7. s - q \in Nat /\ (n - 1) * lo <= s - q /\ s - q <= (n - 1) * (hi + 1)
    BY <1>1, <1>4, <1>5, <1>6
<1> QED
    BY <1>7 DEF q

\* Between two readings a channel that has been sampled is settled if and only if its
\* level is within its range.
THEOREM SettledIsInRange ==
    ASSUME TypeOK, NEW c \in Channels, adcReadingMin[c] <= adcReadingMax[c],
           numberOfSummations[c] > 0, channel = c => step \notin {"room", "add"}
    PROVE  Settled(c) <=> InRange(c)
<1> DEFINE n == numberOfSummations[c]
           s == rollingSum[c]
           lo == adcReadingMin[c]
           hi == adcReadingMax[c]
<1>1. /\ n \in Nat \ {0} /\ s \in Nat /\ lo \in Nat /\ hi \in Nat /\ lo <= hi
      /\ WORD \in Nat \ {0} /\ SAMPLESIZE \in Nat \ {0} /\ SAMPLESIZE * hi < WORD
    BY ChannelFacts
<1>2. ~Updating(c) /\ SampleReady(c)
    BY DEF Updating, SampleReady
<1>3. Average(c) \in Nat /\ Average(c) < WORD /\ Average(c) = s \div n
    BY AverageIsWord, SizesAssumption DEF Average, Words
<1>4. hi < WORD
    <2>1. hi * 1 <= hi * SAMPLESIZE
        BY <1>1, Monotone
    <2> QED
        BY <1>1, <2>1
<1>5. Settled(c) <=> lo <= Average(c) /\ Average(c) <= hi
    BY <1>1, <1>2, <1>3, QuotientExactly DEF Settled, SumSettled
<1>6. InRange(c) <=> Level(c) <= hi - lo
    BY <1>2 DEF InRange
<1>7. CASE lo <= Average(c)
    <2>1. Average(c) - lo \in 0 .. WORD - 1
        BY <1>1, <1>3, <1>7
    <2>2. Level(c) = Average(c) - lo
        BY <1>1, <2>1, ModSmall DEF Level
    <2> QED
        BY <1>1, <1>3, <1>5, <1>6, <1>7, <2>2
<1>8. CASE ~(lo <= Average(c))
    <2>1. Average(c) - lo \in Int /\ -WORD <= Average(c) - lo /\ Average(c) - lo < 0
        BY <1>1, <1>3, <1>4, <1>8
    <2>2. Level(c) = Average(c) - lo + WORD
        BY <1>1, <2>1, ModWrap DEF Level
    <2>3. ~(Level(c) <= hi - lo)
        BY <1>1, <1>3, <1>4, <2>2
    <2> QED
        BY <1>5, <1>6, <1>8, <2>3
<1> QED
    BY <1>7, <1>8

\* The room that a sum of readings needs in a word, with its remainder.
RoomForRemainder == \A m \in Limits : SAMPLESIZE * (m + 1) <= WORD

\* A step that leaves alone what Settled is about.
LEMMA SettledUnchanged ==
    ASSUME NEW c \in Channels, Settled(c),
           adcReadingMin'[c] = adcReadingMin[c], adcReadingMax'[c] = adcReadingMax[c],
           rollingSum'[c] = rollingSum[c], numberOfSummations'[c] = numberOfSummations[c],
           UNCHANGED <<val, currentAvg>>,
           \/ UNCHANGED <<step, channel>>
           \/ step' \notin {"room", "add"} /\ ~Updating(c)
    PROVE  Settled(c)'
BY DEF Settled, SumSettled, SampleReady, Updating, Between, Average

LEMMA SettledSample ==
    ASSUME TypeOK, NEW c \in Channels, NEW d \in Channels, Sample(d), Settled(c)
    PROVE  Settled(c)'
<1>1. /\ UNCHANGED <<rollingSum, numberOfSummations, adcReadingMin, adcReadingMax, channel>>
      /\ step = "monitor" /\ step' = "room" /\ channel = d
    BY DEF Sample, sums, settings
<1>2. SumSettled(c)'
    BY <1>1 DEF Settled, SumSettled, Updating
<1>3. CASE d = c
    <2>1. PICK x \in Conversions : val' = Clamp(c, x)
        BY <1>3 DEF Sample
    <2>2. x \in Nat
        BY LimitsAssumption
    <2>3. adcReadingMin[c] <= val' /\ val' <= adcReadingMax[c] /\ val' \in Nat
        BY <2>1, <2>2, ChannelFacts DEF Clamp, Settled
    <2>4. Between(c, 1, val)'
        BY <1>1, <2>3, ChannelFacts DEF Between
    <2>5. numberOfSummations[c] > 0 => currentAvg' = Average(c)'
        BY <1>1, <1>3 DEF Sample, Average
    <2> QED
        BY <1>1, <1>2, <2>4, <2>5 DEF Settled, SampleReady
<1>4. CASE d # c
    BY <1>1, <1>2, <1>4 DEF Settled, SampleReady
<1> QED
    BY <1>3, <1>4

LEMMA SettledMakeRoom ==
    ASSUME TypeOK, NEW c \in Channels, MakeRoom(c), Settled(c)
    PROVE  Settled(c)'
<1> DEFINE n == numberOfSummations[c]
           s == rollingSum[c]
           lo == adcReadingMin[c]
           hi == adcReadingMax[c]
<1>1. /\ UNCHANGED <<adcReadingMin, adcReadingMax, channel, val, currentAvg>>
      /\ step = "room" /\ step' = "add" /\ channel = c
    BY DEF MakeRoom, settings, locals
<1>2. SampleReady(c)'
    BY <1>1 DEF Settled, SampleReady, Between
<1>3. /\ n \in Nat /\ n <= SAMPLESIZE /\ s \in Nat /\ s < WORD /\ lo \in Nat /\ hi \in Nat
      /\ WORD \in Nat \ {0} /\ SAMPLESIZE \in Nat \ {0}
    BY ChannelFacts
<1>4. /\ n = 0 => s = 0
      /\ n > 0 => n * lo <= s /\ s < n * (hi + 1)
    BY <1>1 DEF Settled, SumSettled, Updating
<1>5. CASE n < SAMPLESIZE
    <2>1. numberOfSummations'[c] = n + 1 /\ rollingSum'[c] = s
        BY <1>5 DEF MakeRoom, TypeOK
    <2>2. n * lo <= s /\ s <= n * (hi + 1)
        <3>1. CASE n = 0
            BY <1>3, <1>4, <3>1
        <3>2. CASE n > 0
            <4>1. n * (hi + 1) \in Nat
                BY <1>3
            <4> QED
                BY <1>3, <1>4, <3>2, <4>1
        <3> QED
            BY <1>3, <3>1, <3>2
    <2>3. numberOfSummations'[c] > 0 /\ numberOfSummations'[c] - 1 = n
        BY <1>3, <2>1
    <2> QED
        BY <1>1, <1>2, <2>1, <2>2, <2>3 DEF Settled, SumSettled, Updating
<1>6. CASE ~(n < SAMPLESIZE)
    <2>1. n \in Nat \ {0} /\ n > 0
        BY <1>3, <1>6
    <2>2. currentAvg = s \div n
        BY <1>1, <2>1 DEF Settled, SampleReady, Average
    <2>3. s \div n \in Nat
        BY <1>3, <2>1, Division
    <2>4. /\ s - s \div n \in Nat
          /\ (n - 1) * lo <= s - s \div n
          /\ s - s \div n <= (n - 1) * (hi + 1)
        BY <1>3, <1>4, <2>1, DropSettled
    <2>5. s - s \div n \in 0 .. WORD - 1
        BY <1>3, <2>3, <2>4
    <2>6. (s - s \div n) % WORD = s - s \div n
        BY <1>3, <2>5, ModSmall
    <2>7. rollingSum'[c] = s - s \div n /\ numberOfSummations'[c] = n
        BY <1>6, <2>2, <2>6 DEF MakeRoom, TypeOK
    <2> QED
        BY <1>1, <1>2, <2>1, <2>4, <2>7 DEF Settled, SumSettled, Updating
<1> QED
    BY <1>5, <1>6

LEMMA SettledAddValue ==
    ASSUME RoomForRemainder, TypeOK, NEW c \in Channels, AddValue(c), Settled(c)
    PROVE  Settled(c)'
<1> DEFINE n == numberOfSummations[c]
           s == rollingSum[c]
           lo == adcReadingMin[c]
           hi == adcReadingMax[c]
<1>1. /\ UNCHANGED <<numberOfSummations, adcReadingMin, adcReadingMax>>
      /\ step = "add" /\ step' = "monitor" /\ channel = c
    BY DEF AddValue, settings
<1>2. /\ n \in Nat /\ n <= SAMPLESIZE /\ s \in Nat /\ lo \in Nat /\ hi \in Nat /\ hi + 1 \in Nat
      /\ val \in Nat /\ WORD \in Nat \ {0} /\ SAMPLESIZE \in Nat \ {0}
    BY ChannelFacts
<1>3. SAMPLESIZE * (hi + 1) <= WORD
    BY DEF RoomForRemainder, TypeOK
<1>4. n > 0 /\ (n - 1) * lo <= s /\ s <= (n - 1) * (hi + 1)
    BY <1>1 DEF Settled, SumSettled, Updating
<1>5. lo <= val /\ val <= hi
    BY <1>1, <1>2 DEF Settled, SampleReady, Between
<1>6. /\ (n - 1) * lo = n * lo - lo /\ (n - 1) * (hi + 1) = n * (hi + 1) - (hi + 1)
      /\ n * lo \in Nat /\ n * (hi + 1) \in Nat
    BY <1>2, OneMore
<1>7. n * lo <= s + val /\ s + val < n * (hi + 1)
    BY <1>2, <1>4, <1>5, <1>6
<1>8. n * (hi + 1) <= SAMPLESIZE * (hi + 1)
    <2>1. (hi + 1) * n <= (hi + 1) * SAMPLESIZE
        BY <1>2, Monotone
    <2> QED
        BY <1>2, <2>1
<1>9. s + val \in 0 .. WORD - 1
    <2>1. SAMPLESIZE * (hi + 1) \in Nat
        BY <1>2
    <2> QED
        BY <1>2, <1>3, <1>6, <1>7, <1>8, <2>1
<1>10. rollingSum'[c] = s + val
    BY <1>2, <1>9, ModSmall DEF AddValue, TypeOK
<1>11. SampleReady(c)' /\ ~Updating(c)'
    BY <1>1 DEF SampleReady, Updating
<1> QED
    BY <1>1, <1>4, <1>7, <1>10, <1>11 DEF Settled, SumSettled

LEMMA SettledRestart ==
    ASSUME NEW c \in Channels, Settled(c), Restart
    PROVE  Settled(c)'
BY DEF Restart, settings, Settled, SumSettled, SampleReady, Updating

\* While its limits stay as they are, a channel that is within its range stays within it,
\* whatever limits the readings in its sum were taken with: neither the rounding of the
\* average that AddReading drops nor the 32 bits of the sum (AnalogSensor.cpp:37-60) let
\* it out again.  Only the word must have room for the remainder.
THEOREM RangeIsKept ==
    ASSUME RoomForRemainder, NEW c \in Channels
    PROVE  Spec => [][ Settled(c) /\ UNCHANGED <<adcReadingMin[c], adcReadingMax[c]>>
                           => Settled(c)' ]_vars
<1>1. TypeOK /\ [Next]_vars
          => [Settled(c) /\ UNCHANGED <<adcReadingMin[c], adcReadingMax[c]>> => Settled(c)']_vars
    <2> SUFFICES ASSUME TypeOK, Next, Settled(c),
                        adcReadingMin'[c] = adcReadingMin[c], adcReadingMax'[c] = adcReadingMax[c]
                 PROVE  Settled(c)'
        OBVIOUS
    <2>1. CASE MonitorEnd \/ RunNetwork \/ ReadLevel \/ ProcessEnd
        BY <2>1, SettledUnchanged DEF MonitorEnd, RunNetwork, ReadLevel, ProcessEnd, sums, locals,
               Updating
    <2>2. CASE ReadLevelCrash \/ Reboot \/ \E d \in Channels : ReadRegisterCrash(d)
        BY <2>2, SettledRestart DEF ReadLevelCrash, Reboot, ReadRegisterCrash
    <2>3. ASSUME NEW d \in Channels, Sample(d)
          PROVE  Settled(c)'
        BY <2>3, SettledSample
    <2>4. ASSUME NEW d \in Channels, MakeRoom(d) \/ AddValue(d)
          PROVE  Settled(c)'
        <3>1. CASE d = c
            BY <2>4, <3>1, SettledMakeRoom, SettledAddValue
        <3>2. CASE d # c
            <4>1. /\ rollingSum'[c] = rollingSum[c]
                  /\ numberOfSummations'[c] = numberOfSummations[c]
                  /\ channel = d
                BY <2>4, <3>2 DEF MakeRoom, AddValue, TypeOK
            <4>2. SumSettled(c)' /\ SampleReady(c)'
                BY <2>4, <3>2, <4>1 DEF MakeRoom, AddValue, Settled, SumSettled, SampleReady,
                       Updating, Between
            <4> QED
                BY <4>2 DEF Settled
        <3> QED
            BY <3>1, <3>2
    <2>5. CASE GoOnLine \/ GoOffLine \/ \E k \in 0 .. AI_PINS : SubmitAnalogInputs(k)
        BY <2>5, SettledUnchanged DEF GoOnLine, GoOffLine, SubmitAnalogInputs, sums, locals
    <2>6. ASSUME NEW d \in Channels, NEW m \in Limits, SubmitMin(d, m) \/ SubmitMax(d, m)
          PROVE  Settled(c)'
        BY <2>6, SettledUnchanged DEF SubmitMin, SubmitMax, sums, locals
    <2> QED
        BY <2>1, <2>2, <2>3, <2>4, <2>5, <2>6 DEF Next, LoopStep
<1> QED
    BY <1>1, TypeCorrect, PTL DEF Spec
=============================================================================
