---------------------------- MODULE SettingsProofs ----------------------------
(***************************************************************************)
(* Proofs about Settings: for any number of channels, any texts and any    *)
(* size of the EEPROM.  The inductive invariant says at every step of the  *)
(* program how the settings in the variables, the RAM copy and the EEPROM  *)
(* are related.                                                            *)
(***************************************************************************)
EXTENDS Settings, TLAPS

-----------------------------------------------------------------------------
(***************************************************************************)
(* The inductive invariant                                                 *)
(***************************************************************************)
\* The texts that parse: they have limits for their channels, and they fit.
Parsable ==
    { t \in SavedSettings : t.limits \in [SavedChannels(t.analog) -> Limits] /\ Fits(t) }

AtMostOne(eeprom) == eeprom = {} \/ \E t \in Parsable : eeprom = {t}

Types ==
    /\ ram \in RamSettings
    /\ AtMostOne(buffer) /\ AtMostOne(flash)
    /\ step \in Steps
    /\ next \in {"flasher", "serve", "reply", "restart"}
    /\ form \in Forms
    /\ shown \in SUBSET SavedSettings

\* After a start everything is what the EEPROM has.
AtBoot == step = "boot" => ram = Initial /\ buffer = flash

\* saveSettings has written what is in the variables.
WhileSaving ==
    /\ step = "commit" => buffer = Written(ram)
    /\ step = "reply" => flash = Written(ram)

\* Outside of a form, and of saveSettings, the EEPROM has what is in the variables.
AtRest ==
    step \in {"flasher", "serve", "reply", "restart"} => Agree(ram, Restored(flash))

IInv == Types /\ AtBoot /\ WhileSaving /\ AtRest /\ AcknowledgedIsKept

-----------------------------------------------------------------------------
(***************************************************************************)
(* The conversions                                                         *)
(***************************************************************************)
LEMMA ChannelFacts ==
    /\ AIPins \in 0 .. AIPins
    /\ \A n \in 0 .. AIPins : SavedChannels(n) \subseteq Channels
    /\ \A n \in 0 .. AIPins : \A i \in Channels : i \in SavedChannels(n) <=> i < n
BY PinsAssumption DEF Channels, SavedChannels

LEMMA WordFacts == \A p \in Words : p \in Nat /\ p < 65536
BY DEF Words

LEMMA Int16Facts == \A n \in Int : n \in Int16s <=> -32768 <= n /\ n <= 32767
BY DEF Int16s

LEMMA PortFacts ==
    /\ \A n \in Int16s : AsUint16(n) \in Int16s /\ AsUint16(AsUint16(n)) = AsUint16(n)
    /\ \A p \in Ports : Int16(p) \in Int16s
    /\ DefaultPort \in Int16s /\ AsUint16(DefaultPort) = DefaultPort
<1>1. \A n \in Int16s : AsUint16(n) \in Int16s /\ AsUint16(AsUint16(n)) = AsUint16(n)
    BY DEF AsUint16, Int16s
<1>2. ASSUME NEW p \in Ports
      PROVE  Int16(p) \in Int16s
    <2>1. p \in Nat /\ p < 65536
        BY PortAssumption, WordFacts
    <2>2. Int16(p) \in Int /\ -32768 <= Int16(p) /\ Int16(p) <= 32767
        BY <2>1 DEF Int16
    <2> QED
        BY <2>2, Int16Facts
<1>3. DefaultPort \in Nat /\ DefaultPort < 32768
    BY PortAssumption, WordFacts
<1>4. AsUint16(DefaultPort) = DefaultPort
    BY <1>3 DEF AsUint16
<1>5. -32768 <= DefaultPort /\ DefaultPort <= 32767
    BY <1>3
<1>6. DefaultPort \in Int16s
    BY <1>3, <1>5, Int16Facts
<1> QED
    BY <1>1, <1>2, <1>4, <1>6

LEMMA InitialType == Initial \in RamSettings
<1>1. DefaultTexts \in Texts /\ DefaultLimits \in Limits
    BY LengthAssumption
<1>2. [i \in Channels |-> DefaultLimits] \in [Channels -> Limits]
    BY <1>1
<1> QED
    BY <1>1, <1>2, ChannelFacts, PortFacts DEF Initial, RamSettings, Networks

LEMMA NoFormType == NoForm \in Forms
<1>1. [i \in Channels |-> DefaultLimits] \in [Channels -> Limits]
    BY LengthAssumption
<1> QED
    BY <1>1, PinsAssumption DEF NoForm, Forms

LEMMA SavedIsText ==
    ASSUME NEW s \in RamSettings
    PROVE  /\ Saved(s) \in SavedSettings
           /\ Saved(s).limits = [i \in SavedChannels(s.analog) |-> s.limits[i]]
           /\ Saved(s).limits \in [SavedChannels(s.analog) -> Limits]
           /\ Saved(s).texts = s.texts /\ Saved(s).net = s.net
           /\ Saved(s).port = s.port /\ Saved(s).analog = s.analog
<1>1. s.analog \in 0 .. AIPins /\ s.limits \in [Channels -> Limits]
    BY DEF RamSettings
<1>2. [i \in SavedChannels(s.analog) |-> s.limits[i]] \in [SavedChannels(s.analog) -> Limits]
    BY <1>1, ChannelFacts
<1>3. [i \in SavedChannels(s.analog) |-> s.limits[i]]
         \in UNION { [SavedChannels(n) -> Limits] : n \in 0 .. AIPins }
    BY <1>1, <1>2
<1> QED
    BY <1>2, <1>3 DEF RamSettings, SavedSettings, Saved

LEMMA LoadedIsRam ==
    ASSUME NEW t \in Parsable
    PROVE  /\ Loaded(t) \in RamSettings
           /\ Loaded(t).texts = t.texts /\ Loaded(t).net = t.net
           /\ Loaded(t).port = AsUint16(t.port) /\ Loaded(t).analog = t.analog
           /\ \A i \in SavedChannels(t.analog) : Loaded(t).limits[i] = t.limits[i]
<1> DEFINE limits == [i \in Channels |-> IF i \in SavedChannels(t.analog)
                                         THEN t.limits[i] ELSE Initial.limits[i]]
<1>1. t \in SavedSettings /\ t.limits \in [SavedChannels(t.analog) -> Limits]
    BY DEF Parsable
<1>2. t.analog \in 0 .. AIPins /\ t.port \in Int16s
    BY <1>1 DEF SavedSettings
<1>3. Initial.limits \in [Channels -> Limits]
    BY InitialType DEF RamSettings
<1>4. limits \in [Channels -> Limits]
    BY <1>1, <1>3
<1>5. \A i \in SavedChannels(t.analog) : limits[i] = t.limits[i]
    BY <1>2, ChannelFacts
<1>6. Loaded(t) = [t EXCEPT !.port = AsUint16(t.port), !.limits = limits]
    BY DEF Loaded
<1> HIDE DEF limits
<1> QED
    BY <1>1, <1>2, <1>4, <1>5, <1>6, PortFacts DEF SavedSettings, RamSettings

\* Whether a text fits depends on its text fields and limits only.
LEMMA SameFits ==
    ASSUME NEW s, NEW t, s.texts = t.texts, s.limits = t.limits
    PROVE  Fits(s) <=> Fits(t)
BY DEF Fits

\* What has been loaded would be saved as it was, but for a negative port.
LEMMA SavedLoaded ==
    ASSUME NEW t \in Parsable
    PROVE  /\ Saved(Loaded(t)) = [t EXCEPT !.port = AsUint16(t.port)]
           /\ Fits(Saved(Loaded(t)))
<1>1. t \in SavedSettings /\ t.limits \in [SavedChannels(t.analog) -> Limits] /\ Fits(t)
    BY DEF Parsable
<1>2. Saved(Loaded(t)).limits = [i \in SavedChannels(t.analog) |-> Loaded(t).limits[i]]
    BY LoadedIsRam, SavedIsText
<1>3. Saved(Loaded(t)).limits = t.limits
    <2>1. [i \in SavedChannels(t.analog) |-> Loaded(t).limits[i]]
            = [i \in SavedChannels(t.analog) |-> t.limits[i]]
        BY LoadedIsRam
    <2> QED
        BY <1>1, <1>2, <2>1
<1>4. /\ Saved(Loaded(t)).texts = t.texts /\ Saved(Loaded(t)).net = t.net
      /\ Saved(Loaded(t)).port = AsUint16(t.port) /\ Saved(Loaded(t)).analog = t.analog
      /\ Saved(Loaded(t)) \in SavedSettings
    BY LoadedIsRam, SavedIsText
<1>5. Saved(Loaded(t)) = [t EXCEPT !.port = AsUint16(t.port)]
    BY <1>1, <1>3, <1>4 DEF SavedSettings
<1>6. Fits(Saved(Loaded(t)))
    BY <1>1, <1>3, <1>4, SameFits
<1> QED
    BY <1>5, <1>6

\* What saveSettings writes.
LEMMA WrittenFacts ==
    ASSUME NEW s \in RamSettings
    PROVE  /\ AtMostOne(Written(s))
           /\ Fits(Saved(s)) => Written(s) = {Saved(s)} /\ Saved(s) \in Parsable
           /\ ~Fits(Saved(s)) => Written(s) = {}
BY SavedIsText DEF Written, AtMostOne, Parsable

\* What a restart makes of an EEPROM.
LEMMA RestoredFacts ==
    /\ Restored({}) = Initial
    /\ \A t : Restored({t}) = Loaded(t)
BY DEF Restored

LEMMA RestoredIsRam ==
    ASSUME NEW e, AtMostOne(e)
    PROVE  Restored(e) \in RamSettings
<1>1. CASE e = {}
    BY <1>1, RestoredFacts, InitialType
<1>2. ASSUME NEW t \in Parsable, e = {t}
      PROVE  Restored(e) \in RamSettings
    BY <1>2, RestoredFacts, LoadedIsRam
<1> QED
    BY <1>1, <1>2 DEF AtMostOne

LEMMA InitialAgrees == Agree(Initial, Initial)
<1>1. [Initial EXCEPT !.port = AsUint16(Initial.port)] = Initial
    BY PortFacts DEF Initial
<1> QED
    BY <1>1 DEF Agree

\* After saveSettings a restart changes nothing.
LEMMA SavingAgrees ==
    ASSUME NEW s \in RamSettings
    PROVE  Agree(s, Restored(Written(s)))
<1>1. CASE Fits(Saved(s))
    <2>1. Restored(Written(s)) = Loaded(Saved(s)) /\ Saved(s) \in Parsable
        BY <1>1, WrittenFacts, RestoredFacts
    <2>2. \A i \in SavedChannels(s.analog) : Loaded(Saved(s)).limits[i] = s.limits[i]
        BY <2>1, LoadedIsRam, SavedIsText
    <2>3. \A i \in Channels : i < s.analog => Loaded(Saved(s)).limits[i] = s.limits[i]
        BY <2>2, ChannelFacts DEF RamSettings
    <2>4. /\ Loaded(Saved(s)).texts = s.texts /\ Loaded(Saved(s)).net = s.net
          /\ Loaded(Saved(s)).port = AsUint16(s.port) /\ Loaded(Saved(s)).analog = s.analog
        BY <2>1, LoadedIsRam, SavedIsText
    <2> QED
        BY <1>1, <2>1, <2>3, <2>4 DEF Agree, RamSettings
<1>2. CASE ~Fits(Saved(s))
    <2>1. Restored(Written(s)) = Initial
        BY <1>2, WrittenFacts, RestoredFacts
    <2> QED
        BY <1>2, <2>1 DEF Agree
<1> QED
    BY <1>1, <1>2

\* After a start, too.
LEMMA LoadingAgrees ==
    ASSUME NEW e, AtMostOne(e)
    PROVE  Agree(Restored(e), Restored(e))
<1>1. CASE e = {}
    BY <1>1, RestoredFacts, InitialAgrees
<1>2. ASSUME NEW t \in Parsable, e = {t}
      PROVE  Agree(Restored(e), Restored(e))
    <2>1. Restored(e) = Loaded(t)
        BY <1>2, RestoredFacts
    <2>2. Fits(Saved(Loaded(t)))
        BY SavedLoaded
    <2>3. Loaded(t).port = AsUint16(t.port) /\ t.port \in Int16s
        BY LoadedIsRam DEF Parsable, SavedSettings
    <2>4. AsUint16(Loaded(t).port) = Loaded(t).port
        BY <2>3, PortFacts
    <2>5. [Loaded(t) EXCEPT !.port = AsUint16(Loaded(t).port)] = Loaded(t)
        BY <2>4, LoadedIsRam DEF RamSettings
    <2> QED
        BY <2>1, <2>2, <2>5 DEF Agree
<1> QED
    BY <1>1, <1>2 DEF AtMostOne

-----------------------------------------------------------------------------
(***************************************************************************)
(* Every step preserves the invariant                                      *)
(***************************************************************************)
LEMMA InitIsFine ==
    ASSUME Init
    PROVE  IInv
<1> USE DEF Init
<1>1. Types
    BY InitialType, NoFormType DEF Types, AtMostOne, Steps
<1>2. AtBoot /\ WhileSaving /\ AtRest /\ AcknowledgedIsKept
    BY DEF AtBoot, WhileSaving, AtRest, AcknowledgedIsKept
<1> QED
    BY <1>1, <1>2 DEF IInv

LEMMA StartedFacts == \A s : Started(s) \in {"flasher", "serve"}
BY DEF Started

LEMMA FormFacts ==
    ASSUME NEW s \in RamSettings, NEW f \in Forms
    PROVE  WithInputs(s, f) \in RamSettings
<1> DEFINE limits == [i \in Channels |-> IF i < f.analog /\ i < f.fields
                                         THEN f.limits[i] ELSE s.limits[i]]
<1>1. limits \in [Channels -> Limits]
    BY DEF RamSettings, Forms
<1>2. WithInputs(s, f) = [s EXCEPT !.analog = f.analog, !.limits = limits]
    BY DEF WithInputs
<1>3. f.analog \in 0 .. AIPins
    BY DEF Forms
<1> HIDE DEF limits
<1> QED
    BY <1>1, <1>2, <1>3 DEF RamSettings

LEMMA TypesPreserved ==
    ASSUME IInv, [Next]_vars
    PROVE  Types'
<1> USE DEF Types, IInv, Steps
<1>1. CASE FactoryReset
    BY <1>1, StartedFacts DEF FactoryReset, AtMostOne
<1>2. CASE LoadSettings
    BY <1>2, StartedFacts, RestoredIsRam DEF LoadSettings
<1>3. CASE Flasher
    BY <1>3, SelectionAssumption DEF Flasher, RamSettings, Networks
<1>4. CASE DoneWaiting
    BY <1>4 DEF DoneWaiting
<1>5. CASE Submit
    <2>1. PICK texts \in Texts, net \in Selections \cup {ram.net},
               port \in {Int16(p) : p \in Ports} \cup {ram.port} :
              ram' = [ram EXCEPT !.texts = texts, !.net = net, !.port = port]
        BY <1>5 DEF Submit
    <2>2. net \in Networks
        BY DEF RamSettings, Networks
    <2>3. port \in Int16s
        <3>1. CASE port = ram.port
            BY <3>1 DEF RamSettings
        <3>2. CASE port \in {Int16(p) : p \in Ports}
            BY <3>2, PortFacts, Zenon
        <3> QED
            BY <3>1, <3>2
    <2>4. ram' \in RamSettings
        BY <2>1, <2>2, <2>3 DEF RamSettings
    <2> QED
        BY <1>5, <2>4 DEF Submit
<1>6. CASE SubmitInputs
    BY <1>6, FormFacts, NoFormType DEF SubmitInputs
<1>7. CASE Reply
    BY <1>7, SavedIsText DEF Reply
<1>8. CASE Write
    BY <1>8, WrittenFacts DEF Write
<1>9. CASE Commit
    BY <1>9 DEF Commit
<1>10. CASE Restart
    BY <1>10, InitialType, NoFormType DEF Restart
<1>11. CASE UNCHANGED vars
    BY <1>11 DEF vars, AtMostOne
<1> QED
    BY <1>1, <1>2, <1>3, <1>4, <1>5, <1>6, <1>7, <1>8, <1>9, <1>10, <1>11 DEF Next

LEMMA RelationsPreserved ==
    ASSUME IInv, [Next]_vars
    PROVE  (AtBoot /\ WhileSaving /\ AtRest)'
<1> USE DEF Types, IInv, AtBoot, WhileSaving, AtRest
<1>1. CASE FactoryReset
    <2>1. ram' = Initial /\ flash' = {} /\ step' \in {"flasher", "serve"}
        BY <1>1, StartedFacts DEF FactoryReset
    <2>2. Agree(ram', Restored(flash'))
        BY <2>1, InitialAgrees, RestoredFacts
    <2> QED
        BY <2>1, <2>2
<1>2. CASE LoadSettings
    <2>1. ram' = Restored(flash) /\ flash' = flash /\ step' \in {"flasher", "serve", "write"}
        BY <1>2, StartedFacts DEF LoadSettings
    <2>2. Agree(ram', Restored(flash'))
        BY <2>1, LoadingAgrees
    <2> QED
        BY <2>1, <2>2
<1>3. CASE Flasher
    BY <1>3 DEF Flasher
<1>4. CASE DoneWaiting
    BY <1>4 DEF DoneWaiting
<1>5. CASE Submit
    BY <1>5 DEF Submit
<1>6. CASE SubmitInputs
    BY <1>6 DEF SubmitInputs
<1>7. CASE Reply
    BY <1>7 DEF Reply
<1>8. CASE Write
    BY <1>8 DEF Write
<1>9. CASE Commit
    <2>1. ram' = ram /\ flash' = Written(ram) /\ step' \in {"flasher", "serve", "reply", "restart"}
        BY <1>9 DEF Commit
    <2>2. Agree(ram', Restored(flash'))
        BY <2>1, SavingAgrees
    <2> QED
        BY <2>1, <2>2
<1>10. CASE Restart
    BY <1>10 DEF Restart
<1>11. CASE UNCHANGED vars
    BY <1>11 DEF vars
<1> QED
    BY <1>1, <1>2, <1>3, <1>4, <1>5, <1>6, <1>7, <1>8, <1>9, <1>10, <1>11 DEF Next

LEMMA AcknowledgedPreserved ==
    ASSUME IInv, [Next]_vars
    PROVE  AcknowledgedIsKept'
<1> USE DEF IInv, AcknowledgedIsKept
<1>1. CASE FactoryReset \/ Commit
    BY <1>1 DEF FactoryReset, Commit
<1>2. CASE Reply
    <2>1. shown' = {Saved(ram)} /\ flash' = Written(ram)
        BY <1>2 DEF Reply, WhileSaving
    <2> QED
        BY <2>1, WrittenFacts DEF Types
<1>3. CASE UNCHANGED <<flash, shown>>
    BY <1>3
<1> QED
    BY <1>1, <1>2, <1>3 DEF Next, LoadSettings, Flasher, DoneWaiting, Submit, SubmitInputs, Write,
        Restart, vars

LEMMA Invariance == Spec => []IInv
<1>1. Init => IInv
    BY InitIsFine
<1>2. IInv /\ [Next]_vars => IInv'
    BY TypesPreserved, RelationsPreserved, AcknowledgedPreserved DEF IInv
<1> QED
    BY <1>1, <1>2, PTL DEF Spec

LEMMA TypesImplyTypeOK == Types => TypeOK
BY DEF Types, TypeOK, AtMostOne, Parsable, Steps

-----------------------------------------------------------------------------
(***************************************************************************)
(* The theorems                                                            *)
(***************************************************************************)
\* Whatever is submitted, saved and loaded, the settings in the variables, in the RAM
\* copy and in the EEPROM have their types, in particular the port its sixteen bits
\* (IOT.cpp:358) and every channel its limits.
THEOREM TypeCorrect == Spec => []TypeOK
<1>1. IInv => TypeOK
    BY TypesImplyTypeOK DEF IInv
<1> QED
    BY <1>1, Invariance, PTL

\* What the response to a form showed is in the EEPROM until another form is saved,
\* wherever restarts come in between (IOT.cpp:240: saveSettings comes before the response).
THEOREM AcknowledgedStays == Spec => []AcknowledgedIsKept
<1>1. IInv => AcknowledgedIsKept
    BY DEF IInv
<1> QED
    BY <1>1, Invariance, PTL

\* While no form is being applied the variables are what a restart would load, apart from
\* texts that do not fit and ports above 32767 (IOT.cpp:319-412).
THEOREM RestartIsHarmless == Spec => []RestartChangesNothing
<1>1. IInv => RestartChangesNothing
    BY DEF IInv, AtRest, RestartChangesNothing
<1> QED
    BY <1>1, Invariance, PTL

-----------------------------------------------------------------------------
(***************************************************************************)
(* What is not lost: RestartChangesNothing makes two exceptions, texts     *)
(* that do not fit and ports above 32767.  Without them it is exact.       *)
(***************************************************************************)
\* The port that a form has, after it was stored in int16_t, saved, and read back as
\* uint16_t (IOT.cpp:358): the same up to 32767, otherwise 0.
THEOREM PortRoundTrip ==
    ASSUME NEW p \in Ports
    PROVE  AsUint16(Int16(p)) = IF p < 32768 THEN p ELSE 0
<1>1. p \in Nat /\ p < 65536
    BY PortAssumption, WordFacts
<1> QED
    BY <1>1 DEF AsUint16, Int16

\* What a form may say and still be found again after a restart.
SmallPorts == \A p \in Ports : p < 32768
Roomy == \A s \in SavedSettings : Fits(s)

SmallPort == ram.port >= 0

LEMMA Int16Range == Int16s \subseteq Int
BY DEF Int16s

LEMMA SmallPortInit ==
    ASSUME Init
    PROVE  SmallPort
<1>1. DefaultPort \in Nat
    BY PortAssumption, WordFacts
<1> QED
    BY <1>1 DEF Init, Initial, SmallPort

LEMMA RestoredPort ==
    ASSUME NEW e, AtMostOne(e)
    PROVE  Restored(e).port >= 0
<1>1. CASE e = {}
    <2>1. DefaultPort \in Nat
        BY PortAssumption, WordFacts
    <2> QED
        BY <1>1, <2>1, RestoredFacts DEF Initial
<1>2. ASSUME NEW t \in Parsable, e = {t}
      PROVE  Restored(e).port >= 0
    <2>1. t.port \in Int
        <3>1. t.port \in Int16s
            BY DEF Parsable, SavedSettings
        <3> QED
            BY <3>1, Int16Range
    <2>2. Restored(e).port = AsUint16(t.port)
        BY <1>2, RestoredFacts, LoadedIsRam
    <2> QED
        BY <2>1, <2>2 DEF AsUint16
<1> QED
    BY <1>1, <1>2 DEF AtMostOne

LEMMA SmallPortStep ==
    ASSUME SmallPorts, IInv, SmallPort, [Next]_vars
    PROVE  SmallPort'
<1> USE DEF SmallPort
<1>1. CASE LoadSettings
    <2>1. ram' = Restored(flash)
        BY <1>1 DEF LoadSettings, IInv, AtBoot
    <2> QED
        BY <2>1, RestoredPort DEF IInv, Types
<1>2. CASE Submit
    <2>1. PICK texts \in Texts, net \in Selections \cup {ram.net},
               port \in {Int16(p) : p \in Ports} \cup {ram.port} :
              ram' = [ram EXCEPT !.texts = texts, !.net = net, !.port = port]
        BY <1>2 DEF Submit
    <2>2. ram'.port = port
        BY <2>1 DEF IInv, Types, RamSettings
    <2>3. ASSUME NEW p \in Ports
          PROVE  Int16(p) >= 0
        <3>1. p \in Nat /\ p < 32768
            BY PortAssumption, WordFacts DEF SmallPorts
        <3> QED
            BY <3>1 DEF Int16
    <2> QED
        BY <2>2, <2>3
<1>3. CASE Flasher \/ SubmitInputs
    BY <1>3 DEF Flasher, SubmitInputs, WithInputs, IInv, Types, RamSettings
<1>4. CASE Restart
    <2>1. DefaultPort \in Nat
        BY PortAssumption, WordFacts
    <2> QED
        BY <1>4, <2>1 DEF Restart, Initial
<1>5. CASE UNCHANGED ram
    BY <1>5
<1> QED
    BY <1>1, <1>2, <1>3, <1>4, <1>5 DEF Next, FactoryReset, DoneWaiting, Reply, Write, Commit, vars

\* What the program works with while no form is being applied.
Same(s, t) ==
    /\ s.texts = t.texts /\ s.net = t.net /\ s.port = t.port /\ s.analog = t.analog
    /\ \A i \in SavedChannels(s.analog) : s.limits[i] = t.limits[i]

\* If the EEPROM has room for every text and no form has a port above 32767, a restart
\* finds the very settings that were in use, whenever it comes while no form is being
\* applied: the two exceptions of RestartChangesNothing are the only ones.
THEOREM NothingIsLost ==
    ASSUME SmallPorts, Roomy
    PROVE  Spec => [](step = "serve" => Same(ram, Restored(flash)))
<1>1. IInv /\ SmallPort => (step = "serve" => Same(ram, Restored(flash)))
    <2> SUFFICES ASSUME IInv, SmallPort, step = "serve"
                 PROVE  Same(ram, Restored(flash))
        OBVIOUS
    <2>1. ram \in RamSettings /\ Agree(ram, Restored(flash))
        BY DEF IInv, Types, AtRest
    <2>2. Fits(Saved(ram))
        BY <2>1, SavedIsText DEF Roomy
    <2>3. AsUint16(ram.port) = ram.port
        <3>1. ram.port \in Int
            BY <2>1, Int16Range DEF RamSettings
        <3> QED
            BY <3>1 DEF SmallPort, AsUint16
    <2>4. [ram EXCEPT !.port = AsUint16(ram.port)] = ram
        BY <2>1, <2>3 DEF RamSettings
    <2>5. \A i \in SavedChannels(ram.analog) : i \in Channels /\ i < ram.analog
        BY <2>1, ChannelFacts DEF RamSettings, SavedChannels
    <2> QED
        BY <2>1, <2>2, <2>4, <2>5 DEF Agree, Same
<1>2. IInv /\ SmallPort /\ [Next]_vars => SmallPort'
    BY SmallPortStep
<1> QED
    BY <1>1, <1>2, SmallPortInit, Invariance, PTL DEF Spec

-----------------------------------------------------------------------------
(***************************************************************************)
(* The refinement                                                          *)
(***************************************************************************)
LEMMA StoreInit ==
    ASSUME Init
    PROVE  Store!Init
BY RestoredFacts DEF Init, Store!Init

\* What a restart makes of what has been saved.
LEMMA SurvivorFacts ==
    ASSUME NEW s \in RamSettings
    PROVE  Saved(Restored(Written(s))) = [t \in SavedSettings |-> WhatIsLeft(t)][Saved(s)]
<1>1. Saved(s) \in SavedSettings
    BY SavedIsText
<1>2. CASE Fits(Saved(s))
    <2>1. Restored(Written(s)) = Loaded(Saved(s)) /\ Saved(s) \in Parsable
        BY <1>2, WrittenFacts, RestoredFacts
    <2> QED
        BY <1>1, <1>2, <2>1, SavedLoaded DEF WhatIsLeft
<1>3. CASE ~Fits(Saved(s))
    <2>1. Restored(Written(s)) = Initial
        BY <1>3, WrittenFacts, RestoredFacts
    <2> QED
        BY <1>1, <1>3, <2>1 DEF WhatIsLeft
<1> QED
    BY <1>2, <1>3

LEMMA StoreStep ==
    ASSUME IInv, [Next]_vars
    PROVE  [Store!Next]_(Store!vars)
<1>1. ram \in RamSettings /\ ram' \in RamSettings
    BY TypesPreserved DEF IInv, Types
<1>2. Saved(ram) \in SavedSettings /\ Saved(ram') \in SavedSettings
    BY <1>1, SavedIsText
<1>3. CASE FactoryReset
    <2>1. step' \in {"flasher", "serve"} /\ ram' = Initial /\ flash' = {}
        BY <1>3, StartedFacts DEF FactoryReset, IInv, AtBoot
    <2>2. Store!Reset
        BY <2>1, RestoredFacts DEF Store!Reset
    <2> QED
        BY <2>2 DEF Store!Next
<1>4. CASE LoadSettings
    <2>1. /\ step = "boot" /\ ram' = Restored(flash) /\ flash' = flash
          /\ step' \in {"flasher", "serve", "write"}
        BY <1>4, StartedFacts DEF LoadSettings, IInv, AtBoot
    <2>2. CASE step' = "write"
        <3>1. Store!Submit
            BY <1>2, <2>1, <2>2 DEF Store!Submit
        <3> QED
            BY <3>1 DEF Store!Next
    <2>3. CASE step' # "write"
        BY <2>1, <2>3 DEF Store!vars
    <2> QED
        BY <2>2, <2>3
<1>5. CASE Flasher
    <2>1. step = "flasher" /\ step' = "write" /\ flash' = flash
        BY <1>5 DEF Flasher
    <2>2. Store!Submit
        BY <1>2, <2>1 DEF Store!Submit
    <2> QED
        BY <2>2 DEF Store!Next
<1>6. CASE DoneWaiting \/ Reply
    BY <1>6 DEF DoneWaiting, Reply, Store!vars
<1>7. CASE Submit
    <2>1. step = "serve" /\ step' = "inputs" /\ flash' = flash /\ form' \in Forms
        BY <1>7 DEF Submit
    <2>2. WithInputs(ram', form') \in RamSettings
        BY <1>1, <2>1, FormFacts
    <2>3. Saved(WithInputs(ram', form')) \in SavedSettings
        BY <2>2, SavedIsText
    <2>4. Store!Submit
        BY <1>2, <2>1, <2>3 DEF Store!Submit
    <2> QED
        BY <2>4 DEF Store!Next
<1>8. CASE SubmitInputs
    <2>1. /\ step = "inputs" /\ step' = "write" /\ flash' = flash
          /\ ram' = WithInputs(ram, form)
        BY <1>8 DEF SubmitInputs
    <2>2. Store!Apply
        BY <1>2, <2>1 DEF Store!Apply
    <2> QED
        BY <2>2 DEF Store!Next
<1>9. CASE Write
    BY <1>9 DEF Write, Store!vars
<1>10. CASE Commit
    <2>1. /\ step = "commit" /\ step' \in {"flasher", "serve", "reply", "restart"}
          /\ flash' = Written(ram) /\ ram' = ram
        BY <1>10 DEF Commit, IInv, Types, WhileSaving
    <2>2. Store!Keep
        BY <1>1, <2>1, SurvivorFacts DEF Store!Keep
    <2> QED
        BY <2>2 DEF Store!Next
<1>11. CASE Restart
    <2>1. step' = "boot" /\ flash' = flash
        BY <1>11 DEF Restart
    <2>2. Store!Restart
        BY <2>1 DEF Store!Restart
    <2> QED
        BY <2>2 DEF Store!Next
<1>12. CASE UNCHANGED vars
    BY <1>12 DEF vars, Store!vars
<1> QED
    BY <1>3, <1>4, <1>5, <1>6, <1>7, <1>8, <1>9, <1>10, <1>11, <1>12 DEF Next

\* The settings keep what SettingsStore promises: a form is kept as a whole or not at
\* all, whatever restarts come between the steps of the program.
THEOREM ImplementsStore == Spec => StoreSpec
<1>1. Init => Store!Init
    BY StoreInit
<1>2. IInv /\ [Next]_vars => [Store!Next]_(Store!vars)
    BY StoreStep
<1> QED
    BY <1>1, <1>2, Invariance, PTL DEF Spec, StoreSpec, Store!Spec
=============================================================================
