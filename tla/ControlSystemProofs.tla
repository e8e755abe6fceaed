------------------------ MODULE ControlSystemProofs -------------------------
(***************************************************************************)
(* Proofs about ControlSystem, for any posts, any garbage, any number of   *)
(* attempts and any width of int.                                          *)
(***************************************************************************)
EXTENDS ControlSystem, ResponseFieldsProofs

DumpingFacts == INSTANCE FoldingProofs WITH Start <- <<>>, Step <- AddMember

(* What is put on the wire: members with integers for numbers. *)
Numbered(tokens) ==
    /\ Len(tokens) \in Nat
    /\ \A i \in 1 .. Len(tokens) : tokens[i].value \in Int

Objects == ServerModes \cup {Lost}

(* A sequence of scalars, all of which have an integer for a number. *)
IsValue(value) == \E S : value \in Seq(S) /\ \A scalar \in S : scalar.value \in Int

LEMMA ValueOf ==
    ASSUME NEW S, NEW value \in Seq(S), \A scalar \in S : scalar.value \in Int
    PROVE  IsValue(value)
  BY DEF IsValue

LEMMA ObjectShape ==
    ASSUME NEW data \in Objects
    PROVE  /\ Len(data) \in Nat
           /\ \A i \in 1 .. Len(data) : IsValue(data[i].value)
<1>1. CASE data \in Posts
  <2> DEFINE members == [key : STRING, value : Seq(Scalar)]
  <2>1. data \in Seq(members)
    BY <1>1, PostsType, Zenon
  <2>2. \A i \in 1 .. Len(data) : data[i].value \in Seq(Scalar)
    <3>1. \A member \in members : member.value \in Seq(Scalar)
      BY Zenon
    <3> HIDE DEF members
    <3> QED
      BY <2>1, <3>1
  <2>3. \A scalar \in Scalar : scalar.value \in Int
    BY DEF Scalar
  <2>4. \A i \in 1 .. Len(data) : IsValue(data[i].value)
    BY <2>2, <2>3, Zenon DEF IsValue
  <2> QED
    BY <2>1, <2>4
<1>2. CASE data = DefaultMode
  <2>1. \A text : IsValue(<<Text(text)>>)
    <3> SUFFICES ASSUME NEW text PROVE IsValue(<<Text(text)>>)
      OBVIOUS
    <3>1. Text(text).value \in Int
      BY DEF Text
    <3>2. <<Text(text)>> \in Seq({Text(text)})
      OBVIOUS
    <3>3. \A scalar \in {Text(text)} : scalar.value \in Int
      BY <3>1
    <3> DEFINE value == <<Text(text)>>
    <3> HIDE DEF value
    <3>4. value \in Seq({Text(text)})
      BY <3>2 DEF value
    <3>5. IsValue(value)
      BY <3>3, <3>4, ValueOf
    <3> QED
      BY <3>5 DEF value
  <2>2. Len(data) = 3
    BY <1>2 DEF DefaultMode
  <2>3. /\ data[1].value = <<Text("unregulated")>>
        /\ data[2].value = <<Text("blink-yellow")>>
        /\ data[3].value = <<Text("blink-yellow")>>
    BY <1>2 DEF DefaultMode, Member
  <2>4. \A i \in 1 .. 3 : i \in {1, 2, 3}
    OBVIOUS
  <2> QED
    BY <2>1, <2>2, <2>3, <2>4
<1>3. CASE data = Lost
  BY <1>3 DEF Lost
<1> QED
  BY <1>1, <1>2, <1>3 DEF Objects, ServerModes

(* Tokens unfolds member by member. *)
LEMMA TokensUnfold ==
    ASSUME NEW data, Len(data) \in Nat
    PROVE  \E dump :
              /\ dump[0] = <<>>
              /\ \A i \in 1 .. Len(data) : dump[i] = AddMember(dump[i - 1], data[i])
              /\ Tokens(data) = dump[Len(data)]
<1>1. Tokens(data) = DumpingFacts!Fold(data)[Len(data)]
  BY DEF Tokens, Dumping!Fold, DumpingFacts!Fold
<1> QED
  BY <1>1, DumpingFacts!FoldUnfolds

LEMMA AddMemberNumbered ==
    ASSUME NEW tokens, NEW member, IsValue(tokens), IsValue(member.value)
    PROVE  IsValue(AddMember(tokens, member))
<1>1. PICK S : tokens \in Seq(S) /\ \A scalar \in S : scalar.value \in Int
  BY DEF IsValue
<1>2. PICK T : member.value \in Seq(T) /\ \A scalar \in T : scalar.value \in Int
  BY DEF IsValue
<1> DEFINE key == Key(member.key)
           all == S \cup T \cup {key}
<1>3. key.value \in Int
  BY DEF Key
<1>4. \A scalar \in all : scalar.value \in Int
  BY <1>1, <1>2, <1>3
<1> HIDE DEF key
<1>5. tokens \in Seq(all) /\ <<key>> \in Seq(all) /\ member.value \in Seq(all)
  BY <1>1, <1>2
<1> HIDE DEF all
<1>6. tokens \o <<key>> \in Seq(all)
  BY <1>5
<1>7. (tokens \o <<key>>) \o member.value \in Seq(all)
  BY <1>5, <1>6
<1> QED
  BY <1>4, <1>7, Zenon DEF IsValue, AddMember, key

LEMMA TokensNumbered ==
    ASSUME NEW data \in Objects
    PROVE  Numbered(Tokens(data))
<1>1. PICK dump :
          /\ dump[0] = <<>>
          /\ \A i \in 1 .. Len(data) : dump[i] = AddMember(dump[i - 1], data[i])
          /\ Tokens(data) = dump[Len(data)]
  BY ObjectShape, TokensUnfold
<1> DEFINE S == {n \in 0 .. Len(data) : IsValue(dump[n])}
<1>2. 0 \in S
  <2> DEFINE none == <<>>
  <2>1. none \in Seq({})
    OBVIOUS
  <2>2. IsValue(none)
    <3> HIDE DEF none
    <3> QED
      BY <2>1, ValueOf
  <2>3. 0 \in 0 .. Len(data)
    BY ObjectShape
  <2> QED
    BY <1>1, <2>2, <2>3, Zenon
<1>3. ASSUME NEW n \in 0 .. Len(data) - 1, n \in S
      PROVE  n + 1 \in S
  <2>1. n + 1 \in 1 .. Len(data) /\ (n + 1) - 1 = n
    BY ObjectShape
  <2>2. dump[n + 1] = AddMember(dump[n], data[n + 1])
    BY <1>1, <2>1
  <2>3. IsValue(dump[n + 1])
    BY <1>3, <2>1, <2>2, ObjectShape, AddMemberNumbered
  <2> QED
    BY <2>1, <2>3
<1>4. Len(data) \in S
  <2> HIDE DEF S
  <2> QED
    BY <1>2, <1>3, ObjectShape, DumpingFacts!UpTo
<1>5. PICK T : Tokens(data) \in Seq(T) /\ \A scalar \in T : scalar.value \in Int
  BY <1>1, <1>4 DEF IsValue
<1> QED
  BY <1>5 DEF Numbered
-----------------------------------------------------------------------------
(***************************************************************************)
(* The type invariant.  Durations are ints wherever a mode is kept, also   *)
(* where nobody has written it: that is what makes a schedule's durations  *)
(* unsigned ints, which CrossController takes for granted.                 *)
(***************************************************************************)
LEMMA ServerModesAccepted ==
    \A data \in ServerModes : Accepts(data)
<1>1. Accepts(DefaultMode)
  <2>1. DOMAIN DefaultMode = 1 .. 3
    BY DEF DefaultMode
  <2>2. /\ DefaultMode[1] = Member("mode", <<Text("unregulated")>>)
        /\ DefaultMode[2].key = "direction_1"
        /\ DefaultMode[3].key = "direction_2"
    BY DEF DefaultMode, Member
  <2>3. 1 \in 1 .. 3 /\ 2 \in 1 .. 3 /\ 3 \in 1 .. 3 /\ "unregulated" \in KnownModes
    BY DEF KnownModes
  <2>4. HasMember(DefaultMode, "direction_1") /\ HasMember(DefaultMode, "direction_2")
    BY <2>1, <2>2, <2>3, Zenon DEF HasMember
  <2>5. \E i \in DOMAIN DefaultMode, mode \in KnownModes :
            DefaultMode[i] = Member("mode", <<Text(mode)>>)
    BY <2>1, <2>2, <2>3, Zenon
  <2> QED
    BY <2>4, <2>5, Zenon DEF Accepts
<1> QED
  BY <1>1, Zenon DEF ServerModes

(* Nobody posts an object the checks take but that of the operator.        *)
LEMMA PostedModes ==
    ASSUME tlMode \in ServerModes, NEW data \in Posts, ProcessManual(data)
    PROVE  tlMode' \in ServerModes
<1>1. CASE Accepts(data)
  BY <1>1, Zenon DEF ProcessManual, ServerModes
<1>2. CASE ~Accepts(data)
  BY <1>2, Zenon DEF ProcessManual
<1> QED
  BY <1>1, <1>2

Durations(mode) == {mode.duration1, mode.duration2}

LEMMA ParsedDurations ==
    ASSUME NEW data \in Objects
    PROVE  Durations(Parse(Tokens(data))) \subseteq Int
<1> DEFINE texts == {""} \cup {Tokens(data)[i].text : i \in 1 .. Len(Tokens(data))}
<1>1. Parse(Tokens(data)) \in Responses(texts)
  BY TokensNumbered, ParseType DEF Numbered
<1> HIDE DEF texts
<1>2. -IntHalf .. IntHalf - 1 \subseteq Int
  BY IntHalfType
<1> QED
  BY <1>1, <1>2 DEF Responses, Durations

LEMMA UnwrittenDurations ==
    /\ \A mode \in GarbageModes \cup {Unreadable} : Durations(mode) \subseteq Int
    /\ Durations(EmptyResponse) \subseteq Int
<1>1. Unreadable.duration1 = 0 /\ Unreadable.duration2 = 0
  BY DEF Unreadable, EmptyResponse
<1>2. EmptyResponse.duration1 = 0 /\ EmptyResponse.duration2 = 0
  BY DEF EmptyResponse
<1>3. Durations(Unreadable) \subseteq Int /\ Durations(EmptyResponse) \subseteq Int
  BY <1>1, <1>2 DEF Durations
<1>4. \A mode \in GarbageModes : Durations(mode) \subseteq Int
  BY GarbageType DEF Durations
<1> QED
  BY <1>3, <1>4, Zenon

LEMMA AsUIntRange ==
    ASSUME NEW value \in Int
    PROVE  AsUInt(value) \in 0 .. 2 * IntHalf - 1
<1> DEFINE m == 2 * IntHalf
<1>1. m \in Nat /\ m > 0
  BY IntHalfType
<1>2. value % m \in 0 .. m - 1
  <2> HIDE DEF m
  <2> QED
    BY <1>1, Z3
<1> QED
  BY <1>2 DEF AsUInt

(* What the values at hand are.  Only objects that have passed the checks  *)
(* are on the wire, and a connection that is being made has an attempt     *)
(* left.                                                                   *)
ValueInv ==
    /\ tlMode \in ServerModes /\ wire \in Objects
    /\ Durations(fetched) \subseteq Int /\ Durations(trafficMode) \subseteq Int
    /\ connector = "connect" => attempts < NumRetries

TypeInv == TypeOK /\ ValueInv

LEMMA TypeInitially == Init => TypeInv
<1> SUFFICES ASSUME Init
             PROVE  TypeInv
  OBVIOUS
<1>1. tlMode \in ServerModes /\ wire = Lost /\ wire \in Objects
  BY DEF Init, ConnectorInit, ServerModes, Objects
<1>2. ValueInv
  BY <1>1, UnwrittenDurations DEF Init, ConnectorInit, ValueInv
<1>3. TypeOK
  <2>1. 0 \in 0 .. 2 * IntHalf - 1 /\ 0 \in 0 .. NumRetries
    BY IntHalfType, NumRetriesType
  <2>2. Accepts(tlMode) /\ (wire # Lost => Accepts(wire))
    BY <1>1, ServerModesAccepted
  <2>3. DOMAIN NoReport = Sources \cup {"Diagnostics"}
    BY DEF NoReport
  <2> QED
    BY <2>1, <2>2, <2>3 DEF Init, ConnectorInit, NoSchedule, TypeOK
<1> QED
  BY <1>2, <1>3 DEF TypeInv

LEMMA AttemptsLeft ==
    /\ 0 \in 0 .. NumRetries /\ 0 < NumRetries
    /\ \A n \in 0 .. NumRetries :
           n < NumRetries => /\ n + 1 \in 0 .. NumRetries
                             /\ n + 1 = NumRetries \/ n + 1 < NumRetries
  BY NumRetriesType

LEMMA ControlStepTypes == TypeInv /\ ControlStep => TypeInv'
<1> SUFFICES ASSUME TypeInv, ControlStep
             PROVE  TypeInv'
  OBVIOUS
<1> USE DEF TypeInv, TypeOK, ValueInv
<1>1. CASE Hello
  BY <1>1 DEF Hello, connectorVars
<1>2. CASE SelfDiagnostic
  BY <1>2 DEF SelfDiagnostic, connectorVars
<1>3. CASE CallGetTrafficMode
  BY <1>3, AttemptsLeft DEF CallGetTrafficMode, ConnectorReceive
<1>4. CASE GetTrafficModeReturns
  BY <1>4 DEF GetTrafficModeReturns, ConnectorReply
<1>5. CASE GetTrafficModeAsserts
  BY <1>5 DEF GetTrafficModeAsserts, ConnectorReply
<1>6. CASE GetTrafficModeFails
  BY <1>6 DEF GetTrafficModeFails, connectorVars
<1>7. CASE SetCrossSchedule
  <2>1. /\ schedule'.dir1Duration = AsUInt(trafficMode.duration1)
        /\ schedule'.dir2Duration = AsUInt(trafficMode.duration2)
    BY <1>7 DEF SetCrossSchedule
  <2>2. trafficMode.duration1 \in Int /\ trafficMode.duration2 \in Int
    BY DEF Durations
  <2>3. {schedule'.dir1Duration, schedule'.dir2Duration} \subseteq 0 .. 2 * IntHalf - 1
    BY <2>1, <2>2, AsUIntRange
  <2> QED
    BY <1>7, <2>3 DEF SetCrossSchedule, connectorVars
<1>8. CASE CallSendDiagnostics
  BY <1>8, AttemptsLeft DEF CallSendDiagnostics, ConnectorReceive
<1>9. CASE SendDiagnosticsReturns
  BY <1>9 DEF SendDiagnosticsReturns, ConnectorReply
<1>10. CASE SendDiagnosticsFails
  BY <1>10 DEF SendDiagnosticsFails, connectorVars
<1>11. CASE Wake
  BY <1>11 DEF Wake, connectorVars
<1> QED
  BY <1>1, <1>2, <1>3, <1>4, <1>5, <1>6, <1>7, <1>8, <1>9, <1>10, <1>11
  DEF ControlStep

LEMMA GarbageRead ==
    ASSUME ReadGarbage
    PROVE  wire' \in Objects /\ wire' = Lost /\ Durations(fetched') \subseteq Int
<1>1. fetched' \in GarbageModes \cup {Unreadable} /\ wire' = Lost
  BY DEF ReadGarbage
<1> QED
  BY <1>1, UnwrittenDurations, Zenon DEF Objects

LEMMA ConnectorStepTypes == TypeInv /\ ConnectorStep => TypeInv'
<1> SUFFICES ASSUME TypeInv, ConnectorStep
             PROVE  TypeInv'
  OBVIOUS
<1> USE DEF TypeInv, TypeOK, ValueInv
<1>1. UNCHANGED <<controlVars, tlMode>>
  BY DEF ConnectorStep
<1>2. CASE SocketFails
  <2>1. CASE serving = "mode"
    <3>1. ReadGarbage /\ UNCHANGED <<serving, attempts, health, received>>
      BY <1>2, <2>1 DEF SocketFails
    <3>2. connector' = "log"
      BY <3>1 DEF ReadGarbage
    <3> QED
      BY <1>1, <3>1, <3>2, GarbageRead DEF controlVars
  <2>2. CASE serving # "mode"
    BY <1>1, <1>2, <2>2 DEF SocketFails, controlVars
  <2> QED
    BY <2>1, <2>2
<1>3. CASE Connect
  BY <1>1, <1>3 DEF Connect, controlVars
<1>4. CASE ConnectRefused
  <2>1. attempts \in 0 .. NumRetries /\ attempts < NumRetries
    BY <1>4 DEF ConnectRefused
  <2>2. /\ attempts + 1 \in 0 .. NumRetries
        /\ attempts + 1 = NumRetries \/ attempts + 1 < NumRetries
    BY <2>1, AttemptsLeft, Zenon
  <2> QED
    BY <1>1, <1>4, <2>2 DEF ConnectRefused, controlVars
<1>5. CASE ParseAnswer
  <2>1. Durations(fetched') \subseteq Int
    BY <1>5, ParsedDurations DEF ParseAnswer
  <2> QED
    BY <1>1, <1>5, <2>1 DEF ParseAnswer, controlVars
<1>6. CASE ParseFails
  <2>1. ReadGarbage /\ UNCHANGED <<serving, attempts, health, received>>
    BY <1>6 DEF ParseFails
  <2>2. connector' = "log"
    BY <2>1 DEF ReadGarbage
  <2> QED
    BY <1>1, <2>1, <2>2, GarbageRead DEF controlVars
<1>7. CASE ConnectorCrashes
  <2>1. wire' \in Objects /\ wire' = Lost
    BY <1>7 DEF ConnectorCrashes, Objects
  <2> QED
    BY <1>1, <1>7, <2>1 DEF ConnectorCrashes, controlVars
<1>8. CASE LogMode
  BY <1>1, <1>8 DEF LogMode, controlVars
<1>9. CASE PostReport(sysHealth)
  <2>1. DOMAIN received' = Sources \cup {"Diagnostics"}
    BY <1>9 DEF PostReport, ProcessDiagnostics
  <2> QED
    BY <1>1, <1>9, <2>1 DEF PostReport, controlVars
<1>10. CASE ReportLost
  BY <1>1, <1>10 DEF ReportLost, controlVars
<1> QED
  BY <1>2, <1>3, <1>4, <1>5, <1>6, <1>7, <1>8, <1>9, <1>10 DEF ConnectorStep

LEMMA OtherStepTypes ==
    ASSUME TypeInv, Greet \/ ServerStep \/ OperatorPosts \/ OtherEvent \/ UNCHANGED vars
    PROVE  TypeInv'
<1> USE DEF TypeInv, TypeOK, ValueInv
<1>1. CASE Greet
  BY <1>1 DEF Greet, ConnectorHello, controlVars
<1>2. CASE ServerStep
  <2>1. wire' = tlMode /\ wire' \in Objects /\ connector' = "read"
    BY <1>2 DEF ServerStep, ServerAnswers, Objects
  <2> QED
    BY <1>2, <2>1 DEF ServerStep, ServerAnswers, controlVars
<1>3. CASE OperatorPosts
  <2>1. tlMode' \in ServerModes
    BY <1>3, PostedModes DEF OperatorPosts
  <2>2. Accepts(tlMode')
    BY <2>1, ServerModesAccepted
  <2> QED
    BY <1>3, <2>1, <2>2 DEF OperatorPosts, controlVars, connectorVars
<1>4. CASE OtherEvent
  BY <1>4 DEF OtherEvent, controlVars, connectorVars
<1>5. CASE UNCHANGED vars
  BY <1>5 DEF vars, controlVars, connectorVars
<1> QED
  BY <1>1, <1>2, <1>3, <1>4, <1>5

LEMMA TypeInvariant == Spec => []TypeInv
<1>1. TypeInv /\ [Next]_vars => TypeInv'
  BY ControlStepTypes, ConnectorStepTypes, OtherStepTypes DEF Next
<1> QED
  BY <1>1, TypeInitially, PTL DEF Spec

(* Both entities and the server keep their types, no garbage, no number    *)
(* and no object too big for them: the server hands out nothing its checks *)
(* refuse, attempts never exceed NUM_RETRIES, and the durations of a       *)
(* schedule are unsigned ints (connector.c:66-78, control_system.c:300).   *)
THEOREM TypeCorrect == Spec => []TypeOK
<1>1. TypeInv => TypeOK
  BY DEF TypeInv
<1> QED
  BY <1>1, TypeInvariant, PTL
-----------------------------------------------------------------------------
(***************************************************************************)
(* What becomes of an object on its way: json.dumps, the walk of the       *)
(* parser, the two casts of a duration.                                    *)
(***************************************************************************)

(* Every member has one scalar for a value, and no two the same key, as in *)
(* a dictionary.  (The walk takes the members of a nested object for       *)
(* members of the object itself.)                                          *)
Flat(data) ==
    /\ \A i \in DOMAIN data : Len(data[i].value) = 1 /\ data[i].value[1].type # "key"
    /\ \A i, j \in DOMAIN data : data[i].key = data[j].key => i = j

(* The same, and how it is put together. *)
FlatShape(data) ==
    /\ Len(data) \in Nat /\ DOMAIN data = 1 .. Len(data)
    /\ \A i \in 1 .. Len(data) :
           /\ data[i].value = <<data[i].value[1]>>
           /\ data[i].value[1].value \in Int

LEMMA SingleValue ==
    ASSUME NEW S, NEW value \in Seq(S), Len(value) = 1
    PROVE  value = <<value[1]>> /\ value[1] \in S
  OBVIOUS

LEMMA DefaultFlat == Flat(DefaultMode) /\ FlatShape(DefaultMode)
<1>1. /\ Len(DefaultMode) = 3 /\ DOMAIN DefaultMode = 1 .. 3
      /\ \A i \in 1 .. 3 : i \in {1, 2, 3}
  BY DEF DefaultMode
<1>2. /\ DefaultMode[1].key = "mode" /\ DefaultMode[2].key = "direction_1"
      /\ DefaultMode[3].key = "direction_2"
      /\ DefaultMode[1].value = <<Text("unregulated")>>
      /\ DefaultMode[2].value = <<Text("blink-yellow")>>
      /\ DefaultMode[3].value = <<Text("blink-yellow")>>
  BY DEF DefaultMode, Member
<1>3. \A text : /\ Len(<<Text(text)>>) = 1 /\ <<Text(text)>>[1] = Text(text)
               /\ Text(text).type # "key" /\ Text(text).value \in Int
  BY DEF Text
<1>4. \A i \in 1 .. 3 : \E text : DefaultMode[i].value = <<Text(text)>>
  BY <1>1, <1>2
<1>5. ASSUME NEW i \in 1 .. 3
      PROVE  /\ Len(DefaultMode[i].value) = 1 /\ DefaultMode[i].value[1].type # "key"
             /\ DefaultMode[i].value = <<DefaultMode[i].value[1]>>
             /\ DefaultMode[i].value[1].value \in Int
  <2>1. PICK text : DefaultMode[i].value = <<Text(text)>>
    BY <1>4
  <2>2. DefaultMode[i].value[1] = Text(text)
    BY <1>3, <2>1
  <2> QED
    BY <1>3, <2>1, <2>2
<1>6. \A i, j \in 1 .. 3 : DefaultMode[i].key = DefaultMode[j].key => i = j
  BY <1>1, <1>2
<1> QED
  BY <1>1, <1>5, <1>6 DEF Flat, FlatShape

LEMMA FlatShapes ==
    ASSUME NEW data \in ServerModes, Flat(data)
    PROVE  FlatShape(data)
<1>1. CASE data = DefaultMode
  BY <1>1, DefaultFlat
<1>2. CASE data \in Posts
  <2> DEFINE members == [key : STRING, value : Seq(Scalar)]
  <2>1. data \in Seq(members)
    BY <1>2, PostsType, Zenon
  <2>2. \A member \in members : member.value \in Seq(Scalar)
    BY Zenon
  <2> HIDE DEF members
  <2>3. Len(data) \in Nat /\ DOMAIN data = 1 .. Len(data)
    BY <2>1
  <2>4. ASSUME NEW i \in 1 .. Len(data)
        PROVE  data[i].value = <<data[i].value[1]>> /\ data[i].value[1].value \in Int
    <3>1. data[i] \in members
      BY <2>1, <2>4
    <3>2. data[i].value \in Seq(Scalar) /\ Len(data[i].value) = 1
      BY <2>2, <2>3, <3>1 DEF Flat
    <3>3. data[i].value = <<data[i].value[1]>> /\ data[i].value[1] \in Scalar
      BY <3>2, SingleValue
    <3>4. \A scalar \in Scalar : scalar.value \in Int
      BY DEF Scalar
    <3> QED
      BY <3>3, <3>4
  <2> QED
    BY <2>3, <2>4 DEF FlatShape
<1> QED
  BY <1>1, <1>2 DEF ServerModes

(* A member has been added: its key, and the scalar it has for a value.   *)
Lengthened(longer, tokens, S, member, scalar) ==
    /\ longer \in Seq(S \cup {Key(member.key), scalar})
    /\ Len(longer) = Len(tokens) + 2
    /\ \A i \in 1 .. Len(tokens) : longer[i] = tokens[i]
    /\ longer[Len(tokens) + 1] = Key(member.key)
    /\ longer[Len(tokens) + 2] = scalar

Holds(member, scalar) == member.value = <<scalar>>

LEMMA AddPair ==
    ASSUME NEW S, NEW tokens \in Seq(S), NEW member, NEW scalar, Holds(member, scalar)
    PROVE  Lengthened(AddMember(tokens, member), tokens, S, member, scalar)
<1> DEFINE key == Key(member.key)
           all == S \cup {key, scalar}
           longer == AddMember(tokens, member)
<1>1. longer = (tokens \o <<key>>) \o <<scalar>>
  BY DEF AddMember, Holds
<1> HIDE DEF key
<1>2. tokens \in Seq(all) /\ key \in all /\ scalar \in all
  OBVIOUS
<1> HIDE DEF all, longer
<1>3. longer = Append(Append(tokens, key), scalar)
  BY <1>1, <1>2
<1>4. /\ longer \in Seq(all) /\ Len(longer) = Len(tokens) + 2
      /\ \A i \in 1 .. Len(tokens) : longer[i] = tokens[i]
      /\ longer[Len(tokens) + 1] = key /\ longer[Len(tokens) + 2] = scalar
  BY <1>2, <1>3
<1>5. Lengthened(longer, tokens, S, member, scalar)
  BY <1>4, Zenon DEF Lengthened, all, key
<1> QED
  BY <1>5 DEF longer

(* The first n members are the first 2 * n tokens. *)
Dumped(tokens, data, n) ==
    /\ \E S : tokens \in Seq(S)
    /\ Len(tokens) = 2 * n
    /\ \A j \in 1 .. n : /\ tokens[2 * j - 1] = Key(data[j].key)
                         /\ tokens[2 * j] = data[j].value[1]

LEMMA DumpedFurther ==
    ASSUME NEW data, FlatShape(data), NEW n \in Nat, n + 1 \in 1 .. Len(data),
           NEW tokens, Dumped(tokens, data, n)
    PROVE  Dumped(AddMember(tokens, data[n + 1]), data, n + 1)
<1> DEFINE member == data[n + 1]
           scalar == data[n + 1].value[1]
           longer == AddMember(tokens, member)
<1>1. PICK S : tokens \in Seq(S)
  BY DEF Dumped
<1>2. Holds(member, scalar)
  BY DEF FlatShape, Holds
<1> HIDE DEF member, scalar
<1>3. Lengthened(longer, tokens, S, member, scalar)
  BY <1>1, <1>2, AddPair
<1> HIDE DEF longer
<1>4. Len(tokens) = 2 * n /\ Len(longer) = 2 * (n + 1)
  <2>1. Len(tokens) = 2 * n
    BY DEF Dumped
  <2>2. 2 * n + 2 = 2 * (n + 1)
    OBVIOUS
  <2> QED
    BY <1>3, <2>1, <2>2, Zenon DEF Lengthened
<1>5. ASSUME NEW j \in 1 .. n + 1
      PROVE  longer[2 * j - 1] = Key(data[j].key) /\ longer[2 * j] = data[j].value[1]
  <2>1. CASE j \in 1 .. n
    <3>1. 2 * j - 1 \in 1 .. Len(tokens) /\ 2 * j \in 1 .. Len(tokens)
      BY <1>4, <2>1
    <3>2. longer[2 * j - 1] = tokens[2 * j - 1] /\ longer[2 * j] = tokens[2 * j]
      BY <1>3, <3>1 DEF Lengthened
    <3> QED
      BY <2>1, <3>2 DEF Dumped
  <2>2. CASE j = n + 1
    <3>1. 2 * j - 1 = Len(tokens) + 1 /\ 2 * j = Len(tokens) + 2
      BY <1>4, <2>2
    <3> QED
      BY <1>3, <2>2, <3>1 DEF member, scalar, Lengthened
  <2> QED
    BY <2>1, <2>2
<1>6. Dumped(longer, data, n + 1)
  <2>1. \E T : longer \in Seq(T)
    BY <1>3, Zenon DEF Lengthened
  <2> QED
    BY <1>4, <1>5, <2>1, Zenon DEF Dumped
<1> QED
  BY <1>6 DEF longer, member

LEMMA FlatTokens ==
    ASSUME NEW data, FlatShape(data)
    PROVE  Dumped(Tokens(data), data, Len(data))
<1>1. Len(data) \in Nat
  BY DEF FlatShape
<1>2. PICK dump :
          /\ dump[0] = <<>>
          /\ \A i \in 1 .. Len(data) : dump[i] = AddMember(dump[i - 1], data[i])
          /\ Tokens(data) = dump[Len(data)]
  BY <1>1, TokensUnfold
<1> DEFINE S == {n \in 0 .. Len(data) : Dumped(dump[n], data, n)}
<1>3. 0 \in S
  <2> DEFINE none == <<>>
  <2>1. none \in Seq({}) /\ Len(none) = 0
    OBVIOUS
  <2>2. 0 \in 0 .. Len(data)
    BY <1>1
  <2> HIDE DEF none
  <2>3. Dumped(none, data, 0)
    BY <2>1 DEF Dumped
  <2> QED
    BY <1>2, <2>2, <2>3 DEF none
<1>4. ASSUME NEW n \in 0 .. Len(data) - 1, n \in S
      PROVE  n + 1 \in S
  <2>1. n \in Nat /\ n + 1 \in 1 .. Len(data) /\ (n + 1) - 1 = n
    BY <1>1
  <2>2. dump[n + 1] = AddMember(dump[n], data[n + 1])
    BY <1>2, <2>1
  <2>3. Dumped(dump[n + 1], data, n + 1)
    BY <1>4, <2>1, <2>2, DumpedFurther
  <2> QED
    BY <2>1, <2>3
<1>5. Len(data) \in S
  <2> HIDE DEF S
  <2> QED
    BY <1>1, <1>3, <1>4, DumpingFacts!UpTo
<1> QED
  BY <1>2, <1>5

LEMMA FlatDocument ==
    ASSUME NEW data, FlatShape(data), Flat(data)
    PROVE  IsFlat(Tokens(data), Len(data))
<1> DEFINE tokens == Tokens(data)
           n      == Len(data)
<1>1. Dumped(tokens, data, n)
  BY FlatTokens
<1>2. \A name : Key(name).type = "key" /\ Key(name).text = name
  BY DEF Key
<1>3. DOMAIN data = 1 .. n
  BY DEF FlatShape
<1> HIDE DEF tokens, n
<1>4. \A j \in 1 .. n : /\ tokens[2 * j - 1].type = "key"
                        /\ tokens[2 * j - 1].text = data[j].key
                        /\ tokens[2 * j].type # "key"
  BY <1>1, <1>2, <1>3 DEF Dumped, Flat
<1>5. IsFlat(tokens, n)
  <2>1. \A i, j \in 1 .. n :
            tokens[2 * i - 1].text = tokens[2 * j - 1].text => i = j
    <3> SUFFICES ASSUME NEW i \in 1 .. n, NEW j \in 1 .. n,
                        tokens[2 * i - 1].text = tokens[2 * j - 1].text
                 PROVE  i = j
      OBVIOUS
    <3>1. data[i].key = data[j].key
      BY <1>4
    <3> QED
      BY <1>3, <3>1, Zenon DEF Flat
  <2>2. Len(tokens) = 2 * n
    BY <1>1 DEF Dumped
  <2> QED
    BY <1>4, <2>1, <2>2, Zenon DEF IsFlat
<1> QED
  BY <1>5 DEF tokens, n

(* What the walk has put into a field is what the object says of it. *)
LEMMA FlatText ==
    ASSUME NEW data, FlatShape(data), Flat(data), NEW name \in Fields
    PROVE  TextShown(Parse(Tokens(data)), name) = TextAt(data, name)
<1> DEFINE tokens   == Tokens(data)
           n        == Len(data)
           response == Parse(tokens)
           texts    == {scalar.text : scalar \in ScalarsOf(data, name, "string")}
<1>1. Filled(tokens, n, response)
  BY FlatDocument, FlatParse DEF FlatShape
<1>2. /\ DOMAIN data = 1 .. n
      /\ \A j \in 1 .. n : /\ tokens[2 * j - 1].text = data[j].key
                           /\ tokens[2 * j] = data[j].value[1]
  <2>1. Dumped(tokens, data, n)
    BY FlatTokens
  <2>2. \A key : Key(key).text = key
    BY DEF Key
  <2> QED
    BY <2>1, <2>2 DEF Dumped, FlatShape
<1>3. TextAt(data, name) = IF texts = {} THEN "" ELSE CHOOSE text \in texts : TRUE
  BY DEF TextAt
<1> HIDE DEF tokens, n, response
<1>4. texts = {data[i].value[1].text : i \in {i \in 1 .. n :
                  data[i].key = name /\ data[i].value[1].type = "string"}}
  BY <1>2 DEF ScalarsOf, Flat
<1> HIDE DEF texts
<1>5. CASE \E j \in 1 .. n : data[j].key = name /\ data[j].value[1].type = "string"
  <2>1. PICK j \in 1 .. n : data[j].key = name /\ data[j].value[1].type = "string"
    BY <1>5
  <2>2. TextShown(response, name) = data[j].value[1].text
    BY <1>1, <1>2, <2>1 DEF Filled, Says
  <2>3. \A i \in 1 .. n : data[i].key = name => i = j
    BY <1>2, <2>1 DEF Flat
  <2>4. texts = {data[j].value[1].text}
    BY <1>4, <2>1, <2>3
  <2>5. (CHOOSE text \in texts : TRUE) = data[j].value[1].text /\ texts # {}
    BY <2>4
  <2> QED
    BY <1>3, <2>2, <2>5, Zenon DEF response, tokens
<1>6. CASE ~\E j \in 1 .. n : data[j].key = name /\ data[j].value[1].type = "string"
  <2>1. TextShown(response, name) = ""
    BY <1>1, <1>2, <1>6 DEF Filled, Says
  <2>2. texts = {}
    BY <1>4, <1>6
  <2> QED
    BY <1>3, <2>1, <2>2, Zenon DEF response, tokens
<1> QED
  BY <1>5, <1>6

LEMMA FlatDuration ==
    ASSUME NEW data, FlatShape(data), Flat(data), NEW name \in Directions
    PROVE  AsUInt(NumberShown(Parse(Tokens(data)), name)) = DurationAt(data, name)
<1> DEFINE tokens   == Tokens(data)
           n        == Len(data)
           response == Parse(tokens)
           numbers  == {scalar.value : scalar \in ScalarsOf(data, name, "integer")}
<1>1. Filled(tokens, n, response)
  BY FlatDocument, FlatParse DEF FlatShape
<1>2. /\ DOMAIN data = 1 .. n
      /\ \A j \in 1 .. n : /\ tokens[2 * j - 1].text = data[j].key
                           /\ tokens[2 * j] = data[j].value[1]
                           /\ data[j].value[1].value \in Int
  <2>1. Dumped(tokens, data, n)
    BY FlatTokens
  <2>2. \A key : Key(key).text = key
    BY DEF Key
  <2> QED
    BY <2>1, <2>2 DEF Dumped, FlatShape
<1>3. DurationAt(data, name) =
          IF numbers = {} THEN 0 ELSE AsUInt(CHOOSE number \in numbers : TRUE)
  BY DEF DurationAt
<1> HIDE DEF tokens, n, response
<1>4. numbers = {data[i].value[1].value : i \in {i \in 1 .. n :
                    data[i].key = name /\ data[i].value[1].type = "integer"}}
  BY <1>2 DEF ScalarsOf, Flat
<1> HIDE DEF numbers
<1>5. CASE \E j \in 1 .. n : data[j].key = name /\ data[j].value[1].type = "integer"
  <2>1. PICK j \in 1 .. n : data[j].key = name /\ data[j].value[1].type = "integer"
    BY <1>5
  <2>2. NumberShown(response, name) = AsInt(data[j].value[1].value)
    BY <1>1, <1>2, <2>1 DEF Filled, Says
  <2>3. \A i \in 1 .. n : data[i].key = name => i = j
    BY <1>2, <2>1 DEF Flat
  <2>4. numbers = {data[j].value[1].value}
    BY <1>4, <2>1, <2>3
  <2>5. (CHOOSE number \in numbers : TRUE) = data[j].value[1].value /\ numbers # {}
    BY <2>4
  <2>6. AsUInt(AsInt(data[j].value[1].value)) = AsUInt(data[j].value[1].value)
    BY <1>2, CastTwice
  <2> QED
    BY <1>3, <2>2, <2>5, <2>6, Zenon DEF response, tokens
<1>6. CASE ~\E j \in 1 .. n : data[j].key = name /\ data[j].value[1].type = "integer"
  <2>1. NumberShown(response, name) = 0
    BY <1>1, <1>2, <1>6 DEF Filled, Says
  <2>2. numbers = {}
    BY <1>4, <1>6
  <2>3. AsUInt(0) = 0
    BY IntHalfType, Z3 DEF AsUInt
  <2> QED
    BY <1>3, <2>1, <2>2, <2>3, Zenon DEF response, tokens
<1> QED
  BY <1>5, <1>6

(* The mode of an accepted object is one there is a behavior for. *)
LEMMA KnownBehavior ==
    ASSUME NEW data \in ServerModes, Flat(data)
    PROVE  \E behavior : BehaviorsOf(TextAt(data, "mode")) = {behavior}
<1> DEFINE text == TextAt(data, "mode")
<1>1. FlatShape(data)
  BY FlatShapes
<1>2. PICK i \in DOMAIN data, mode \in KnownModes :
          data[i] = Member("mode", <<Text(mode)>>)
  BY ServerModesAccepted DEF Accepts
<1>3. data[i].key = "mode" /\ data[i].value = <<Text(mode)>>
  BY <1>2 DEF Member
<1>4. data[i].value[1] = Text(mode) /\ Len(data[i].value) = 1
  BY <1>3
<1>5. data[i].value[1].type = "string" /\ data[i].value[1].text = mode
  BY <1>4 DEF Text
<1>6. data[i].value[1] \in ScalarsOf(data, "mode", "string")
  BY <1>2, <1>3, <1>4, <1>5 DEF ScalarsOf
<1>7. \A scalar \in ScalarsOf(data, "mode", "string") : scalar = data[i].value[1]
  BY <1>2, <1>3 DEF ScalarsOf, Flat
<1> DEFINE texts == {scalar.text : scalar \in ScalarsOf(data, "mode", "string")}
<1>8. texts = {mode}
  BY <1>5, <1>6, <1>7
<1>9. text = IF texts = {} THEN "" ELSE CHOOSE t \in texts : TRUE
  BY DEF TextAt
<1> HIDE DEF text, texts
<1>10. text = mode
  BY <1>8, <1>9
<1>11. \A m \in KnownModes : \E behavior : BehaviorsOf(m) = {behavior}
  <2>1. /\ BehaviorsOf("regulated") = {BehaviorRegulated}
        /\ BehaviorsOf("unregulated") = {BehaviorUnregulated}
        /\ BehaviorsOf("manual") = {BehaviorManual}
    BY DEF BehaviorsOf
  <2> QED
    BY <2>1, Zenon DEF KnownModes
<1>12. \E behavior : BehaviorsOf(text) = {behavior}
  BY <1>2, <1>10, <1>11, Zenon
<1> QED
  BY <1>12 DEF text

(* The schedule made of a response. *)
ScheduleOf(response, behavior) ==
    [behavior     |-> behavior,
     crossMode    |-> CrossModeOf(response.color1, response.color2),
     dir1Duration |-> AsUInt(response.duration1),
     dir2Duration |-> AsUInt(response.duration2)]

(* The schedule made of an object that has gone all the way is the one the *)
(* object stands for.                                                      *)
LEMMA ParsedMeaning ==
    ASSUME NEW data \in ServerModes, Flat(data),
           NEW behavior \in BehaviorsOf(Parse(Tokens(data)).mode)
    PROVE  ScheduleOf(Parse(Tokens(data)), behavior) = Meaning(data)
<1> DEFINE response == Parse(Tokens(data))
<1>1. FlatShape(data)
  BY FlatShapes
<1>2. /\ response.mode = TextAt(data, "mode")
      /\ response.color1 = TextAt(data, "direction_1")
      /\ response.color2 = TextAt(data, "direction_2")
  <2>1. \A name \in Fields : TextShown(response, name) = TextAt(data, name)
    BY <1>1, FlatText
  <2> HIDE DEF response
  <2>2. /\ TextShown(response, "mode") = response.mode
        /\ TextShown(response, "direction_1") = response.color1
        /\ TextShown(response, "direction_2") = response.color2
    BY DEF TextShown
  <2> QED
    BY <2>1, <2>2 DEF Fields
<1>3. /\ AsUInt(response.duration1) = DurationAt(data, "direction_1")
      /\ AsUInt(response.duration2) = DurationAt(data, "direction_2")
  <2>1. \A name \in Directions :
            AsUInt(NumberShown(response, name)) = DurationAt(data, name)
    BY <1>1, FlatDuration
  <2> HIDE DEF response
  <2>2. /\ NumberShown(response, "direction_1") = response.duration1
        /\ NumberShown(response, "direction_2") = response.duration2
    BY DEF NumberShown
  <2> QED
    BY <2>1, <2>2 DEF Directions
<1>4. behavior \in BehaviorsOf(response.mode)
  OBVIOUS
<1> HIDE DEF response
<1>5. behavior = CHOOSE b \in BehaviorsOf(TextAt(data, "mode")) : TRUE
  <2>1. PICK b : BehaviorsOf(TextAt(data, "mode")) = {b}
    BY KnownBehavior
  <2>2. behavior \in {b}
    BY <1>2, <1>4, <2>1
  <2> QED
    BY <2>1, <2>2
<1>6. ScheduleOf(response, behavior) = Meaning(data)
  BY <1>2, <1>3, <1>5 DEF ScheduleOf, Meaning
<1> QED
  BY <1>6 DEF response
-----------------------------------------------------------------------------
(***************************************************************************)
(* Refinement of ModePolling.  ControlSystem and the Connector take turns, *)
(* so that a mode that has come off the wire is still the one in hand when *)
(* CrossController is called, or the wire has been lost since.             *)
(***************************************************************************)

(* Where the Connector may be, by what ControlSystem waits for. *)
TurnInv ==
    /\ control \notin {"await mode", "await report"} =>
           connector \in {"boot", "recv", "crashed"}
    /\ control = "await mode" =>
           /\ connector \notin {"boot", "recv"}
           /\ serving = "mode" \/ connector = "crashed"
    /\ control = "await report" =>
           serving = "health" /\ connector \in {"connect", "connected", "unconnected", "reply"}
    /\ connector = "crashed" => wire = Lost

(* Which copy of the mode is the one on the wire. *)
CopyInv ==
    /\ control = "await mode" /\ connector \in {"log", "reply"} /\ wire # Lost =>
           fetched = Parse(Tokens(wire))
    /\ control = "schedule" /\ wire # Lost => trafficMode = Parse(Tokens(wire))

PollInv == TurnInv /\ CopyInv

LEMMA ControlStepPolls == PollInv /\ ControlStep => PollInv'
<1> SUFFICES ASSUME PollInv, ControlStep
             PROVE  PollInv'
  OBVIOUS
<1> USE DEF PollInv, TurnInv, CopyInv
<1>1. CASE Hello \/ SelfDiagnostic \/ Wake
  BY <1>1 DEF Hello, SelfDiagnostic, Wake, connectorVars
<1>2. CASE CallGetTrafficMode \/ CallSendDiagnostics
  BY <1>2 DEF CallGetTrafficMode, CallSendDiagnostics, ConnectorReceive
<1>3. CASE GetTrafficModeReturns \/ GetTrafficModeAsserts \/ SendDiagnosticsReturns
  BY <1>3 DEF GetTrafficModeReturns, GetTrafficModeAsserts, SendDiagnosticsReturns,
              ConnectorReply
<1>4. CASE GetTrafficModeFails \/ SendDiagnosticsFails
  BY <1>4 DEF GetTrafficModeFails, SendDiagnosticsFails, connectorVars
<1>5. CASE SetCrossSchedule
  BY <1>5 DEF SetCrossSchedule, connectorVars
<1> QED
  BY <1>1, <1>2, <1>3, <1>4, <1>5 DEF ControlStep

LEMMA ConnectorStepPolls ==
    ASSUME PollInv, ConnectorStep \/ ServerStep
    PROVE  PollInv' /\ wire' \in {wire, tlMode, Lost} /\ UNCHANGED <<tlMode, schedule>>
<1> USE DEF PollInv, TurnInv, CopyInv
<1>1. UNCHANGED <<controlVars, tlMode>>
  BY DEF ConnectorStep, ServerStep
<1>2. CASE SocketFails
  BY <1>1, <1>2 DEF SocketFails, ReadGarbage, controlVars
<1>3. CASE Connect \/ ConnectRefused
  BY <1>1, <1>3 DEF Connect, ConnectRefused, controlVars
<1>4. CASE ServerStep
  BY <1>1, <1>4 DEF ServerStep, ServerAnswers, controlVars
<1>5. CASE ParseAnswer
  BY <1>1, <1>5 DEF ParseAnswer, controlVars
<1>6. CASE ParseFails
  BY <1>1, <1>6 DEF ParseFails, NothingToParse, ReadGarbage, controlVars
<1>7. CASE ConnectorCrashes
  BY <1>1, <1>7 DEF ConnectorCrashes, NothingToParse, controlVars
<1>8. CASE LogMode
  BY <1>1, <1>8 DEF LogMode, controlVars
<1>9. CASE PostReport(sysHealth) \/ ReportLost
  BY <1>1, <1>9 DEF PostReport, ReportLost, controlVars
<1> QED
  BY <1>2, <1>3, <1>4, <1>5, <1>6, <1>7, <1>8, <1>9 DEF ConnectorStep

LEMMA PollInvariant == Spec => []PollInv
<1>1. Init => PollInv
  BY DEF Init, ConnectorInit, PollInv, TurnInv, CopyInv
<1>2. PollInv /\ [Next]_vars => PollInv'
  <2> SUFFICES ASSUME PollInv, [Next]_vars
               PROVE  PollInv'
    OBVIOUS
  <2>1. CASE Greet
    BY <2>1 DEF Greet, ConnectorHello, controlVars, PollInv, TurnInv, CopyInv
  <2>2. CASE OperatorPosts \/ OtherEvent \/ UNCHANGED vars
    BY <2>2 DEF OperatorPosts, OtherEvent, vars, controlVars, connectorVars,
                PollInv, TurnInv, CopyInv
  <2> QED
    BY <2>1, <2>2, ControlStepPolls, ConnectorStepPolls DEF Next
<1> QED
  BY <1>1, <1>2, PTL DEF Spec

LEMMA Delivered ==
    ASSUME ValueInv, PollInv, SetCrossSchedule, \A data \in ServerModes : Flat(data)
    PROVE  Polling!Deliver
<1>1. PICK behavior \in BehaviorsOf(trafficMode.mode) :
          schedule' = ScheduleOf(trafficMode, behavior)
  BY DEF SetCrossSchedule, ScheduleOf
<1>2. wire # Lost => schedule' = Meaning(wire)
  <2> SUFFICES ASSUME wire # Lost
               PROVE  schedule' = Meaning(wire)
    OBVIOUS
  <2>1. wire \in ServerModes /\ Flat(wire)
    BY DEF ValueInv, Objects
  <2>2. trafficMode = Parse(Tokens(wire))
    BY DEF SetCrossSchedule, PollInv, CopyInv
  <2>3. ScheduleOf(Parse(Tokens(wire)), behavior) = Meaning(wire)
    BY <1>1, <2>1, <2>2, ParsedMeaning
  <2> QED
    BY <1>1, <2>2, <2>3
<1>3. UNCHANGED <<tlMode, wire>>
  BY DEF SetCrossSchedule, connectorVars
<1> QED
  BY <1>2, <1>3 DEF Polling!Deliver

(* Every schedule of a round in which the mode was fetched is the meaning  *)
(* of the server's mode at one moment, whatever flat objects an operator   *)
(* posts: all that is kept between rounds and between calls, and all the   *)
(* conversions on the way (central-server.py, response-parser.c,           *)
(* connector.c, control_system.c), leave no trace in it.                   *)
THEOREM RefinesPolling ==
    ASSUME \A data \in Posts : Accepts(data) => Flat(data)
    PROVE  Spec => ImplementsPolling
<1>1. \A data \in ServerModes : Flat(data)
  BY DefaultFlat DEF ServerModes
<1>2. Init => Polling!Init
  BY DEF Init, ConnectorInit, Polling!Init, ServerModes
<1>3. /\ ValueInv /\ PollInv /\ [Next]_vars
      => [Polling!Next]_<<tlMode, wire, schedule>>
  <2> SUFFICES ASSUME ValueInv, PollInv, [Next]_vars
               PROVE  [Polling!Next]_<<tlMode, wire, schedule>>
    OBVIOUS
  <2>1. CASE SetCrossSchedule
    BY <1>1, <2>1, Delivered DEF Polling!Next
  <2>2. CASE ControlStep /\ ~SetCrossSchedule
    BY <2>2 DEF ControlStep, Hello, SelfDiagnostic, CallGetTrafficMode,
       GetTrafficModeReturns, GetTrafficModeAsserts, GetTrafficModeFails,
       CallSendDiagnostics, SendDiagnosticsReturns, SendDiagnosticsFails, Wake,
       ConnectorReceive, ConnectorReply, connectorVars
  <2>3. CASE ConnectorStep \/ ServerStep
    <3>1. wire' \in {wire, tlMode, Lost} /\ UNCHANGED <<tlMode, schedule>>
      BY <2>3, ConnectorStepPolls
    <3> QED
      BY <3>1 DEF Polling!Next, Polling!Sample
  <2>4. CASE OperatorPosts
    <3>1. tlMode' \in ServerModes
      BY <2>4, PostedModes DEF OperatorPosts, ValueInv
    <3> QED
      BY <2>4, <3>1 DEF OperatorPosts, controlVars, connectorVars, Polling!Next,
                        Polling!Publish
  <2>5. CASE Greet \/ OtherEvent \/ UNCHANGED vars
    BY <2>5 DEF Greet, ConnectorHello, OtherEvent, vars, controlVars, connectorVars
  <2> QED
    BY <2>1, <2>2, <2>3, <2>4, <2>5 DEF Next
<1>4. TypeInv => ValueInv
  BY DEF TypeInv
<1> QED
  BY <1>2, <1>3, <1>4, TypeInvariant, PollInvariant, PTL
  DEF Spec, ImplementsPolling, Polling!Spec
-----------------------------------------------------------------------------
(***************************************************************************)
(* The codes.                                                              *)
(***************************************************************************)

(* The codes known of an entity that reports by itself, from its report    *)
(* to the server: each place has one if the next has.                      *)
Passed(source) ==
    /\ {health[source], sysHealth[source], received[source]}
           \subseteq EventCodes \cup {NoEvent}
    /\ sysHealth[source] # NoEvent => health[source] # NoEvent
    /\ received[source] # NoEvent => sysHealth[source] # NoEvent

(* Before the first Collect of ControlSystem nothing can be posted. *)
Diagnosed ==
    \/ sysHealth["ControlSystem"] = 1 /\ sysHealth["Diagnostics"] = 0
    \/ control \in {"hello", "diagnose"} /\ connector \in {"boot", "recv"}

CodesInv ==
    /\ DOMAIN health = Sources
    /\ Diagnosed
    /\ \A source \in Reporters : Passed(source)

LEMMA ControlStepCodes ==
    ASSUME NoEvent \notin EventCodes, TypeOK, CodesInv, ControlStep
    PROVE  CodesInv'
<1> USE ReportersType
<1>1. CASE Hello
  <2>1. health' = [health EXCEPT !["ControlSystem"] = 0] /\ UNCHANGED <<sysHealth, received>>
    BY <1>1 DEF Hello, Collect
  <2>2. \A source \in Reporters : Passed(source)'
    BY <2>1 DEF CodesInv, Passed
  <2>3. control' = "diagnose" /\ control = "hello" /\ connector' = connector
    BY <1>1 DEF Hello, connectorVars
  <2> QED
    BY <2>1, <2>2, <2>3 DEF CodesInv, Diagnosed
<1>2. CASE SelfDiagnostic
  <2>1. /\ health' = [health EXCEPT !["ControlSystem"] = 1] /\ received' = received
        /\ sysHealth' = [source \in Sources \cup {"Diagnostics"} |->
                            IF source = "Diagnostics" THEN 0 ELSE health'[source]]
    BY <1>2 DEF SelfDiagnostic, Collect
  <2>2. ASSUME NEW source \in Reporters
        PROVE  Passed(source)'
    <3>1. sysHealth'[source] = health[source] /\ health'[source] = health[source]
      BY <2>1 DEF CodesInv, Sources
    <3> QED
      BY <2>1, <3>1 DEF CodesInv, Passed
  <2>3. sysHealth'["ControlSystem"] = 1 /\ sysHealth'["Diagnostics"] = 0
    BY <2>1 DEF CodesInv, Sources
  <2> QED
    BY <2>1, <2>2, <2>3 DEF CodesInv, Diagnosed
<1>3. CASE UNCHANGED <<sysHealth, health, received>> /\ control \notin {"hello", "diagnose"}
  BY <1>3 DEF CodesInv, Diagnosed, Passed
<1> QED
  BY <1>1, <1>2, <1>3, Zenon
  DEF ControlStep, CallGetTrafficMode, GetTrafficModeReturns, GetTrafficModeAsserts,
      GetTrafficModeFails, SetCrossSchedule, CallSendDiagnostics,
      SendDiagnosticsReturns, SendDiagnosticsFails, Wake

LEMMA ReportPosted ==
    ASSUME TypeOK, CodesInv, PostReport(sysHealth)
    PROVE  /\ UNCHANGED <<health, sysHealth>> => CodesInv'
           /\ received'["ControlSystem"] = 1 /\ received'["Diagnostics"] = 0
           /\ \A source \in Reporters : received'[source] = sysHealth[source]
<1>1. PICK code : received' = [sysHealth EXCEPT !["Connector"] = code]
  BY DEF PostReport, ProcessDiagnostics
<1>2. connector = "connected"
  BY DEF PostReport
<1>3. sysHealth["ControlSystem"] = 1 /\ sysHealth["Diagnostics"] = 0
  BY <1>2 DEF CodesInv, Diagnosed
<1>4. \A source \in Reporters : received'[source] = sysHealth[source]
  BY <1>1, ReportersType DEF TypeOK, Sources
<1>5. received'["ControlSystem"] = 1 /\ received'["Diagnostics"] = 0
  BY <1>1, <1>3 DEF TypeOK, Sources
<1>6. UNCHANGED <<health, sysHealth>> => CodesInv'
  BY <1>3, <1>4 DEF CodesInv, Diagnosed, Passed
<1> QED
  BY <1>4, <1>5, <1>6

LEMMA OtherStepCodes ==
    ASSUME NoEvent \notin EventCodes, TypeOK, CodesInv,
           \/ ConnectorStep \/ Greet \/ ServerStep \/ OperatorPosts \/ OtherEvent
           \/ UNCHANGED vars
    PROVE  CodesInv'
<1> USE ReportersType
<1>1. CASE PostReport(sysHealth) /\ ConnectorStep
  BY <1>1, ReportPosted DEF PostReport, ConnectorStep, controlVars
<1>2. CASE OtherEvent
  <2>1. PICK source \in Reporters, code \in EventCodes :
            health' = [health EXCEPT ![source] = code]
    BY <1>2 DEF OtherEvent, Collect
  <2>2. UNCHANGED <<sysHealth, received, control, connector>>
    BY <1>2 DEF OtherEvent, controlVars, connectorVars
  <2>3. \A other \in Reporters : Passed(other)'
    BY <2>1, <2>2 DEF CodesInv, Passed
  <2> QED
    BY <2>1, <2>2, <2>3 DEF CodesInv, Diagnosed
<1>3. ASSUME UNCHANGED <<sysHealth, received, control>>,
             \/ health' = health
             \/ \E code : health' = [health EXCEPT !["Connector"] = code],
             connector \in {"boot", "recv"} => connector' \in {"boot", "recv"}
      PROVE  CodesInv'
  <2>1. DOMAIN health' = Sources /\ \A source \in Reporters : health'[source] = health[source]
    BY <1>3 DEF CodesInv
  <2>2. \A source \in Reporters : Passed(source)'
    BY <1>3, <2>1 DEF CodesInv, Passed
  <2> QED
    BY <1>3, <2>1, <2>2 DEF CodesInv, Diagnosed
<1>4. CASE Greet \/ ServerStep \/ OperatorPosts \/ UNCHANGED vars
  BY <1>3, <1>4
  DEF Greet, ConnectorHello, Collect, ServerStep, ServerAnswers, OperatorPosts,
      vars, controlVars, connectorVars
<1>5. CASE ConnectorStep /\ ~PostReport(sysHealth)
  BY <1>3, <1>5
  DEF ConnectorStep, SocketFails, ReadGarbage, Connect, ConnectRefused, ParseAnswer,
      ParseFails, NothingToParse, ConnectorCrashes, LogMode, Collect, ReportLost,
      controlVars
<1> QED
  BY <1>1, <1>2, <1>4, <1>5

LEMMA CodesInvariant ==
    ASSUME NoEvent \notin EventCodes
    PROVE  Spec => []CodesInv
<1>1. Init => CodesInv
  <2> SUFFICES ASSUME Init
               PROVE  CodesInv
    OBVIOUS
  <2>1. \A source \in Reporters : health[source] = NoEvent /\ sysHealth[source] = NoEvent
                                  /\ received[source] = NoEvent
    BY ReportersType DEF Init, DiagnosticsInit, NoReport
  <2>2. DOMAIN health = Sources /\ control = "hello" /\ connector = "boot"
    BY DEF Init, DiagnosticsInit, ConnectorInit
  <2> QED
    BY <2>1, <2>2 DEF CodesInv, Diagnosed, Passed
<1>2. TypeInv /\ CodesInv /\ [Next]_vars => CodesInv'
  BY ControlStepCodes, OtherStepCodes DEF Next, TypeInv
<1> QED
  BY <1>1, <1>2, TypeInvariant, PTL DEF Spec

(* Every report that reaches the server carries what the entities last     *)
(* known to ControlSystem have reported, and takes nothing back, for any   *)
(* entities and codes but the one that stands for no report at all.        *)
THEOREM ReportsStayGenuine ==
    ASSUME NoEvent \notin EventCodes
    PROVE  Spec => ReportsAreGenuine
<1> DEFINE Genuine ==
        /\ received'["ControlSystem"] = 1 /\ received'["Diagnostics"] = 0
        /\ \A source \in Reporters :
               \/ received'[source] \in EventCodes
               \/ received[source] = NoEvent /\ received'[source] = NoEvent
<1>1. TypeInv /\ CodesInv /\ [Next]_vars => [received' # received => Genuine]_vars
  <2> SUFFICES ASSUME TypeInv, CodesInv, Next, received' # received
               PROVE  Genuine
    BY DEF vars
  <2>1. PostReport(sysHealth)
    BY Zenon
    DEF Next, ControlStep, Hello, SelfDiagnostic, CallGetTrafficMode,
        GetTrafficModeReturns, GetTrafficModeAsserts, GetTrafficModeFails,
        SetCrossSchedule, CallSendDiagnostics, SendDiagnosticsReturns,
        SendDiagnosticsFails, Wake, Greet, ConnectorStep, SocketFails, Connect,
        ConnectRefused, ParseAnswer, ParseFails, ConnectorCrashes, LogMode,
        ReportLost, ServerStep, ServerAnswers, OperatorPosts, OtherEvent
  <2>2. /\ received'["ControlSystem"] = 1 /\ received'["Diagnostics"] = 0
        /\ \A source \in Reporters : received'[source] = sysHealth[source]
    BY <2>1, ReportPosted DEF TypeInv
  <2> QED
    BY <2>2 DEF CodesInv, Passed
<1> QED
  BY <1>1, TypeInvariant, CodesInvariant, PTL DEF Spec, ReportsAreGenuine
=============================================================================
