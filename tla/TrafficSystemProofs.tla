------------------------ MODULE TrafficSystemProofs -------------------------
(***************************************************************************)
(* Proofs about TrafficSystem, for any posts, any garbage, any number of   *)
(* attempts, any failures and delays of the network and any width of int.  *)
(***************************************************************************)
EXTENDS TrafficSystem, TLAPS

(***************************************************************************)
(* The clocks.                                                             *)
(***************************************************************************)
LEMMA ClocksInitially == Init => TypeOK
<1>1. Init => unchanged \in BOOLEAN
  BY Zenon DEF Init
<1> QED
  BY <1>1 DEF Init, TypeOK, TimerFreq, RoundPause, AttemptPause

LEMMA OneLessType ==
    ASSUME NEW n \in Nat, NEW seconds \in 0 .. n
    PROVE  OneLess(seconds) \in 0 .. n /\ (OneLess(seconds) > 0 => seconds > 0)
  BY DEF OneLess

LEMMA TickKeepsClocks == TypeOK /\ Tick => TypeOK'
<1> SUFFICES ASSUME TypeOK, Tick
             PROVE  TypeOK'
  OBVIOUS
<1>1. UNCHANGED <<timer, control, connector, unchanged>>
  BY DEF Tick, roundVars, crossVars
<1>2. timerSleep' \in 0 .. TimerFreq /\ (timerSleep' > 0 => timerSleep > 0)
  BY OneLessType DEF Tick, TypeOK, TimerFreq
<1>3. roundSleep' \in 0 .. RoundPause /\ (roundSleep' > 0 => roundSleep > 0)
  BY OneLessType DEF Tick, TypeOK, RoundPause
<1>4. attemptSleep' \in 0 .. AttemptPause /\ (attemptSleep' > 0 => attemptSleep > 0)
  BY OneLessType DEF Tick, TypeOK, AttemptPause
<1>5. steady' \in 0 .. TimerFreq
  BY DEF Tick, TypeOK, TimerFreq
<1>6. waited' \in Nat \cup {Seen}
  BY DEF Tick, TypeOK, Seen
<1> QED
  BY <1>1, <1>2, <1>3, <1>4, <1>5, <1>6 DEF TypeOK

LEMMA CrossStepKeepsClocks == TypeOK /\ CrossStep => TypeOK'
<1> SUFFICES ASSUME TypeOK, CrossStep
             PROVE  TypeOK'
  OBVIOUS
<1>1. UNCHANGED <<roundSleep, attemptSleep, control, connector>>
  BY DEF CrossStep, roundVars
<1>2. steady' \in 0 .. TimerFreq /\ unchanged' \in BOOLEAN
  BY DEF CrossStep, LampsWatched, TypeOK, TimerFreq
<1>3. timerSleep' \in 0 .. TimerFreq /\ (timerSleep' > 0 => timer' = "try")
  <2>1. CASE TimerTurn
    BY <2>1 DEF TimerTurn, TimerFreq
  <2>2. CASE /\ Crossing!BootStep \/ Crossing!ServeStep \/ Crossing!GpioStep
             /\ UNCHANGED timerSleep
    <3>1. timer' \in {timer, "try"}
      BY <2>2 DEF Crossing!BootStep, Crossing!CreateTimerThread, Crossing!InitProxies,
                  Crossing!Hello, Crossing!CreateModeFile, Crossing!ServeStep,
                  Crossing!LockSchedule, Crossing!UpdateSchedule, Crossing!LogSchedule,
                  Crossing!GpioStep, Crossing!timerVars
    <3> QED
      BY <2>2, <3>1 DEF TypeOK
  <2> QED
    BY <2>1, <2>2 DEF CrossStep
<1>4. waited' \in Nat \cup {Seen}
  BY DEF CrossStep, SchedulesWatched, TypeOK
<1> QED
  BY <1>1, <1>2, <1>3, <1>4 DEF TypeOK

LEMMA RoundsKeepClocks ==
    /\ TypeOK
    /\ RoundStep \/ SetCrossSchedule \/ ConnectorStep \/ ServerStep \/ OperatorPosts
    => TypeOK'
<1> SUFFICES ASSUME TypeOK,
                    \/ RoundStep \/ SetCrossSchedule \/ ConnectorStep \/ ServerStep
                    \/ OperatorPosts
             PROVE  TypeOK'
  OBVIOUS
<1>1. CASE RoundStep
  <2>1. UNCHANGED <<timer, timerSleep, steady, waited>>
    BY <1>1 DEF RoundStep, crossVars
  <2>2. /\ attemptSleep' \in 0 .. AttemptPause
        /\ attemptSleep' > 0 => connector' = "connect"
    BY <1>1 DEF RoundStep, AttemptSleepSet, AttemptPause
  <2>3. /\ roundSleep' \in 0 .. RoundPause
        /\ roundSleep' > 0 => control' = "sleep"
    BY <1>1 DEF RoundStep, RoundPause
  <2>4. unchanged' \in BOOLEAN
    <3>1. unchanged \in BOOLEAN
      BY Zenon DEF TypeOK
    <3>2. unchanged' = IF RoundBegins THEN steady > 0 ELSE unchanged
      BY <1>1 DEF RoundStep, RoundWatched
    <3>3. (steady > 0) \in BOOLEAN
      BY DEF TypeOK
    <3>4. CASE RoundBegins
      <4>1. unchanged' = (steady > 0)
        BY <3>2, <3>4, SMT
      <4> QED
        BY <3>3, <4>1, Zenon
    <3>5. CASE ~RoundBegins
      <4>1. unchanged' = unchanged
        BY <3>2, <3>5, Zenon
      <4> QED
        BY <3>1, <4>1, Zenon
    <3> QED
      BY <3>4, <3>5, Zenon
  <2> QED
    BY <2>1, <2>2, <2>3, <2>4 DEF TypeOK
<1>2. CASE SetCrossSchedule
  <2>1. UNCHANGED clockVars /\ Rounds!SetCrossSchedule
    BY <1>2 DEF SetCrossSchedule
  <2>2. control = "schedule" /\ UNCHANGED connector
    BY <2>1 DEF Rounds!SetCrossSchedule, Rounds!connectorVars
  <2>3. timer' = timer
    BY <1>2 DEF SetCrossSchedule, ReceiveSchedule, CrossingGone, crossVars
  <2> QED
    BY <2>1, <2>2, <2>3 DEF TypeOK, clockVars
<1>3. CASE ConnectorStep
  <2>1. UNCHANGED <<timer, timerSleep, roundSleep, steady, unchanged, waited>>
    BY <1>3 DEF ConnectorStep, crossVars
  <2>2. /\ attemptSleep' \in 0 .. AttemptPause
        /\ attemptSleep' > 0 => connector' = "connect"
    BY <1>3 DEF ConnectorStep, AttemptSleepSet, AttemptPause
  <2>3. UNCHANGED control
    BY <1>3 DEF ConnectorStep, Rounds!Greet, Rounds!ConnectorStep, Rounds!controlVars
  <2> QED
    BY <2>1, <2>2, <2>3 DEF TypeOK
<1>4. CASE ServerStep
  <2>1. UNCHANGED <<timer, control, clockVars>>
    BY <1>4 DEF ServerStep, Rounds!ServerStep, Rounds!controlVars, crossVars
  <2>2. connector # "connect"
    BY <1>4 DEF ServerStep, Rounds!ServerStep, Rounds!ServerAnswers
  <2>3. attemptSleep = 0
    BY <2>2 DEF TypeOK, AttemptPause
  <2> QED
    BY <2>1, <2>3 DEF TypeOK, clockVars
<1>5. CASE OperatorPosts
  BY <1>5 DEF OperatorPosts, Rounds!OperatorPosts, Rounds!controlVars,
              Rounds!connectorVars, crossVars, clockVars, TypeOK
<1> QED
  BY <1>1, <1>2, <1>3, <1>4, <1>5

(* No clock runs beyond its sleep, and nobody sleeps but where its code    *)
(* does, so that time never passes while a thread has something to do.     *)
THEOREM ClocksCorrect == Spec => []TypeOK
<1>1. TypeOK /\ UNCHANGED vars => TypeOK'
  BY DEF vars, roundVars, crossVars, clockVars, TypeOK
<1>2. TypeOK /\ [Next]_vars => TypeOK'
  BY <1>1, TickKeepsClocks, CrossStepKeepsClocks, RoundsKeepClocks DEF Next
<1> QED
  BY <1>2, ClocksInitially, PTL DEF Spec
-----------------------------------------------------------------------------
(***************************************************************************)
(* The schedules.                                                          *)
(***************************************************************************)
RoundsFacts == INSTANCE ControlSystemProofs WITH
    Reporters <- {"CrossController", "LightsGPIO"},
    EventCodes <- Crossing!PermittedModes \cup {0}

(* The assumptions of ControlSystem hold here. *)
LEMMA RoundsAssumed ==
    /\ IntHalf \in Nat \ {0} /\ NumRetries \in Nat \ {0}
    /\ {"CrossController", "LightsGPIO"} \subseteq
           RoundsFacts!Sources \ {"ControlSystem", "Connector"}
    /\ Posts \subseteq Seq([key : STRING, value : Seq(RoundsFacts!Scalar)])
    /\ GarbageBehaviors \subseteq Int
    /\ \A mode \in GarbageModes : mode.duration1 \in Int /\ mode.duration2 \in Int
<1>1. Rounds!Scalar = RoundsFacts!Scalar
  BY DEF Rounds!Scalar, RoundsFacts!Scalar
<1> QED
  BY <1>1, ConstantsType DEF RoundsFacts!Sources

LEMMA SameParse ==
    ASSUME NEW data
    PROVE  Rounds!Parse(Rounds!Tokens(data)) = RoundsFacts!Parse(RoundsFacts!Tokens(data))
<1>1. Rounds!Tokens(data) = RoundsFacts!Tokens(data)
  BY DEF Rounds!Tokens, Rounds!Dumping!Fold, Rounds!AddMember, Rounds!Key,
         RoundsFacts!Tokens, RoundsFacts!Dumping!Fold, RoundsFacts!AddMember,
         RoundsFacts!Key
<1>2. \A document : Rounds!Parse(document) = RoundsFacts!Parse(document)
  BY DEF Rounds!Parse, Rounds!Walk, Rounds!Walking!Fold, Rounds!WalkStart,
         Rounds!EmptyResponse, Rounds!AfterToken, Rounds!FlagsAfter,
         Rounds!UpdateModesField, Rounds!Fields, Rounds!ResponseAfter,
         Rounds!UpdateString, Rounds!UpdateInteger, Rounds!AsInt,
         RoundsFacts!Parse, RoundsFacts!Walk, RoundsFacts!Walking!Fold,
         RoundsFacts!WalkStart, RoundsFacts!EmptyResponse, RoundsFacts!AfterToken,
         RoundsFacts!FlagsAfter, RoundsFacts!UpdateModesField, RoundsFacts!Fields,
         RoundsFacts!ResponseAfter, RoundsFacts!UpdateString,
         RoundsFacts!UpdateInteger, RoundsFacts!AsInt
<1> QED
  BY <1>1, <1>2

LEMMA SameModes == Rounds!ServerModes = RoundsFacts!ServerModes
  BY DEF Rounds!ServerModes, Rounds!DefaultMode, Rounds!Accepts, Rounds!HasMember,
         Rounds!Member, Rounds!Text, Rounds!KnownModes,
         RoundsFacts!ServerModes, RoundsFacts!DefaultMode, RoundsFacts!Accepts,
         RoundsFacts!HasMember, RoundsFacts!Member, RoundsFacts!Text,
         RoundsFacts!KnownModes

LEMMA ParsedDurations ==
    ASSUME NEW data \in Rounds!ServerModes \cup {<<>>}
    PROVE  /\ Rounds!Parse(Rounds!Tokens(data)).duration1 \in Int
           /\ Rounds!Parse(Rounds!Tokens(data)).duration2 \in Int
<1>1. data \in RoundsFacts!Objects
  BY SameModes DEF RoundsFacts!Objects, RoundsFacts!Lost
<1>2. RoundsFacts!Durations(RoundsFacts!Parse(RoundsFacts!Tokens(data))) \subseteq Int
  BY <1>1, RoundsFacts!ParsedDurations, RoundsAssumed
<1> QED
  BY <1>2, SameParse DEF RoundsFacts!Durations

Durations(mode) == {mode.duration1, mode.duration2}

(* What ControlSystem and the Connector have in hand always makes a        *)
(* schedule of the right type.                                             *)
Values ==
    /\ tlMode \in Rounds!ServerModes
    /\ wire \in Rounds!ServerModes \cup {<<>>}
    /\ Durations(fetched) \subseteq Int /\ Durations(trafficMode) \subseteq Int
    /\ schedule \in AnySchedule

LEMMA ValuesInitially == Init => Values
<1> SUFFICES ASSUME Init
             PROVE  Values
  OBVIOUS
<1>1. /\ trafficMode \in GarbageModes
      /\ fetched.duration1 = 0 /\ fetched.duration2 = 0
      /\ tlMode = Rounds!DefaultMode /\ wire = <<>>
  BY DEF Init, Rounds!Init, Rounds!ConnectorInit, Rounds!EmptyResponse, Rounds!Lost
<1>2. schedule \in AnySchedule
  BY ConstantsType DEF Init, Rounds!Init, Rounds!NoSchedule, AnySchedule
<1>3. Durations(fetched) \subseteq Int /\ Durations(trafficMode) \subseteq Int
  BY <1>1, ConstantsType DEF Durations
<1>4. tlMode \in Rounds!ServerModes
  BY <1>1 DEF Rounds!ServerModes
<1> QED
  BY <1>1, <1>2, <1>3, <1>4 DEF Values

LEMMA GarbageDurations ==
    ASSUME Rounds!ReadGarbage
    PROVE  wire' = <<>> /\ Durations(fetched') \subseteq Int
<1>1. Rounds!Unreadable.duration1 = 0 /\ Rounds!Unreadable.duration2 = 0
  BY DEF Rounds!Unreadable, Rounds!EmptyResponse
<1>2. fetched' \in GarbageModes \cup {Rounds!Unreadable} /\ wire' = <<>>
  BY DEF Rounds!ReadGarbage, Rounds!Lost
<1> QED
  BY <1>1, <1>2, ConstantsType DEF Durations

LEMMA RoundStepKeepsValues == Values /\ RoundStep => Values'
<1> SUFFICES ASSUME Values, RoundStep
             PROVE  Values'
  OBVIOUS
<1>1. UNCHANGED <<tlMode, wire, fetched, schedule>> /\ trafficMode' \in {trafficMode, fetched}
  BY DEF RoundStep, Rounds!Hello, Rounds!SelfDiagnostic, Rounds!CallGetTrafficMode,
         Rounds!GetTrafficModeReturns, Rounds!GetTrafficModeAsserts,
         Rounds!GetTrafficModeFails, Rounds!CallSendDiagnostics,
         Rounds!SendDiagnosticsReturns, Rounds!SendDiagnosticsFails, Rounds!Wake,
         Rounds!ConnectorReceive, Rounds!ConnectorReply, Rounds!connectorVars
<1> QED
  BY <1>1 DEF Values

LEMMA AsUIntRange ==
    ASSUME NEW value \in Int
    PROVE  Rounds!AsUInt(value) \in 0 .. 2 * IntHalf - 1
<1>1. RoundsFacts!AsUInt(value) \in 0 .. 2 * IntHalf - 1
  BY RoundsFacts!AsUIntRange, RoundsAssumed
<1> QED
  BY <1>1 DEF Rounds!AsUInt, RoundsFacts!AsUInt

LEMMA CrossModeType ==
    ASSUME NEW color1, NEW color2
    PROVE  Rounds!CrossModeOf(color1, color2) \in Nat
<1>1. \A color : Rounds!GetColorMode(color) \in {1, 2, 4, 8, 3, 10, 12, 0}
  BY DEF Rounds!GetColorMode
<1>2. \A color : Rounds!GetColorMode(color) \in Nat
  BY <1>1
<1> QED
  BY <1>2 DEF Rounds!CrossModeOf

LEMMA BehaviorsType ==
    ASSUME NEW mode, NEW behavior \in Rounds!BehaviorsOf(mode)
    PROVE  behavior \in Int
<1>1. \/ Rounds!BehaviorsOf(mode) = {1} \/ Rounds!BehaviorsOf(mode) = {2}
      \/ Rounds!BehaviorsOf(mode) = {3} \/ Rounds!BehaviorsOf(mode) = GarbageBehaviors
  BY DEF Rounds!BehaviorsOf, Rounds!BehaviorRegulated, Rounds!BehaviorUnregulated,
         Rounds!BehaviorManual
<1>2. CASE Rounds!BehaviorsOf(mode) = {1}
  <2>1. behavior = 1
    BY <1>2
  <2> QED
    BY <2>1
<1>3. CASE Rounds!BehaviorsOf(mode) = {2}
  <2>1. behavior = 2
    BY <1>3
  <2> QED
    BY <2>1
<1>4. CASE Rounds!BehaviorsOf(mode) = {3}
  <2>1. behavior = 3
    BY <1>4
  <2> QED
    BY <2>1
<1>5. CASE Rounds!BehaviorsOf(mode) = GarbageBehaviors
  BY <1>5, ConstantsType
<1> QED
  BY <1>1, <1>2, <1>3, <1>4, <1>5

LEMMA ScheduleKeepsValues == Values /\ SetCrossSchedule => Values'
<1> SUFFICES ASSUME Values, SetCrossSchedule
             PROVE  Values'
  OBVIOUS
<1>1. Rounds!SetCrossSchedule
  BY DEF SetCrossSchedule
<1>2. UNCHANGED <<tlMode, wire, fetched, trafficMode>>
  BY <1>1 DEF Rounds!SetCrossSchedule, Rounds!connectorVars
<1>3. PICK behavior \in Rounds!BehaviorsOf(trafficMode.mode) :
          schedule' = [behavior     |-> behavior,
                       crossMode    |-> Rounds!CrossModeOf(trafficMode.color1,
                                                           trafficMode.color2),
                       dir1Duration |-> Rounds!AsUInt(trafficMode.duration1),
                       dir2Duration |-> Rounds!AsUInt(trafficMode.duration2)]
  BY <1>1 DEF Rounds!SetCrossSchedule
<1>4. behavior \in Int
  BY BehaviorsType
<1>5. trafficMode.duration1 \in Int /\ trafficMode.duration2 \in Int
  BY DEF Values, Durations
<1>6. schedule' \in AnySchedule
  BY <1>3, <1>4, <1>5, AsUIntRange, CrossModeType DEF AnySchedule
<1> QED
  BY <1>2, <1>6 DEF Values

LEMMA ConnectorStepKeepsValues == Values /\ ConnectorStep => Values'
<1> SUFFICES ASSUME Values, ConnectorStep
             PROVE  Values'
  OBVIOUS
<1>1. UNCHANGED <<trafficMode, schedule, tlMode>>
  BY DEF ConnectorStep, Rounds!Greet, Rounds!ConnectorStep, Rounds!controlVars
<1>2. CASE Rounds!ReadGarbage \/ Rounds!ConnectorCrashes
  BY <1>1, <1>2, GarbageDurations DEF Rounds!ConnectorCrashes, Rounds!Lost, Values
<1>3. CASE Rounds!ParseAnswer
  BY <1>1, <1>3, ParsedDurations DEF Rounds!ParseAnswer, Values, Durations
<1>4. CASE UNCHANGED <<wire, fetched>>
  BY <1>1, <1>4 DEF Values
<1> QED
  BY <1>2, <1>3, <1>4
  DEF ConnectorStep, Rounds!Greet, Rounds!ConnectorHello, Rounds!ConnectorStep,
      Rounds!SocketFails, Rounds!Connect, Rounds!ConnectRefused, Rounds!ParseFails,
      Rounds!LogMode, Rounds!PostReport, Rounds!ReportLost

LEMMA ValuesKept == Values /\ [Next]_vars => Values'
<1> SUFFICES ASSUME Values, [Next]_vars
             PROVE  Values'
  OBVIOUS
<1>1. CASE OperatorPosts
  <2>1. PICK data \in Posts : Rounds!ProcessManual(data)
    BY <1>1 DEF OperatorPosts, Rounds!OperatorPosts
  <2>2. tlMode' \in Rounds!ServerModes
    BY <2>1 DEF Rounds!ProcessManual, Rounds!ServerModes, Values
  <2> QED
    BY <1>1, <2>2 DEF OperatorPosts, Rounds!OperatorPosts, Rounds!controlVars,
                      Rounds!connectorVars, Values
<1>2. CASE ServerStep
  BY <1>2 DEF ServerStep, Rounds!ServerStep, Rounds!ServerAnswers, Rounds!controlVars,
              Values
<1>3. CASE CrossStep \/ Tick \/ UNCHANGED vars
  BY <1>3 DEF CrossStep, Tick, vars, roundVars, Values
<1> QED
  BY <1>1, <1>2, <1>3, RoundStepKeepsValues, ScheduleKeepsValues, ConnectorStepKeepsValues
  DEF Next

LEMMA ValuesInvariant == Spec => []Values
  BY ValuesInitially, ValuesKept, PTL DEF Spec
-----------------------------------------------------------------------------
(***************************************************************************)
(* The lamps.                                                              *)
(***************************************************************************)

(* Diagnostics has a code of every source, and no other. *)
Health == health = [source \in Rounds!Sources |-> health[source]]

Collected == \E source, code : health' = [health EXCEPT ![source] = code]

LEMMA CrossStepCollects == CrossStep => Collected \/ UNCHANGED health
<1> SUFFICES ASSUME CrossStep
             PROVE  Collected \/ UNCHANGED health
  OBVIOUS
<1>1. CASE Crossing!TimerStep
  BY <1>1 DEF Crossing!TimerStep, Crossing!TryLock, Crossing!TryLockFails,
     Crossing!DecideCall, Crossing!CountDown, Crossing!DecideNothing,
     Crossing!CallCrash, Crossing!CallWithoutProxy, Crossing!CallGranted,
     Crossing!CallDenied, Crossing!CallReturns, Crossing!Commit, Crossing!Refuse,
     Crossing!SyncAndUnlock, Crossing!WriteModeToFile
<1>2. CASE Crossing!BootStep \/ Crossing!ServeStep \/ Crossing!GpioStep
  BY <1>2 DEF Crossing!BootStep, Crossing!CreateTimerThread, Crossing!InitProxies,
     Crossing!Hello, Crossing!CreateModeFile, Crossing!ServeStep,
     Crossing!LockSchedule, Crossing!UpdateSchedule, Crossing!LogSchedule,
     Crossing!GpioStep, Crossing!GpioHello, Crossing!SetCrossLights,
     Crossing!GpioReport, Crossing!Collect, Collected
<1> QED
  BY <1>1, <1>2 DEF CrossStep, TimerTurn

(* The other entities report in their own names. *)
LEMMA RoundsCollect ==
    ASSUME \/ RoundStep \/ SetCrossSchedule \/ ConnectorStep \/ ServerStep
           \/ OperatorPosts
    PROVE  \/ UNCHANGED health
           \/ \E source \in {"ControlSystem", "Connector"}, code \in {0, 1} :
                  health' = [health EXCEPT ![source] = code]
<1>1. CASE RoundStep
  BY <1>1 DEF RoundStep, Rounds!Hello, Rounds!SelfDiagnostic,
     Rounds!CallGetTrafficMode, Rounds!GetTrafficModeReturns,
     Rounds!GetTrafficModeAsserts, Rounds!GetTrafficModeFails,
     Rounds!CallSendDiagnostics, Rounds!SendDiagnosticsReturns,
     Rounds!SendDiagnosticsFails, Rounds!Wake, Rounds!Collect
<1>2. CASE SetCrossSchedule \/ ServerStep \/ OperatorPosts
  BY <1>2 DEF SetCrossSchedule, Rounds!SetCrossSchedule, ServerStep,
     Rounds!ServerStep, Rounds!ServerAnswers, OperatorPosts, Rounds!OperatorPosts
<1>3. CASE ConnectorStep
  BY <1>3 DEF ConnectorStep, Rounds!Greet, Rounds!ConnectorHello,
     Rounds!ConnectorStep, Rounds!SocketFails, Rounds!Connect, Rounds!ConnectRefused, Rounds!ParseAnswer,
     Rounds!ParseFails, Rounds!ConnectorCrashes, Rounds!LogMode, Rounds!PostReport,
     Rounds!ReportLost, Rounds!Collect
<1> QED
  BY <1>1, <1>2, <1>3

LEMMA HealthInvariant == Spec => []Health
<1>1. Init => Health
  BY DEF Init, Rounds!Init, Rounds!DiagnosticsInit, Health
<1>2. Health /\ [Next]_vars => Health'
  <2> SUFFICES ASSUME Health, [Next]_vars
               PROVE  Health'
    OBVIOUS
  <2>1. Collected => Health'
    BY DEF Collected, Health
  <2>2. UNCHANGED health => Health'
    BY DEF Health
  <2>3. Collected \/ UNCHANGED health
    <3>1. CASE \/ RoundStep \/ SetCrossSchedule \/ ConnectorStep \/ ServerStep
               \/ OperatorPosts
      BY <3>1, RoundsCollect DEF Collected
    <3>2. CASE CrossStep
      BY <3>2, CrossStepCollects
    <3>3. CASE Tick \/ UNCHANGED vars
      BY <3>3 DEF Tick, vars
    <3> QED
      BY <3>1, <3>2, <3>3 DEF Next
  <2> QED
    BY <2>1, <2>2, <2>3
<1> QED
  BY <1>1, <1>2, PTL DEF Spec

LEMMA OwnReport ==
    ASSUME Health, NEW source \in {"CrossController", "LightsGPIO"}, NEW code,
           health' = [health EXCEPT ![source] = code]
    PROVE  OwnHealth' = [OwnHealth EXCEPT ![source] = code]
<1>1. health' = [s \in Rounds!Sources |-> IF s = source THEN code ELSE health[s]]
  BY DEF Health
<1>2. source \in Rounds!Sources
  BY DEF Rounds!Sources
<1> QED
  BY <1>1, <1>2 DEF OwnHealth

LEMMA OthersReport ==
    ASSUME Health, NEW source \in {"ControlSystem", "Connector"}, NEW code,
           health' = [health EXCEPT ![source] = code]
    PROVE  OwnHealth' = OwnHealth
<1>1. health' = [s \in Rounds!Sources |-> IF s = source THEN code ELSE health[s]]
  BY DEF Health
<1> QED
  BY <1>1 DEF OwnHealth, Rounds!Sources

LEMMA CrossingInit == Init => CrossingAlone!Init
<1> SUFFICES ASSUME Init
             PROVE  CrossingAlone!Init
  OBVIOUS
<1>1. OwnHealth = [source \in Rounds!Sources |-> -1]
  BY DEF Init, Rounds!Init, Rounds!DiagnosticsInit, Rounds!NoEvent, OwnHealth
<1>2. CrossingAlone!DiagnosticsInit
  BY <1>1 DEF CrossingAlone!DiagnosticsInit, CrossingAlone!Sources, Rounds!Sources,
     CrossingAlone!NoEvent
<1> QED
  BY <1>2 DEF Init, Crossing!Init, Crossing!GpioInit, Crossing!MonitorInit,
     Crossing!DefaultLightsMode, Crossing!NoSchedule, Crossing!NoFile,
     Crossing!Unregulated1BlinkYellow2BlinkYellow, Crossing!BehaviorUnregulated,
     CrossingAlone!Init, CrossingAlone!GpioInit, CrossingAlone!MonitorInit,
     CrossingAlone!DefaultLightsMode, CrossingAlone!NoSchedule, CrossingAlone!NoFile,
     CrossingAlone!Unregulated1BlinkYellow2BlinkYellow,
     CrossingAlone!BehaviorUnregulated

LEMMA CrossingTurn ==
    ASSUME Crossing!TimerStep, OwnHealth' = OwnHealth
    PROVE  CrossingAlone!Next
<1>1. CASE Crossing!TryLock \/ Crossing!TryLockFails \/ Crossing!CountDown
           \/ Crossing!DecideNothing \/ Crossing!CallCrash \/ Crossing!CallWithoutProxy
  BY <1>1 DEF Crossing!TryLock, Crossing!TryLockFails, Crossing!CountDown,
     Crossing!DecideNothing, Crossing!CallCrash, Crossing!CallWithoutProxy,
     Crossing!NextTurn, Crossing!mainVars, Crossing!curVars, Crossing!reqVars,
     Crossing!gpioVars, Crossing!flowVars, Crossing!BehaviorRegulated,
     Crossing!Behaviors, Crossing!BehaviorUnregulated, Crossing!BehaviorManual,
     CrossingAlone!TryLock, CrossingAlone!TryLockFails, CrossingAlone!CountDown,
     CrossingAlone!DecideNothing, CrossingAlone!CallCrash,
     CrossingAlone!CallWithoutProxy,
     CrossingAlone!NextTurn, CrossingAlone!mainVars, CrossingAlone!curVars,
     CrossingAlone!reqVars, CrossingAlone!gpioVars, CrossingAlone!flowVars,
     CrossingAlone!BehaviorRegulated, CrossingAlone!Behaviors,
     CrossingAlone!BehaviorUnregulated, CrossingAlone!BehaviorManual,
     CrossingAlone!Next, CrossingAlone!TimerStep
<1>2. CASE Crossing!DecideCall \/ Crossing!Commit \/ Crossing!Refuse
           \/ Crossing!SyncAndUnlock \/ Crossing!WriteModeToFile
  <2>1. CrossingAlone!ModeToSet = Crossing!ModeToSet
    BY DEF Crossing!ModeToSet, Crossing!GetNextRegulatedMode, CrossingAlone!ModeToSet,
       CrossingAlone!GetNextRegulatedMode, Crossing!BehaviorManual,
       Crossing!BehaviorUnregulated, CrossingAlone!BehaviorManual,
       CrossingAlone!BehaviorUnregulated,
       Crossing!Unregulated1BlinkYellow2BlinkYellow, Crossing!Regulated1Green2Red,
       Crossing!Regulated1BlinkGreen2Red, Crossing!Regulated1Yellow2RedYellow,
       Crossing!Regulated1Red2Green, Crossing!Regulated1Red2BlinkGreen,
       Crossing!Regulated1RedYellow2Yellow,
       CrossingAlone!Unregulated1BlinkYellow2BlinkYellow,
       CrossingAlone!Regulated1Green2Red,
       CrossingAlone!Regulated1BlinkGreen2Red, CrossingAlone!Regulated1Yellow2RedYellow,
       CrossingAlone!Regulated1Red2Green, CrossingAlone!Regulated1Red2BlinkGreen,
       CrossingAlone!Regulated1RedYellow2Yellow
  <2>2. CrossingAlone!GetNextDuration(resultMode) = Crossing!GetNextDuration(resultMode)
    BY DEF Crossing!GetNextDuration, CrossingAlone!GetNextDuration,
       Crossing!BlinkGreenDuration, Crossing!RedYellowDuration,
       CrossingAlone!BlinkGreenDuration, CrossingAlone!RedYellowDuration,
       Crossing!Regulated1Green2Red,
       Crossing!Regulated1BlinkGreen2Red, Crossing!Regulated1Yellow2RedYellow,
       Crossing!Regulated1Red2Green, Crossing!Regulated1Red2BlinkGreen,
       Crossing!Regulated1RedYellow2Yellow,
       CrossingAlone!Regulated1Green2Red,
       CrossingAlone!Regulated1BlinkGreen2Red, CrossingAlone!Regulated1Yellow2RedYellow,
       CrossingAlone!Regulated1Red2Green, CrossingAlone!Regulated1Red2BlinkGreen,
       CrossingAlone!Regulated1RedYellow2Yellow
  <2> QED
    BY <1>2, <2>1, <2>2
    DEF Crossing!DecideCall, Crossing!Commit, Crossing!Refuse, Crossing!SyncAndUnlock,
       Crossing!WriteModeToFile, Crossing!NextTurn, Crossing!mainVars,
       Crossing!curVars, Crossing!reqVars, Crossing!gpioVars, Crossing!flowVars,
       Crossing!Behaviors, Crossing!BehaviorRegulated, Crossing!BehaviorUnregulated,
       Crossing!BehaviorManual, Crossing!ImplTimerStop,
       CrossingAlone!DecideCall, CrossingAlone!Commit, CrossingAlone!Refuse,
       CrossingAlone!SyncAndUnlock, CrossingAlone!WriteModeToFile,
       CrossingAlone!NextTurn, CrossingAlone!mainVars, CrossingAlone!curVars,
       CrossingAlone!reqVars, CrossingAlone!gpioVars, CrossingAlone!flowVars,
       CrossingAlone!Behaviors, CrossingAlone!BehaviorRegulated,
       CrossingAlone!BehaviorUnregulated, CrossingAlone!BehaviorManual,
       CrossingAlone!ImplTimerStop, CrossingAlone!Next, CrossingAlone!TimerStep
<1>3. CASE Crossing!CallGranted \/ Crossing!CallDenied \/ Crossing!CallReturns
  <2>1. CrossingAlone!SetCrossLightsRequest(callMode)
            = Crossing!SetCrossLightsRequest(callMode)
    BY DEF Crossing!SetCrossLightsRequest, Crossing!Dir1Color, Crossing!Dir2Color,
       Crossing!GetColorName, CrossingAlone!SetCrossLightsRequest,
       CrossingAlone!Dir1Color, CrossingAlone!Dir2Color, CrossingAlone!GetColorName
  <2>2. \A flow : CrossingAlone!FlowTransitions(flow) = Crossing!FlowTransitions(flow)
    BY DEF Crossing!FlowTransitions, CrossingAlone!FlowTransitions
  <2>3. CrossingAlone!PermittedModes = Crossing!PermittedModes
    BY DEF Crossing!PermittedModes, CrossingAlone!PermittedModes
  <2> HIDE DEF Crossing!PermittedModes
  <2>4. \A msg : CrossingAlone!Permits(msg) <=> Crossing!Permits(msg)
    BY <2>2, <2>3 DEF Crossing!Permits, CrossingAlone!Permits
  <2>5. \A flow, color :
            CrossingAlone!AfterDenial(flow, color) = Crossing!AfterDenial(flow, color)
    BY <2>2 DEF Crossing!AfterDenial, CrossingAlone!AfterDenial
  <2>6. CASE Crossing!CallGranted
    BY <2>6, <2>1, <2>4 DEF Crossing!CallGranted, Crossing!Grant,
       Crossing!GpioReceive, Crossing!mainVars, Crossing!curVars, Crossing!reqVars,
       CrossingAlone!CallGranted, CrossingAlone!Grant, CrossingAlone!GpioReceive,
       CrossingAlone!mainVars, CrossingAlone!curVars, CrossingAlone!reqVars,
       CrossingAlone!Next, CrossingAlone!TimerStep
  <2>7. CASE Crossing!CallDenied
    BY <2>7, <2>1, <2>4, <2>5 DEF Crossing!CallDenied, Crossing!Deny,
       Crossing!mainVars, Crossing!curVars, Crossing!reqVars, Crossing!gpioVars,
       CrossingAlone!CallDenied, CrossingAlone!Deny, CrossingAlone!gpioVars,
       CrossingAlone!mainVars, CrossingAlone!curVars, CrossingAlone!reqVars,
       CrossingAlone!Next, CrossingAlone!TimerStep
  <2>8. CASE Crossing!CallReturns
    BY <2>8 DEF Crossing!CallReturns, Crossing!GpioReply, Crossing!flowVars,
       Crossing!mainVars, Crossing!curVars, Crossing!reqVars,
       CrossingAlone!CallReturns, CrossingAlone!GpioReply, CrossingAlone!flowVars,
       CrossingAlone!mainVars, CrossingAlone!curVars, CrossingAlone!reqVars,
       CrossingAlone!Next, CrossingAlone!TimerStep
  <2> QED
    BY <1>3, <2>6, <2>7, <2>8
<1> QED
  BY <1>1, <1>2, <1>3 DEF Crossing!TimerStep

(* What CrossStep does apart from the turns of the timer thread. *)
LEMMA CrossingServes ==
    ASSUME Health, Crossing!BootStep \/ Crossing!ServeStep \/ Crossing!GpioStep
    PROVE  CrossingAlone!Next
<1>1. UNCHANGED health => OwnHealth' = OwnHealth
  BY DEF OwnHealth
<1>2. CASE Crossing!Hello \/ Crossing!LogSchedule
  <2>1. ASSUME NEW code, Crossing!Collect("CrossController", code)
        PROVE  CrossingAlone!Collect("CrossController", code)
    BY <2>1, OwnReport DEF Crossing!Collect, CrossingAlone!Collect
  <2> QED
    BY <1>2, <2>1 DEF Crossing!Hello, Crossing!LogSchedule, Crossing!timerVars,
       Crossing!curVars, Crossing!reqVars, Crossing!gpioVars, Crossing!flowVars,
       Crossing!NoSchedule,
       CrossingAlone!Hello, CrossingAlone!LogSchedule, CrossingAlone!timerVars,
       CrossingAlone!curVars, CrossingAlone!reqVars, CrossingAlone!gpioVars,
       CrossingAlone!flowVars, CrossingAlone!NoSchedule,
       CrossingAlone!Next, CrossingAlone!BootStep, CrossingAlone!ServeStep
<1>3. CASE Crossing!GpioStep
  <2>1. ASSUME NEW code, Crossing!Collect("LightsGPIO", code)
        PROVE  CrossingAlone!Collect("LightsGPIO", code)
    BY <2>1, OwnReport DEF Crossing!Collect, CrossingAlone!Collect
  <2> QED
    BY <1>1, <1>3, <2>1 DEF Crossing!GpioStep, Crossing!GpioHello,
       Crossing!SetCrossLights, Crossing!GpioReport, Crossing!mainVars,
       Crossing!timerVars, Crossing!curVars, Crossing!reqVars, Crossing!flowVars,
       CrossingAlone!GpioStep, CrossingAlone!GpioHello,
       CrossingAlone!SetCrossLights, CrossingAlone!GpioReport,
       CrossingAlone!mainVars, CrossingAlone!timerVars, CrossingAlone!curVars,
       CrossingAlone!reqVars, CrossingAlone!flowVars, CrossingAlone!Next
<1>4. CASE Crossing!CreateTimerThread \/ Crossing!InitProxies \/ Crossing!CreateModeFile
           \/ Crossing!LockSchedule \/ Crossing!UpdateSchedule
  BY <1>1, <1>4 DEF Crossing!CreateTimerThread, Crossing!InitProxies,
     Crossing!CreateModeFile, Crossing!LockSchedule, Crossing!UpdateSchedule,
     Crossing!NoFile, Crossing!EmptyFile, Crossing!timerVars, Crossing!curVars,
     Crossing!reqVars, Crossing!gpioVars, Crossing!flowVars,
     CrossingAlone!CreateTimerThread, CrossingAlone!InitProxies,
     CrossingAlone!CreateModeFile, CrossingAlone!LockSchedule,
     CrossingAlone!UpdateSchedule,
     CrossingAlone!NoFile, CrossingAlone!EmptyFile, CrossingAlone!timerVars,
     CrossingAlone!curVars, CrossingAlone!reqVars, CrossingAlone!gpioVars,
     CrossingAlone!flowVars, CrossingAlone!Next, CrossingAlone!BootStep,
     CrossingAlone!ServeStep
<1> QED
  BY <1>2, <1>3, <1>4 DEF Crossing!BootStep, Crossing!ServeStep

LEMMA TurnReportsNothing == Crossing!TimerStep => OwnHealth' = OwnHealth
<1>1. Crossing!TimerStep => UNCHANGED health
  BY DEF Crossing!TimerStep, Crossing!TryLock, Crossing!TryLockFails,
     Crossing!DecideCall, Crossing!CountDown, Crossing!DecideNothing,
     Crossing!CallCrash, Crossing!CallWithoutProxy, Crossing!CallGranted,
     Crossing!CallDenied, Crossing!CallReturns, Crossing!Commit, Crossing!Refuse,
     Crossing!SyncAndUnlock, Crossing!WriteModeToFile
<1> QED
  BY <1>1 DEF OwnHealth

(* A call of ControlSystem is one of the schedules CrossController expects. *)
LEMMA CrossingCalled ==
    ASSUME Values', SetCrossSchedule
    PROVE  CrossingAlone!ReceiveSchedule \/ UNCHANGED CrossingAlone!vars
<1>1. OwnHealth' = OwnHealth
  BY DEF SetCrossSchedule, Rounds!SetCrossSchedule, OwnHealth
<1>2. CASE ReceiveSchedule
  <2>1. req' \in AnySchedule
    BY <1>2 DEF ReceiveSchedule, Values
  <2> HIDE DEF AnySchedule
  <2> QED
    BY <1>1, <1>2, <2>1 DEF ReceiveSchedule, CrossingAlone!ReceiveSchedule,
       CrossingAlone!timerVars, CrossingAlone!curVars, CrossingAlone!reqVars,
       CrossingAlone!gpioVars, CrossingAlone!flowVars
<1>3. CASE CrossingGone
  BY <1>1, <1>3 DEF CrossingGone, crossVars, CrossingAlone!vars,
     CrossingAlone!mainVars, CrossingAlone!timerVars, CrossingAlone!curVars,
     CrossingAlone!reqVars, CrossingAlone!gpioVars, CrossingAlone!flowVars
<1> QED
  BY <1>2, <1>3 DEF SetCrossSchedule

LEMMA CrossingUntouched ==
    ASSUME UNCHANGED crossVars, OwnHealth' = OwnHealth
    PROVE  UNCHANGED CrossingAlone!vars
  BY DEF crossVars, CrossingAlone!vars, CrossingAlone!mainVars,
     CrossingAlone!timerVars, CrossingAlone!curVars, CrossingAlone!reqVars,
     CrossingAlone!gpioVars, CrossingAlone!flowVars

LEMMA CrossingStep ==
    ASSUME Health, Values', [Next]_vars
    PROVE  [CrossingAlone!Next]_CrossingAlone!vars
<1>1. CASE SetCrossSchedule
  BY <1>1, CrossingCalled DEF CrossingAlone!Next
<1>2. CASE CrossStep
  BY <1>2, CrossingTurn, TurnReportsNothing, CrossingServes DEF CrossStep, TimerTurn
<1>3. CASE RoundStep \/ ConnectorStep \/ ServerStep \/ OperatorPosts
  <2>1. UNCHANGED crossVars
    BY <1>3 DEF RoundStep, ConnectorStep, ServerStep, OperatorPosts
  <2>2. OwnHealth' = OwnHealth
    <3>1. UNCHANGED health => OwnHealth' = OwnHealth
      BY DEF OwnHealth
    <3> QED
      BY <1>3, <3>1, RoundsCollect, OthersReport
  <2> QED
    BY <2>1, <2>2, CrossingUntouched
<1>4. CASE Tick \/ UNCHANGED vars
  <2>1. UNCHANGED crossVars /\ UNCHANGED health
    BY <1>4 DEF Tick, vars
  <2> QED
    BY <2>1, CrossingUntouched DEF OwnHealth
<1> QED
  BY <1>1, <1>2, <1>3, <1>4 DEF Next

(* Whatever the operator posts, whatever garbage a failed call leaves in   *)
(* ControlSystem and whatever fails, CrossController and LightsGPIO are    *)
(* used as CrossController.tla supposes.                                   *)
THEOREM RefinesCrossing == Spec => ImplementsCrossing
<1>1. Health /\ Values' /\ [Next]_vars => [CrossingAlone!Next]_CrossingAlone!vars
  BY CrossingStep
<1> QED
  BY <1>1, CrossingInit, HealthInvariant, ValuesInvariant, PTL
  DEF Spec, ImplementsCrossing, CrossingAlone!Spec
-----------------------------------------------------------------------------
(***************************************************************************)
(* What CrossController guarantees therefore holds of the whole system.    *)
(***************************************************************************)
CrossingFacts == INSTANCE CrossControllerProofs WITH
    Schedules <- AnySchedule, health <- OwnHealth

LEMMA SameCrossingNext ==
    [CrossingAlone!Next]_CrossingAlone!vars => [CrossingFacts!Next]_CrossingFacts!vars
  BY Zenon DEF
     CrossingAlone!BootStep, CrossingAlone!CreateTimerThread,
     CrossingAlone!InitProxies, CrossingAlone!Hello,
     CrossingAlone!CreateModeFile, CrossingAlone!ReceiveSchedule,
     CrossingAlone!ServeStep, CrossingAlone!LockSchedule,
     CrossingAlone!UpdateSchedule, CrossingAlone!LogSchedule,
     CrossingAlone!TimerStep, CrossingAlone!TryLock,
     CrossingAlone!TryLockFails, CrossingAlone!DecideCall,
     CrossingAlone!CountDown, CrossingAlone!DecideNothing,
     CrossingAlone!CallCrash, CrossingAlone!CallWithoutProxy,
     CrossingAlone!CallGranted, CrossingAlone!CallDenied,
     CrossingAlone!CallReturns, CrossingAlone!Commit,
     CrossingAlone!Refuse, CrossingAlone!SyncAndUnlock,
     CrossingAlone!WriteModeToFile, CrossingAlone!GpioStep,
     CrossingAlone!GpioHello, CrossingAlone!SetCrossLights,
     CrossingAlone!GpioReport, CrossingAlone!Crashed,
     CrossingAlone!Collect, CrossingAlone!NextTurn,
     CrossingAlone!ModeToSet, CrossingAlone!GetNextRegulatedMode,
     CrossingAlone!GetNextDuration, CrossingAlone!BlinkGreenDuration,
     CrossingAlone!RedYellowDuration, CrossingAlone!Behaviors,
     CrossingAlone!BehaviorRegulated, CrossingAlone!BehaviorUnregulated,
     CrossingAlone!BehaviorManual, CrossingAlone!ImplTimerStop,
     CrossingAlone!NoFile, CrossingAlone!EmptyFile,
     CrossingAlone!NoSchedule, CrossingAlone!SetCrossLightsRequest,
     CrossingAlone!Dir1Color, CrossingAlone!Dir2Color,
     CrossingAlone!GetColorName, CrossingAlone!Grant, CrossingAlone!Deny,
     CrossingAlone!Permits, CrossingAlone!FlowTransitions,
     CrossingAlone!AfterDenial, CrossingAlone!PermittedModes,
     CrossingAlone!GpioReceive, CrossingAlone!GpioReply,
     CrossingAlone!vars, CrossingAlone!mainVars, CrossingAlone!timerVars,
     CrossingAlone!curVars, CrossingAlone!reqVars, CrossingAlone!gpioVars,
     CrossingAlone!flowVars, CrossingAlone!Regulated1Green2Red,
     CrossingAlone!Regulated1BlinkGreen2Red,
     CrossingAlone!Regulated1Yellow2RedYellow,
     CrossingAlone!Regulated1Red2Green,
     CrossingAlone!Regulated1Red2BlinkGreen,
     CrossingAlone!Regulated1RedYellow2Yellow,
     CrossingAlone!Unregulated1BlinkYellow2BlinkYellow,
     CrossingAlone!Next, CrossingFacts!BootStep,
     CrossingFacts!CreateTimerThread, CrossingFacts!InitProxies,
     CrossingFacts!Hello, CrossingFacts!CreateModeFile,
     CrossingFacts!ReceiveSchedule, CrossingFacts!ServeStep,
     CrossingFacts!LockSchedule, CrossingFacts!UpdateSchedule,
     CrossingFacts!LogSchedule, CrossingFacts!TimerStep,
     CrossingFacts!TryLock, CrossingFacts!TryLockFails,
     CrossingFacts!DecideCall, CrossingFacts!CountDown,
     CrossingFacts!DecideNothing, CrossingFacts!CallCrash,
     CrossingFacts!CallWithoutProxy, CrossingFacts!CallGranted,
     CrossingFacts!CallDenied, CrossingFacts!CallReturns,
     CrossingFacts!Commit, CrossingFacts!Refuse,
     CrossingFacts!SyncAndUnlock, CrossingFacts!WriteModeToFile,
     CrossingFacts!GpioStep, CrossingFacts!GpioHello,
     CrossingFacts!SetCrossLights, CrossingFacts!GpioReport,
     CrossingFacts!Crashed, CrossingFacts!Collect, CrossingFacts!NextTurn,
     CrossingFacts!ModeToSet, CrossingFacts!GetNextRegulatedMode,
     CrossingFacts!GetNextDuration, CrossingFacts!BlinkGreenDuration,
     CrossingFacts!RedYellowDuration, CrossingFacts!Behaviors,
     CrossingFacts!BehaviorRegulated, CrossingFacts!BehaviorUnregulated,
     CrossingFacts!BehaviorManual, CrossingFacts!ImplTimerStop,
     CrossingFacts!NoFile, CrossingFacts!EmptyFile,
     CrossingFacts!NoSchedule, CrossingFacts!SetCrossLightsRequest,
     CrossingFacts!Dir1Color, CrossingFacts!Dir2Color,
     CrossingFacts!GetColorName, CrossingFacts!Grant, CrossingFacts!Deny,
     CrossingFacts!Permits, CrossingFacts!FlowTransitions,
     CrossingFacts!AfterDenial, CrossingFacts!PermittedModes,
     CrossingFacts!GpioReceive, CrossingFacts!GpioReply,
     CrossingFacts!vars, CrossingFacts!mainVars, CrossingFacts!timerVars,
     CrossingFacts!curVars, CrossingFacts!reqVars, CrossingFacts!gpioVars,
     CrossingFacts!flowVars, CrossingFacts!Regulated1Green2Red,
     CrossingFacts!Regulated1BlinkGreen2Red,
     CrossingFacts!Regulated1Yellow2RedYellow,
     CrossingFacts!Regulated1Red2Green,
     CrossingFacts!Regulated1Red2BlinkGreen,
     CrossingFacts!Regulated1RedYellow2Yellow,
     CrossingFacts!Unregulated1BlinkYellow2BlinkYellow, CrossingFacts!Next

LEMMA SameCrossing == CrossingAlone!Spec => CrossingFacts!Spec
<1>1. CrossingAlone!Init => CrossingFacts!Init
  BY DEF CrossingAlone!Init, CrossingAlone!GpioInit, CrossingAlone!MonitorInit,
     CrossingAlone!DiagnosticsInit, CrossingAlone!Sources, CrossingAlone!NoEvent,
     CrossingAlone!DefaultLightsMode, CrossingAlone!NoSchedule, CrossingAlone!NoFile,
     CrossingAlone!Unregulated1BlinkYellow2BlinkYellow,
     CrossingAlone!BehaviorUnregulated,
     CrossingFacts!Init, CrossingFacts!GpioInit, CrossingFacts!MonitorInit,
     CrossingFacts!DiagnosticsInit, CrossingFacts!Sources, CrossingFacts!NoEvent,
     CrossingFacts!DefaultLightsMode, CrossingFacts!NoSchedule, CrossingFacts!NoFile,
     CrossingFacts!Unregulated1BlinkYellow2BlinkYellow,
     CrossingFacts!BehaviorUnregulated
<1> QED
  BY <1>1, SameCrossingNext, PTL DEF CrossingAlone!Spec, CrossingFacts!Spec

(* The assumptions of CrossController hold here. *)
LEMMA CrossingAssumed ==
    /\ DenyRollsBack \in BOOLEAN
    /\ AnySchedule \subseteq [behavior : Int, crossMode : Int,
                              dir1Duration : Nat, dir2Duration : Nat]
<1>1. 0 .. 2 * IntHalf - 1 \subseteq Nat
  BY ConstantsType
<1> QED
  BY <1>1, ConstantsType DEF AnySchedule

(* Whatever the server sends, and whatever becomes of it on the way to     *)
(* CrossController, the lamps of the two directions never conflict.        *)
THEOREM LampsNeverConflict == Spec => []CrossingFacts!Secured!NoConflict
<1>1. CrossingFacts!Spec => []CrossingFacts!Secured!NoConflict
  BY CrossingFacts!LampsNeverConflict, CrossingAssumed
<1> QED
  BY <1>1, RefinesCrossing, SameCrossing, PTL DEF ImplementsCrossing

(* End to end the traffic light is an intersection: from the server down   *)
(* to the lamps every change is a permitted mode led to, if the monitor    *)
(* forgets denied requests.                                                *)
THEOREM TrafficIsAnIntersection ==
    ASSUME DenyRollsBack
    PROVE  Spec => CrossingFacts!ImplementsIntersection
<1>1. CrossingFacts!Spec => CrossingFacts!ImplementsIntersection
  BY CrossingFacts!RefinesIntersection, CrossingAssumed
<1> QED
  BY <1>1, RefinesCrossing, SameCrossing, PTL DEF ImplementsCrossing

(* End to end no step of the cycle is refused, whatever the server sends.  *)
THEOREM CycleIsNeverRefused ==
    ASSUME DenyRollsBack
    PROVE  Spec => CrossingFacts!CycleNeverRefused
<1>1. CrossingFacts!Spec => CrossingFacts!CycleNeverRefused
  BY CrossingFacts!CycleIsNeverRefused, CrossingAssumed
<1> QED
  BY <1>1, RefinesCrossing, SameCrossing, PTL DEF ImplementsCrossing
-----------------------------------------------------------------------------
(***************************************************************************)
(* The rounds.                                                             *)
(***************************************************************************)

(* What CrossController and LightsGPIO are about to report is a permitted  *)
(* mode.                                                                   *)
Reports ==
    /\ main = "log" => snapshot \in Crossing!PermittedModes
    /\ gpio = "report" => lights \in Crossing!PermittedModes

LEMMA ReportsInvariant == Spec => []Reports
<1>1. CrossingFacts!PermittedModes = Crossing!PermittedModes
  BY DEF CrossingFacts!PermittedModes, Crossing!PermittedModes
<1>2. /\ CrossingFacts!ClientInv /\ CrossingFacts!ServeInv /\ CrossingFacts!LampInv
      => Reports
  BY <1>1 DEF CrossingFacts!ClientInv, CrossingFacts!ServeInv,
     CrossingFacts!LampInv, Reports
<1>3. CrossingFacts!Spec =>
          [](CrossingFacts!TypeOK /\ CrossingFacts!CallInv
             /\ CrossingFacts!ServeInv /\ CrossingFacts!LampInv)
  BY CrossingFacts!CallInvariant, CrossingAssumed
<1>4. CrossingFacts!Spec => []CrossingFacts!ClientInv
  BY CrossingFacts!ClientInvariant, CrossingAssumed
<1> QED
  BY <1>2, <1>3, <1>4, RefinesCrossing, SameCrossing, PTL DEF ImplementsCrossing

LEMMA CrossStepReports ==
    ASSUME Reports, CrossStep
    PROVE  Rounds!OtherEvent \/ UNCHANGED Rounds!vars
<1>1. UNCHANGED <<Rounds!controlVars, Rounds!connectorVars, tlMode, received>>
  BY DEF CrossStep, roundVars, Rounds!controlVars, Rounds!connectorVars
<1>2. CASE UNCHANGED health
  BY <1>1, <1>2 DEF Rounds!vars
<1>3. ASSUME NEW source \in {"CrossController", "LightsGPIO"},
             NEW code \in Crossing!PermittedModes \cup {0},
             health' = [health EXCEPT ![source] = code]
      PROVE  Rounds!OtherEvent
  BY <1>1, <1>3 DEF Rounds!OtherEvent, Rounds!Collect
<1>4. \/ UNCHANGED health
      \/ \E source \in {"CrossController", "LightsGPIO"},
            code \in Crossing!PermittedModes \cup {0} :
             health' = [health EXCEPT ![source] = code]
  <2> HIDE DEF Crossing!PermittedModes
  <2>1. CASE Crossing!TimerStep
    BY <2>1 DEF Crossing!TimerStep, Crossing!TryLock, Crossing!TryLockFails,
       Crossing!DecideCall, Crossing!CountDown, Crossing!DecideNothing,
       Crossing!CallCrash, Crossing!CallWithoutProxy, Crossing!CallGranted,
       Crossing!CallDenied, Crossing!CallReturns, Crossing!Commit, Crossing!Refuse,
       Crossing!SyncAndUnlock, Crossing!WriteModeToFile
  <2>2. CASE Crossing!BootStep \/ Crossing!ServeStep
    BY <2>2 DEF Crossing!BootStep, Crossing!CreateTimerThread,
       Crossing!InitProxies, Crossing!Hello, Crossing!CreateModeFile,
       Crossing!ServeStep, Crossing!LockSchedule, Crossing!UpdateSchedule,
       Crossing!LogSchedule, Crossing!Collect, Reports
  <2>3. CASE Crossing!GpioStep
    BY <2>3 DEF Crossing!GpioStep, Crossing!GpioHello, Crossing!SetCrossLights,
       Crossing!GpioReport, Crossing!Collect, Reports
  <2> QED
    BY <2>1, <2>2, <2>3 DEF CrossStep, TimerTurn
<1> QED
  BY <1>2, <1>3, <1>4

(* What CrossController and LightsGPIO do is, to ControlSystem and the     *)
(* Connector, a report to Diagnostics that ControlSystem.tla expects, or   *)
(* nothing; and nothing that drives CrossController disturbs the rounds.   *)
THEOREM RefinesRounds == Spec => ImplementsRounds
<1>1. Init => Rounds!Init
  BY DEF Init
<1>2. Reports /\ [Next]_vars => [Rounds!Next]_Rounds!vars
  <2> SUFFICES ASSUME Reports, [Next]_vars
               PROVE  [Rounds!Next]_Rounds!vars
    OBVIOUS
  <2>1. CASE RoundStep \/ SetCrossSchedule
    BY <2>1 DEF RoundStep, SetCrossSchedule, Rounds!Next, Rounds!ControlStep
  <2>2. CASE ConnectorStep \/ ServerStep \/ OperatorPosts
    BY <2>2 DEF ConnectorStep, ServerStep, OperatorPosts, Rounds!Next
  <2>3. CASE CrossStep
    BY <2>3, CrossStepReports DEF Rounds!Next
  <2>4. CASE Tick \/ UNCHANGED vars
    BY <2>4 DEF Tick, vars, roundVars, Rounds!vars, Rounds!controlVars,
       Rounds!connectorVars
  <2> QED
    BY <2>1, <2>2, <2>3, <2>4 DEF Next
<1> QED
  BY <1>1, <1>2, ReportsInvariant, PTL DEF Spec, ImplementsRounds, Rounds!Spec
-----------------------------------------------------------------------------
(***************************************************************************)
(* What ControlSystem guarantees therefore holds of the whole system.      *)
(***************************************************************************)
LEMMA SameParseAnswer == Rounds!ParseAnswer <=> RoundsFacts!ParseAnswer
  BY SameParse DEF Rounds!ParseAnswer, RoundsFacts!ParseAnswer

LEMMA SameRoundsNext == [Rounds!Next]_Rounds!vars => [RoundsFacts!Next]_RoundsFacts!vars
  BY SameParseAnswer DEF
     Rounds!Next, Rounds!ControlStep, Rounds!Hello, Rounds!SelfDiagnostic,
     Rounds!CallGetTrafficMode, Rounds!GetTrafficModeReturns,
     Rounds!GetTrafficModeAsserts, Rounds!GetTrafficModeFails,
     Rounds!SetCrossSchedule, Rounds!CallSendDiagnostics,
     Rounds!SendDiagnosticsReturns, Rounds!SendDiagnosticsFails,
     Rounds!Wake, Rounds!Greet, Rounds!ConnectorStep, Rounds!ServerStep,
     Rounds!OperatorPosts, Rounds!OtherEvent, Rounds!ConnectorHello,
     Rounds!ConnectorReceive, Rounds!ReadGarbage, Rounds!SocketFails,
     Rounds!Connect, Rounds!ConnectRefused, Rounds!ServerAnswers,
     Rounds!NothingToParse, Rounds!ParseFails, Rounds!ConnectorCrashes,
     Rounds!LogMode, Rounds!PostReport, Rounds!ReportLost,
     Rounds!ConnectorReply, Rounds!ProcessManual,
     Rounds!ProcessDiagnostics, Rounds!Collect, Rounds!Sources,
     Rounds!NoEvent, Rounds!Lost, Rounds!Unreadable, Rounds!EmptyResponse,
     Rounds!Accepts, Rounds!HasMember, Rounds!Member, Rounds!Text,
     Rounds!KnownModes, Rounds!BehaviorsOf, Rounds!BehaviorRegulated,
     Rounds!BehaviorUnregulated, Rounds!BehaviorManual,
     Rounds!CrossModeOf, Rounds!GetColorMode, Rounds!AsUInt, Rounds!vars,
     Rounds!controlVars, Rounds!connectorVars, RoundsFacts!Next,
     RoundsFacts!ControlStep, RoundsFacts!Hello,
     RoundsFacts!SelfDiagnostic, RoundsFacts!CallGetTrafficMode,
     RoundsFacts!GetTrafficModeReturns, RoundsFacts!GetTrafficModeAsserts,
     RoundsFacts!GetTrafficModeFails, RoundsFacts!SetCrossSchedule,
     RoundsFacts!CallSendDiagnostics, RoundsFacts!SendDiagnosticsReturns,
     RoundsFacts!SendDiagnosticsFails, RoundsFacts!Wake,
     RoundsFacts!Greet, RoundsFacts!ConnectorStep, RoundsFacts!ServerStep,
     RoundsFacts!OperatorPosts, RoundsFacts!OtherEvent,
     RoundsFacts!ConnectorHello, RoundsFacts!ConnectorReceive,
     RoundsFacts!ReadGarbage, RoundsFacts!SocketFails,
     RoundsFacts!Connect, RoundsFacts!ConnectRefused,
     RoundsFacts!ServerAnswers, RoundsFacts!NothingToParse,
     RoundsFacts!ParseFails, RoundsFacts!ConnectorCrashes,
     RoundsFacts!LogMode, RoundsFacts!PostReport, RoundsFacts!ReportLost,
     RoundsFacts!ConnectorReply, RoundsFacts!ProcessManual,
     RoundsFacts!ProcessDiagnostics, RoundsFacts!Collect,
     RoundsFacts!Sources, RoundsFacts!NoEvent, RoundsFacts!Lost,
     RoundsFacts!Unreadable, RoundsFacts!EmptyResponse,
     RoundsFacts!Accepts, RoundsFacts!HasMember, RoundsFacts!Member,
     RoundsFacts!Text, RoundsFacts!KnownModes, RoundsFacts!BehaviorsOf,
     RoundsFacts!BehaviorRegulated, RoundsFacts!BehaviorUnregulated,
     RoundsFacts!BehaviorManual, RoundsFacts!CrossModeOf,
     RoundsFacts!GetColorMode, RoundsFacts!AsUInt, RoundsFacts!vars,
     RoundsFacts!controlVars, RoundsFacts!connectorVars

LEMMA SameRounds == Rounds!Spec => RoundsFacts!Spec
<1>1. Rounds!Init => RoundsFacts!Init
  BY DEF Rounds!Init, Rounds!ConnectorInit, Rounds!DiagnosticsInit, Rounds!Sources,
     Rounds!NoEvent, Rounds!DefaultMode, Rounds!Member, Rounds!Text, Rounds!NoReport,
     Rounds!NoSchedule, Rounds!Lost, Rounds!EmptyResponse,
     RoundsFacts!Init, RoundsFacts!ConnectorInit, RoundsFacts!DiagnosticsInit,
     RoundsFacts!Sources, RoundsFacts!NoEvent, RoundsFacts!DefaultMode,
     RoundsFacts!Member, RoundsFacts!Text, RoundsFacts!NoReport,
     RoundsFacts!NoSchedule, RoundsFacts!Lost, RoundsFacts!EmptyResponse
<1> QED
  BY <1>1, SameRoundsNext, PTL DEF Rounds!Spec, RoundsFacts!Spec

(* With CrossController and LightsGPIO in their places, and schedules that *)
(* take as long to be answered as the timer thread likes, CrossController  *)
(* is still called with what the server's mode meant at one moment of the  *)
(* round.                                                                  *)
THEOREM SchedulesFollowServer ==
    ASSUME \A data \in Posts : RoundsFacts!Accepts(data) => RoundsFacts!Flat(data)
    PROVE  Spec => RoundsFacts!ImplementsPolling
<1>1. RoundsFacts!Spec => RoundsFacts!ImplementsPolling
  BY RoundsFacts!RefinesPolling, RoundsAssumed
<1> QED
  BY <1>1, RefinesRounds, SameRounds, PTL DEF ImplementsRounds

(* End to end the server learns of CrossController and LightsGPIO only     *)
(* modes the policy permits, and greetings, and never that they have       *)
(* reported nothing once they have.                                        *)
THEOREM ReportsStayGenuine == Spec => RoundsFacts!ReportsAreGenuine
<1>1. RoundsFacts!NoEvent \notin Crossing!PermittedModes \cup {0}
  BY DEF RoundsFacts!NoEvent, Crossing!PermittedModes
<1>2. RoundsFacts!Spec => RoundsFacts!ReportsAreGenuine
  BY <1>1, RoundsFacts!ReportsStayGenuine, RoundsAssumed
<1> QED
  BY <1>2, RefinesRounds, SameRounds, PTL DEF ImplementsRounds
-----------------------------------------------------------------------------
(***************************************************************************)
(* Reports.                                                                *)
(***************************************************************************)

(* Diagnostics knows the mode the lamps show, but for a moment that takes  *)
(* no time: the one before the greeting, and the one before the report.    *)
KnownInv ==
    /\ gpio = "boot" => lights = Crossing!DefaultLightsMode
    /\ \/ ModeOf(health["LightsGPIO"]) = lights
       \/ gpio \in {"boot", "report"} /\ steady = 0

OnItsWay(phase) == phase \in {"poll", "await mode", "schedule", "report", "await report"}

(* The inductive invariant behind ReportIsFresh: if the lamps are those of *)
(* the second before the round, Diagnostics has had the time to know them, *)
(* and the codes ControlSystem has collected name them.                    *)
FreshInv ==
    /\ unchanged => steady > 0
    /\ OnItsWay(control) /\ unchanged => ModeOf(sysHealth["LightsGPIO"]) = lights

(* What is known of the rounds alone. *)
RoundInv ==
    /\ connector = "connected" /\ serving = "health" => control = "await report"
    /\ DOMAIN sysHealth = Rounds!Sources \cup {"Diagnostics"}

LEMMA RoundInvariant == Spec => []RoundInv
<1>1. RoundsFacts!TypeInv /\ RoundsFacts!PollInv => RoundInv
  <2>1. RoundsFacts!TypeOK => DOMAIN sysHealth = Rounds!Sources \cup {"Diagnostics"}
    BY DEF RoundsFacts!TypeOK, Rounds!Sources, RoundsFacts!Sources
  <2>2. RoundsFacts!TurnInv =>
            (connector = "connected" /\ serving = "health" => control = "await report")
    BY DEF RoundsFacts!TurnInv, RoundsFacts!Lost
  <2> QED
    BY <2>1, <2>2, Zenon
    DEF RoundsFacts!TypeInv, RoundsFacts!PollInv, RoundInv
<1>2. RoundsFacts!Spec => []RoundsFacts!TypeInv
  BY RoundsFacts!TypeInvariant, RoundsAssumed
<1>3. RoundsFacts!Spec => []RoundsFacts!PollInv
  BY RoundsFacts!PollInvariant, RoundsAssumed
<1> QED
  BY <1>1, <1>2, <1>3, RefinesRounds, SameRounds, PTL DEF ImplementsRounds

(* What CrossController and LightsGPIO do to the lamps and to what         *)
(* Diagnostics knows of them.                                              *)
LEMMA CrossStepLamps ==
    ASSUME CrossStep, Health
    PROVE  \/ /\ lights' = lights /\ health'["LightsGPIO"] = health["LightsGPIO"]
              /\ gpio' = gpio \/ (gpio \in {"recv", "reply"} /\ gpio' \in {"recv", "serve"})
           \/ gpio = "serve" /\ gpio' = "report" /\ health' = health
           \/ /\ gpio = "report" /\ gpio' = "reply"
              /\ lights' = lights /\ health'["LightsGPIO"] = lights
           \/ /\ gpio = "boot" /\ gpio' = "recv"
              /\ lights' = lights /\ health'["LightsGPIO"] = 0
<1>1. "LightsGPIO" \in Rounds!Sources
  BY DEF Rounds!Sources
<1>2. \A code : health' = [health EXCEPT !["LightsGPIO"] = code] =>
                    health'["LightsGPIO"] = code
  BY <1>1 DEF Health
<1>3. \A code : health' = [health EXCEPT !["CrossController"] = code] =>
                    health'["LightsGPIO"] = health["LightsGPIO"]
  BY <1>1 DEF Health
<1>4. CASE Crossing!TimerStep
  BY <1>4 DEF Crossing!TimerStep, Crossing!TryLock, Crossing!TryLockFails,
     Crossing!DecideCall, Crossing!CountDown, Crossing!DecideNothing,
     Crossing!CallCrash, Crossing!CallWithoutProxy, Crossing!CallGranted,
     Crossing!CallDenied, Crossing!CallReturns, Crossing!Commit, Crossing!Refuse,
     Crossing!SyncAndUnlock, Crossing!WriteModeToFile, Crossing!GpioReceive,
     Crossing!GpioReply, Crossing!gpioVars
<1>5. CASE Crossing!BootStep \/ Crossing!ServeStep
  BY <1>3, <1>5 DEF Crossing!BootStep, Crossing!CreateTimerThread,
     Crossing!InitProxies, Crossing!Hello, Crossing!CreateModeFile,
     Crossing!ServeStep, Crossing!LockSchedule, Crossing!UpdateSchedule,
     Crossing!LogSchedule, Crossing!Collect, Crossing!gpioVars
<1>6. CASE Crossing!GpioStep
  BY <1>2, <1>6 DEF Crossing!GpioStep, Crossing!GpioHello, Crossing!SetCrossLights,
     Crossing!GpioReport, Crossing!Collect
<1> QED
  BY <1>4, <1>5, <1>6 DEF CrossStep, TimerTurn

(* The rounds leave the lamps alone, and what Diagnostics knows of them.   *)
LEMMA RoundsLeaveLamps ==
    ASSUME \/ RoundStep \/ SetCrossSchedule \/ ConnectorStep \/ ServerStep
           \/ OperatorPosts,
           Health
    PROVE  /\ UNCHANGED <<lights, gpio, steady>>
           /\ health'["LightsGPIO"] = health["LightsGPIO"]
<1>1. UNCHANGED <<lights, gpio, steady>>
  BY DEF RoundStep, SetCrossSchedule, ReceiveSchedule, CrossingGone, ConnectorStep,
     ServerStep, OperatorPosts, crossVars, clockVars
<1>2. health'["LightsGPIO"] = health["LightsGPIO"]
  <2>1. CASE UNCHANGED health
    BY <2>1
  <2>2. ASSUME NEW source \in {"ControlSystem", "Connector"}, NEW code,
               health' = [health EXCEPT ![source] = code]
        PROVE  health'["LightsGPIO"] = health["LightsGPIO"]
    BY <2>2 DEF Health, Rounds!Sources
  <2> QED
    BY <2>1, <2>2, RoundsCollect
<1> QED
  BY <1>1, <1>2

LEMMA KnownInitially == Init => KnownInv
  BY DEF Init, Crossing!Init, Crossing!GpioInit, KnownInv

LEMMA KnownKept == KnownInv /\ Health /\ Reports /\ [Next]_vars => KnownInv'
<1> SUFFICES ASSUME KnownInv, Health, Reports, [Next]_vars
             PROVE  KnownInv'
  OBVIOUS
<1>1. CASE CrossStep
  <2>1. steady' = IF lights' = lights THEN steady ELSE 0
    BY <1>1 DEF CrossStep, LampsWatched
  <2>2. gpio = "report" => ModeOf(lights) = lights
    BY DEF Reports, ModeOf, Crossing!PermittedModes
  <2>3. ModeOf(0) = Crossing!DefaultLightsMode
    BY DEF ModeOf
  <2> QED
    BY <1>1, <2>1, <2>2, <2>3, CrossStepLamps DEF KnownInv, ModeOf
<1>2. CASE \/ RoundStep \/ SetCrossSchedule \/ ConnectorStep \/ ServerStep
           \/ OperatorPosts
  BY <1>2, RoundsLeaveLamps DEF KnownInv, ModeOf
<1>3. CASE Tick
  <2>1. gpio = "recv" /\ UNCHANGED <<lights, gpio, health>>
    BY <1>3 DEF Tick, Quiet, crossVars
  <2> QED
    BY <2>1 DEF KnownInv, ModeOf
<1>4. CASE UNCHANGED vars
  BY <1>4 DEF vars, crossVars, clockVars, KnownInv, ModeOf
<1> QED
  BY <1>1, <1>2, <1>3, <1>4 DEF Next

LEMMA KnownInvariant == Spec => []KnownInv
  BY KnownInitially, KnownKept, HealthInvariant, ReportsInvariant, PTL DEF Spec

LEMMA FreshInitially == Init => FreshInv
  BY Zenon DEF Init, Rounds!Init, FreshInv, OnItsWay

(* Lamps that change are no longer those of the second before the round.   *)
LEMMA CrossStepKeepsFresh ==
    ASSUME FreshInv, CrossStep
    PROVE  FreshInv'
<1>1. /\ steady' = IF lights' = lights THEN steady ELSE 0
      /\ unchanged' = (unchanged /\ lights' = lights)
      /\ UNCHANGED <<control, sysHealth>>
  BY DEF CrossStep, LampsWatched, roundVars
<1> QED
  BY <1>1 DEF FreshInv, OnItsWay, ModeOf

(* A report starts with what Diagnostics knows at that moment, and nothing *)
(* that happens to it on its way changes it.                               *)
LEMMA RoundStepKeepsFresh ==
    ASSUME FreshInv, KnownInv, Health, TypeOK, RoundStep
    PROVE  FreshInv'
<1>1. /\ UNCHANGED <<lights, steady>>
      /\ unchanged' = IF RoundBegins THEN steady > 0 ELSE unchanged
  BY DEF RoundStep, RoundWatched, crossVars
<1>2. unchanged' => steady' > 0
  BY <1>1 DEF FreshInv
<1>3. CASE Rounds!SelfDiagnostic
  <2>1. sysHealth'["LightsGPIO"] = health["LightsGPIO"]
    <3>1. sysHealth'["LightsGPIO"] = health'["LightsGPIO"]
      BY <1>3 DEF Rounds!SelfDiagnostic, Rounds!Sources
    <3> QED
      BY <3>1, RoundsLeaveLamps
  <2>2. unchanged' => ModeOf(health["LightsGPIO"]) = lights
    <3>1. steady > 0 => steady # 0
      BY DEF TypeOK
    <3> QED
      BY <1>1, <1>2, <3>1 DEF KnownInv
  <2> QED
    BY <1>1, <1>2, <2>1, <2>2 DEF FreshInv, ModeOf
<1>4. CASE /\ UNCHANGED <<sysHealth, unchanged>>
           /\ OnItsWay(control') => OnItsWay(control)
  BY <1>1, <1>4 DEF FreshInv, ModeOf
<1>5. CASE ~OnItsWay(control')
  BY <1>2, <1>5 DEF FreshInv
<1>6. \/ Rounds!SelfDiagnostic \/ ~OnItsWay(control')
      \/ OnItsWay(control) /\ UNCHANGED sysHealth
  BY Zenon DEF RoundStep, Rounds!Hello, Rounds!CallGetTrafficMode,
     Rounds!GetTrafficModeReturns, Rounds!GetTrafficModeAsserts,
     Rounds!GetTrafficModeFails, Rounds!CallSendDiagnostics,
     Rounds!SendDiagnosticsReturns, Rounds!SendDiagnosticsFails, Rounds!Wake, OnItsWay
<1>7. OnItsWay(control) => UNCHANGED unchanged
  BY <1>1, Zenon DEF OnItsWay, RoundBegins
<1> QED
  BY <1>3, <1>4, <1>5, <1>6, <1>7

LEMMA FreshInvariant == Spec => []FreshInv
<1>1. FreshInv /\ KnownInv /\ Health /\ TypeOK /\ [Next]_vars => FreshInv'
  <2> SUFFICES ASSUME FreshInv, KnownInv, Health, TypeOK, [Next]_vars
               PROVE  FreshInv'
    OBVIOUS
  <2>1. CASE SetCrossSchedule
    <3>1. UNCHANGED <<lights, steady, unchanged, sysHealth>>
      BY <2>1 DEF SetCrossSchedule, Rounds!SetCrossSchedule, ReceiveSchedule,
         CrossingGone, crossVars, clockVars
    <3>2. OnItsWay(control)
      BY <2>1, Zenon DEF SetCrossSchedule, Rounds!SetCrossSchedule, OnItsWay
    <3> QED
      BY <3>1, <3>2 DEF FreshInv, ModeOf
  <2>2. CASE Tick
    <3>1. UNCHANGED <<lights, unchanged, sysHealth, control>>
      BY <2>2 DEF Tick, crossVars, roundVars
    <3>2. steady > 0 => steady' > 0
      BY <2>2 DEF Tick, TypeOK
    <3> QED
      BY <3>1, <3>2 DEF FreshInv, ModeOf
  <2>3. CASE ConnectorStep \/ ServerStep \/ OperatorPosts \/ UNCHANGED vars
    <3>1. UNCHANGED <<lights, steady, unchanged, sysHealth, control>>
      BY <2>3 DEF ConnectorStep, Rounds!Greet, Rounds!ConnectorStep, ServerStep,
         Rounds!ServerStep, OperatorPosts, Rounds!OperatorPosts, Rounds!controlVars,
         crossVars, clockVars, vars, roundVars
    <3> QED
      BY <3>1 DEF FreshInv, ModeOf
  <2> QED
    BY <2>1, <2>2, <2>3, CrossStepKeepsFresh, RoundStepKeepsFresh DEF Next
<1> QED
  BY <1>1, FreshInitially, KnownInvariant, HealthInvariant, ClocksCorrect, PTL DEF Spec

(* A report that reaches the server names the mode the lamps show, unless  *)
(* they have changed since the second before its round: no number of       *)
(* attempts, no time the network takes, no lost answer, no greeting and no *)
(* schedule makes it name the mode of an earlier round.                    *)
THEOREM ReportsAreFresh == Spec => ReportIsFresh
<1>1. FreshInv /\ RoundInv =>
          (ReportSent /\ unchanged => ModeOf(received'["LightsGPIO"]) = lights)
  <2> SUFFICES ASSUME FreshInv, RoundInv, ReportSent, unchanged
               PROVE  ModeOf(received'["LightsGPIO"]) = lights
    OBVIOUS
  <2>1. connector = "connected" /\ serving = "health"
    BY DEF ReportSent, Rounds!PostReport
  <2>2. received'["LightsGPIO"] = sysHealth["LightsGPIO"]
    <3>1. PICK code : received' = [sysHealth EXCEPT !["Connector"] = code]
      BY Zenon DEF ReportSent, Rounds!PostReport, Rounds!ProcessDiagnostics
    <3> QED
      BY <3>1 DEF RoundInv, Rounds!Sources
  <2>3. OnItsWay(control)
    BY <2>1, Zenon DEF RoundInv, OnItsWay
  <2> QED
    BY <2>2, <2>3 DEF FreshInv, ModeOf
<1> QED
  BY <1>1, FreshInvariant, RoundInvariant, PTL DEF ReportIsFresh
-----------------------------------------------------------------------------
(***************************************************************************)
(* Sleeps, timerMutex and the lamps.                                       *)
(***************************************************************************)

(* What is known of CrossController alone about who holds the mutex and    *)
(* who is being served.                                                    *)
TurnInv ==
    /\ mutex \in {"free", "main", "timer"}
    /\ main = "update" <=> mutex = "main"
    /\ mutex = "timer" => Crossing!InTimerSection \/ main = "crashed"
    /\ Crossing!InTimerSection => mutex = "timer"
    /\ main = "create" => timer = "none"
    /\ timer = "wait" <=> gpio \in {"serve", "report", "reply"}

LEMMA TurnInvariant == Spec => []TurnInv
<1>1. /\ CrossingFacts!TypeOK /\ CrossingFacts!MutexInv /\ CrossingFacts!HolderInv
      /\ CrossingFacts!ServeInv
      => TurnInv
  BY DEF CrossingFacts!TypeOK, CrossingFacts!MutexInv, CrossingFacts!HolderInv,
         CrossingFacts!ServeInv, CrossingFacts!InTimerSection, Crossing!InTimerSection,
         TurnInv
<1>2. CrossingFacts!Spec => [](CrossingFacts!TypeOK /\ CrossingFacts!CallInv
                                 /\ CrossingFacts!ServeInv /\ CrossingFacts!LampInv)
  BY CrossingFacts!CallInvariant, CrossingAssumed
<1>3. CrossingFacts!Spec => []CrossingFacts!MutexInv
  BY CrossingFacts!MutualExclusion, CrossingAssumed
<1>4. CrossingFacts!Spec => []CrossingFacts!HolderInv
  BY CrossingFacts!HolderInvariant, CrossingAssumed
<1> QED
  BY <1>1, <1>2, <1>3, <1>4, RefinesCrossing, SameCrossing, PTL DEF ImplementsCrossing

(* Nobody sleeps with timerMutex: whatever is posted, garbled or refused,  *)
(* time only passes while both threads can have it.                        *)
THEOREM MutexIsFreeInSleep == Spec => []MutexFreeInSleep
<1>1. TurnInv => MutexFreeInSleep
  BY DEF TurnInv, MutexFreeInSleep, Quiet, TimerAsleep, Crossing!Halted,
         Crossing!InTimerSection
<1> QED
  BY <1>1, TurnInvariant, PTL

(* The inductive invariant behind NoFlicker: after the first turn, lamps   *)
(* have been shown for as long as the timer thread has slept since.        *)
Ripe == steady >= TimerFreq

ShownInv ==
    \/ stopLocal
    \/ /\ timer # "none"
       /\ timer = "try" => timerSleep + steady >= TimerFreq
       /\ timer \in {"decide", "call"} => Ripe
       /\ timer = "wait" /\ gpio = "serve" => Ripe

(* The steps of the timer thread, as far as its sleep is concerned. *)
LEMMA TurnMoves ==
    ASSUME Crossing!TimerStep
    PROVE  /\ lights' = lights
           /\ stopLocal' = stopLocal \/ timer' = "write"
           /\ \/ timer = "try" /\ timer' \in {"try", "exited", "decide"}
              \/ timer \in {"decide", "call"}
                    /\ timer' \in {"call", "wait", "sync", "refused", "crashed"}
              \/ timer' \in {"granted", "sync", "write"}
              \/ timer = "write" /\ timer' \in {"try", "exited"}
BY DEF Crossing!TimerStep, Crossing!TryLock, Crossing!TryLockFails,
       Crossing!DecideCall, Crossing!CountDown, Crossing!DecideNothing,
       Crossing!CallCrash, Crossing!CallWithoutProxy, Crossing!CallGranted,
       Crossing!CallDenied, Crossing!CallReturns, Crossing!Commit, Crossing!Refuse,
       Crossing!SyncAndUnlock, Crossing!WriteModeToFile, Crossing!NextTurn,
       Crossing!GpioReceive, Crossing!GpioReply, Crossing!gpioVars

LEMMA TurnKeepsShown ==
    ASSUME TypeOK, ShownInv, TimerTurn, LampsWatched
    PROVE  ShownInv'
<1>1. steady' = steady /\ (stopLocal' = stopLocal \/ timer' = "write")
  BY TurnMoves DEF TimerTurn, LampsWatched
<1>2. timerSleep' = IF timer' = "try" THEN TimerFreq ELSE 0
  BY DEF TimerTurn
<1>3. timer = "try" => timerSleep = 0
  BY DEF TimerTurn, TimerAsleep, TypeOK
<1>4. steady \in Nat
  BY DEF TypeOK
<1>5. timer' # "none"
  BY TurnMoves DEF TimerTurn
<1>6. timer' = "try" => timerSleep' + steady' >= TimerFreq
  BY <1>1, <1>2, <1>4 DEF TimerFreq
<1>7. CASE stopLocal' = stopLocal /\ ~stopLocal
  <2>1. timer = "try" => Ripe
    BY <1>3, <1>4, <1>7 DEF ShownInv, Ripe, TimerFreq
  <2>2. Ripe' <=> Ripe
    BY <1>1 DEF Ripe
  <2>3. timer' \in {"decide", "call", "wait"} => timer \in {"try", "decide", "call"}
    BY TurnMoves DEF TimerTurn
  <2>4. timer' \in {"decide", "call", "wait"} => Ripe'
    BY <1>7, <2>1, <2>2, <2>3 DEF ShownInv
  <2> QED
    BY <1>5, <1>6, <2>4 DEF ShownInv
<1>8. CASE timer' = "write"
  BY <1>8 DEF ShownInv
<1>9. CASE stopLocal' = stopLocal /\ stopLocal
  BY <1>9 DEF ShownInv
<1> QED
  BY <1>1, <1>7, <1>8, <1>9

(* The other steps of CrossController and LightsGPIO change the lamps in   *)
(* one place, and then nothing is under way that could change them again.  *)
LEMMA ServingKeepsShown ==
    ASSUME TypeOK, TurnInv, ShownInv, LampsWatched, UNCHANGED timerSleep,
           Crossing!BootStep \/ Crossing!ServeStep \/ Crossing!GpioStep
    PROVE  ShownInv'
<1>1. CASE Crossing!CreateTimerThread
  <2>1. stopLocal
    BY <1>1 DEF Crossing!CreateTimerThread, TurnInv, ShownInv
  <2> QED
    BY <1>1, <2>1 DEF Crossing!CreateTimerThread, ShownInv
<1>2. CASE Crossing!SetCrossLights /\ UNCHANGED <<timer, stopLocal>>
  <2>1. timer = "wait" /\ gpio' = "report"
    BY <1>2 DEF Crossing!SetCrossLights, TurnInv
  <2> QED
    BY <1>2, <2>1 DEF ShownInv
<1>3. CASE UNCHANGED <<timer, stopLocal, lights>> /\ (gpio' = gpio \/ gpio' # "serve")
  <2>1. steady' = steady /\ timerSleep' = timerSleep /\ (Ripe' <=> Ripe)
    BY <1>3 DEF LampsWatched, Ripe
  <2> QED
    BY <1>3, <2>1 DEF ShownInv
<1> QED
  BY <1>1, <1>2, <1>3
  DEF Crossing!BootStep, Crossing!InitProxies, Crossing!Hello, Crossing!CreateModeFile,
      Crossing!ServeStep, Crossing!LockSchedule, Crossing!UpdateSchedule,
      Crossing!LogSchedule, Crossing!GpioStep, Crossing!GpioHello,
      Crossing!GpioReport, Crossing!timerVars, Crossing!gpioVars

(* A second less to sleep is a second more that the lamps have been shown. *)
LEMMA TickKeepsShown ==
    ASSUME TypeOK, ShownInv, Tick
    PROVE  ShownInv'
<1>1. UNCHANGED <<timer, stopLocal, gpio>>
  BY DEF Tick, crossVars
<1>2. TimerAsleep \/ Crossing!Halted
  BY DEF Tick, Quiet
<1>3. timer \notin {"decide", "call", "wait"}
  BY <1>2 DEF TimerAsleep, Crossing!Halted
<1>4. ASSUME timer = "try", timerSleep + steady >= TimerFreq
      PROVE  timerSleep' + steady' >= TimerFreq
  <2>1. timerSleep \in 1 .. TimerFreq /\ timerSleep' = timerSleep - 1
    BY <1>2, <1>4 DEF TimerAsleep, Crossing!Halted, Tick, OneLess, TypeOK, TimerFreq
  <2>2. steady \in 0 .. 3 /\ timerSleep \in 1 .. 3 /\ timerSleep + steady >= 3
    BY <1>4, <2>1 DEF TypeOK, TimerFreq
  <2>3. steady' = IF steady = 3 THEN steady ELSE steady + 1
    BY DEF Tick, TimerFreq
  <2> QED
    BY <2>1, <2>2, <2>3 DEF TimerFreq
<1> QED
  BY <1>1, <1>3, <1>4 DEF ShownInv

LEMMA ShownInvariant == Spec => []ShownInv
<1>1. Init => ShownInv
  BY DEF Init, Crossing!Init, ShownInv
<1>2. TypeOK /\ TurnInv /\ ShownInv /\ [Next]_vars => ShownInv'
  <2> SUFFICES ASSUME TypeOK, TurnInv, ShownInv, [Next]_vars
               PROVE  ShownInv'
    OBVIOUS
  <2>1. CASE CrossStep
    BY <2>1, TurnKeepsShown, ServingKeepsShown DEF CrossStep
  <2>2. CASE Tick
    BY <2>2, TickKeepsShown
  <2>3. CASE UNCHANGED <<timer, stopLocal, gpio, timerSleep, steady>>
    <3>1. Ripe' <=> Ripe
      BY <2>3 DEF Ripe
    <3> QED
      BY <2>3, <3>1 DEF ShownInv
  <2>4. \/ RoundStep \/ SetCrossSchedule \/ ConnectorStep \/ ServerStep
        \/ OperatorPosts \/ UNCHANGED vars
        => UNCHANGED <<timer, stopLocal, gpio, timerSleep, steady>>
    BY DEF RoundStep, SetCrossSchedule, ReceiveSchedule, CrossingGone, ConnectorStep,
           ServerStep, OperatorPosts, vars, crossVars, clockVars
  <2> QED
    BY <2>1, <2>2, <2>3, <2>4 DEF Next
<1> QED
  BY <1>1, <1>2, ClocksCorrect, TurnInvariant, PTL DEF Spec

(* Lamps that change have been shown for the timer thread's whole sleep,   *)
(* for any posts, garbage, refusals, failures and delays of the network.   *)
THEOREM LampsNeverFlicker == Spec => NoFlicker
<1>1. /\ TypeOK /\ TurnInv /\ ShownInv /\ Health /\ [Next]_vars
      => [lights' # lights => steady >= TimerFreq \/ stopLocal]_vars
  <2> SUFFICES ASSUME TypeOK, TurnInv, ShownInv, Health, [Next]_vars, lights' # lights
               PROVE  steady >= TimerFreq \/ stopLocal
    OBVIOUS
  <2>1. CrossStep
    BY RoundsLeaveLamps DEF Next, Tick, vars, crossVars
  <2>2. gpio = "serve"
    BY <2>1, CrossStepLamps
  <2> QED
    BY <2>2 DEF TurnInv, ShownInv, Ripe
<1> QED
  BY <1>1, ClocksCorrect, TurnInvariant, ShownInvariant, HealthInvariant, PTL
  DEF Spec, NoFlicker
-----------------------------------------------------------------------------
(***************************************************************************)
(* What CrossController reports.                                           *)
(***************************************************************************)

(* The inductive invariant behind OwnReportFits: the copy main took under  *)
(* timerMutex, when no call was under way, is what the lamps show until    *)
(* they change; no second passes before it is reported.                    *)
SnapshotInv == main = "log" => snapshot = lights \/ steady = 0

(* With the mutex main sees a curCrossMode that is up to date. *)
CurrentInv == mutex = "main" => curCrossMode = lights

LEMMA CurrentInvariant == Spec => []CurrentInv
<1>1. TurnInv /\ CrossingFacts!ControllerInStep => CurrentInv
  BY DEF TurnInv, CrossingFacts!ControllerInStep, Crossing!InTimerSection, CurrentInv
<1>2. CrossingFacts!Spec => []CrossingFacts!ControllerInStep
  BY CrossingFacts!ControllerStaysInStep, CrossingAssumed
<1> QED
  BY <1>1, <1>2, TurnInvariant, RefinesCrossing, SameCrossing, PTL DEF ImplementsCrossing

LEMMA CrossStepKeepsSnapshot ==
    ASSUME SnapshotInv, CurrentInv, TurnInv, CrossStep
    PROVE  SnapshotInv'
<1>1. steady' = IF lights' = lights THEN steady ELSE 0
  BY DEF CrossStep, LampsWatched
<1>2. \/ main' # "log"
      \/ main = "update" /\ main' = "log" /\ snapshot' = curCrossMode /\ lights' = lights
      \/ UNCHANGED <<main, snapshot>>
  BY DEF CrossStep, TimerTurn, Crossing!TimerStep, Crossing!TryLock,
     Crossing!TryLockFails, Crossing!DecideCall, Crossing!CountDown,
     Crossing!DecideNothing, Crossing!CallCrash, Crossing!CallWithoutProxy,
     Crossing!CallGranted, Crossing!CallDenied, Crossing!CallReturns, Crossing!Commit,
     Crossing!Refuse, Crossing!SyncAndUnlock, Crossing!WriteModeToFile,
     Crossing!BootStep, Crossing!CreateTimerThread, Crossing!InitProxies,
     Crossing!Hello, Crossing!CreateModeFile, Crossing!ServeStep,
     Crossing!LockSchedule, Crossing!UpdateSchedule, Crossing!LogSchedule,
     Crossing!GpioStep, Crossing!GpioHello, Crossing!SetCrossLights,
     Crossing!GpioReport, Crossing!mainVars, Crossing!gpioVars
<1> QED
  BY <1>1, <1>2 DEF SnapshotInv, CurrentInv, TurnInv

LEMMA SnapshotInvariant == Spec => []SnapshotInv
<1>1. Init => SnapshotInv
  BY DEF Init, Crossing!Init, SnapshotInv
<1>2. SnapshotInv /\ CurrentInv /\ TurnInv /\ [Next]_vars => SnapshotInv'
  <2> SUFFICES ASSUME SnapshotInv, CurrentInv, TurnInv, [Next]_vars
               PROVE  SnapshotInv'
    OBVIOUS
  <2>1. CASE SetCrossSchedule \/ Tick
    <3>1. main' # "log" \/ UNCHANGED <<main, snapshot, lights, steady>>
      BY <2>1 DEF SetCrossSchedule, ReceiveSchedule, CrossingGone, Tick, Quiet,
         crossVars, clockVars
    <3> QED
      BY <3>1 DEF SnapshotInv
  <2>2. CASE \/ RoundStep \/ ConnectorStep \/ ServerStep \/ OperatorPosts
             \/ UNCHANGED vars
    BY <2>2 DEF RoundStep, ConnectorStep, ServerStep, OperatorPosts, vars, crossVars,
       clockVars, SnapshotInv
  <2> QED
    BY <2>1, <2>2, CrossStepKeepsSnapshot DEF Next
<1> QED
  BY <1>1, <1>2, CurrentInvariant, TurnInvariant, PTL DEF Spec

(* CrossController reports the mode the lamps show, or showed in this very *)
(* second, although it has given the mutex back before it does.            *)
THEOREM OwnReportsFit == Spec => OwnReportFits
<1>1. SnapshotInv /\ Health /\ [Next]_vars
      => [main = "log" /\ main' = "recv" =>
              health'["CrossController"] = lights \/ steady = 0]_vars
  <2> SUFFICES ASSUME SnapshotInv, Health, [Next]_vars, main = "log", main' = "recv"
               PROVE  health'["CrossController"] = lights \/ steady = 0
    OBVIOUS
  <2>1. CrossStep
    BY DEF Next, RoundStep, SetCrossSchedule, ReceiveSchedule, CrossingGone,
       ConnectorStep, ServerStep, OperatorPosts, Tick, vars, crossVars
  <2>2. Crossing!LogSchedule
    BY <2>1 DEF CrossStep, TimerTurn, Crossing!TimerStep, Crossing!TryLock,
       Crossing!TryLockFails, Crossing!DecideCall, Crossing!CountDown,
       Crossing!DecideNothing, Crossing!CallCrash, Crossing!CallWithoutProxy,
       Crossing!CallGranted, Crossing!CallDenied, Crossing!CallReturns,
       Crossing!Commit, Crossing!Refuse, Crossing!SyncAndUnlock,
       Crossing!WriteModeToFile, Crossing!BootStep, Crossing!CreateTimerThread,
       Crossing!InitProxies, Crossing!Hello, Crossing!CreateModeFile,
       Crossing!ServeStep, Crossing!LockSchedule, Crossing!UpdateSchedule,
       Crossing!GpioStep, Crossing!GpioHello, Crossing!SetCrossLights,
       Crossing!GpioReport, Crossing!mainVars
  <2>3. health'["CrossController"] = snapshot
    BY <2>2 DEF Crossing!LogSchedule, Crossing!Collect, Health, Rounds!Sources
  <2> QED
    BY <2>3 DEF SnapshotInv
<1> QED
  BY <1>1, SnapshotInvariant, HealthInvariant, PTL DEF Spec, OwnReportFits
-----------------------------------------------------------------------------
(***************************************************************************)
(* Schedules and turns.                                                    *)
(***************************************************************************)

(* The inductive invariant behind NoScheduleOverlooked: while a schedule   *)
(* waits, the timer thread's sleep ends in time and no other schedule is   *)
(* under way, since the rounds sleep longer than it.                       *)
InTime == timerSleep + waited <= TimerFreq
Ahead  == roundSleep + waited >= RoundPause

TurnAhead ==
    /\ main \in {"log", "recv"}
    /\ Crossing!InTimerSection => timer = "decide"
    /\ timer = "try" => InTime
    /\ timer = "write" => waited = 0

RoundAhead ==
    /\ control \in {"report", "await report", "sleep"}
    /\ control = "sleep" => Ahead

Waiting == TurnAhead /\ RoundAhead

WaitInv ==
    /\ waited <= TimerFreq
    /\ main \in {"lock", "update", "log"} => control = "report"
    /\ Crossing!Halted \/ waited = Seen \/ Waiting

LEMMA TickKeepsWait ==
    ASSUME TypeOK, WaitInv, Tick
    PROVE  WaitInv'
<1>1. UNCHANGED <<timer, main, control>>
  BY DEF Tick, roundVars, crossVars
<1>2. waited' = IF waited = Seen \/ Crossing!Halted THEN waited ELSE waited + 1
  BY DEF Tick
<1>3. Crossing!Halted' <=> Crossing!Halted
  BY <1>1 DEF Crossing!Halted
<1>4. CASE waited = Seen \/ Crossing!Halted
  <2>1. waited' = waited
    BY <1>2, <1>4
  <2> QED
    BY <1>1, <1>3, <1>4, <2>1 DEF WaitInv
<1>5. CASE waited # Seen /\ ~Crossing!Halted
  <2>1. timer = "try" /\ timerSleep \in 1 .. TimerFreq /\ timerSleep' = timerSleep - 1
    BY <1>5 DEF Tick, Quiet, TimerAsleep, OneLess, TypeOK, TimerFreq
  <2>2. waited \in Nat /\ waited' = waited + 1 /\ timerSleep + waited <= TimerFreq
    BY <1>2, <1>5, <2>1 DEF WaitInv, Waiting, TurnAhead, InTime, TypeOK
  <2>3. waited' <= TimerFreq /\ InTime'
    BY <2>1, <2>2 DEF InTime, TimerFreq
  <2>4. ASSUME Ahead
        PROVE  Ahead'
    <3>1. roundSleep \in Nat /\ roundSleep + waited >= RoundPause
      BY <2>4 DEF Ahead, TypeOK, RoundPause
    <3>2. roundSleep > 0
      BY <2>1, <2>2, <3>1 DEF RoundPause, TimerFreq
    <3>3. roundSleep' = roundSleep - 1
      BY <3>1, <3>2 DEF Tick, OneLess
    <3> QED
      BY <2>2, <3>1, <3>3 DEF Ahead, RoundPause
  <2> QED
    BY <1>1, <1>5, <2>1, <2>3, <2>4, Zenon DEF WaitInv, Waiting, TurnAhead, RoundAhead, Crossing!InTimerSection
<1> QED
  BY <1>4, <1>5

(* A turn ends with a decision, or is skipped since main has the mutex. *)
LEMMA TurnEnds ==
    ASSUME Crossing!TimerStep
    PROVE  /\ main' # main => timer' = "crashed" /\ main' = "crashed"
           /\ \/ timer = "try" /\ timer' = "decide"
              \/ timer = "try" /\ mutex # "free" /\ timer' \in {"try", "exited"}
              \/ timer = "decide" /\ timer' # "decide"
              \/ /\ Crossing!InTimerSection /\ timer # "decide"
                 /\ timer' \in {"wait", "granted", "refused", "sync", "write", "crashed"}
              \/ timer = "write" /\ timer' \in {"try", "exited"}
BY DEF Crossing!TimerStep, Crossing!TryLock, Crossing!TryLockFails,
       Crossing!DecideCall, Crossing!CountDown, Crossing!DecideNothing,
       Crossing!CallCrash, Crossing!CallWithoutProxy, Crossing!CallGranted,
       Crossing!CallDenied, Crossing!CallReturns, Crossing!Commit, Crossing!Refuse,
       Crossing!SyncAndUnlock, Crossing!WriteModeToFile, Crossing!NextTurn,
       Crossing!InTimerSection, Crossing!mainVars

LEMMA TurnKeepsWait ==
    ASSUME TypeOK, TurnInv, WaitInv, TimerTurn, SchedulesWatched,
           UNCHANGED <<roundSleep, control>>
    PROVE  WaitInv'
<1>1. ~ScheduleApplied
  BY TurnEnds DEF TimerTurn, ScheduleApplied
<1>2. waited' = IF TurnDecides THEN Seen ELSE waited
  BY <1>1 DEF SchedulesWatched
<1>3. waited' <= TimerFreq
  BY <1>2 DEF WaitInv, Seen, TimerFreq
<1>4. main' \in {"lock", "update", "log"} => control' = "report"
  BY TurnEnds DEF TimerTurn, WaitInv
<1>5. ~Crossing!Halted
  BY TurnEnds DEF TimerTurn, Crossing!Halted, Crossing!InTimerSection
<1>6. CASE Crossing!Halted' \/ waited' = Seen
  BY <1>3, <1>4, <1>6 DEF WaitInv
<1>7. CASE ~Crossing!Halted' /\ waited' # Seen
  <2>1. waited' = waited /\ Waiting /\ ~TurnDecides
    BY <1>2, <1>5, <1>7 DEF WaitInv
  <2>2. main' = main /\ main \in {"log", "recv"}
    BY <1>7, <2>1, TurnEnds DEF TimerTurn, Crossing!Halted, Waiting, TurnAhead
  <2>3. timer = "try" => mutex = "free"
    BY <2>2 DEF TurnInv, Crossing!InTimerSection
  <2>4. \/ timer = "try" /\ timer' = "decide"
        \/ timer = "write" /\ timer' = "try"
    BY <1>7, <2>1, <2>3, TurnEnds
    DEF TimerTurn, Waiting, TurnAhead, TurnDecides, Crossing!Halted,
        Crossing!InTimerSection
  <2>5. timer' = "try" => InTime'
    BY <2>1, <2>4 DEF InTime, TimerTurn, Waiting, TurnAhead, TimerFreq
  <2>6. Ahead' <=> Ahead
    BY <2>1 DEF Ahead
  <2>7. TurnAhead' /\ RoundAhead'
    BY <2>1, <2>2, <2>4, <2>5, <2>6 DEF Waiting, TurnAhead, RoundAhead, Crossing!InTimerSection
  <2> QED
    BY <1>3, <1>4, <2>7 DEF WaitInv, Waiting
<1> QED
  BY <1>6, <1>7

(* Main applies a schedule while the timer thread is out of its section. *)
LEMMA ServingKeepsWait ==
    ASSUME TypeOK, TurnInv, WaitInv, SchedulesWatched,
           UNCHANGED <<timerSleep, roundSleep, control>>,
           Crossing!BootStep \/ Crossing!ServeStep \/ Crossing!GpioStep
    PROVE  WaitInv'
<1>1. /\ timer' # timer => main = "create" /\ timer = "none" /\ timer' = "try"
      /\ main' # main /\ main \in {"log", "recv"} => main' = "recv"
      /\ main' \in {"lock", "update", "log"} => main \in {"lock", "update", "log"}
  BY DEF Crossing!BootStep, Crossing!CreateTimerThread, Crossing!InitProxies,
         Crossing!Hello, Crossing!CreateModeFile, Crossing!ServeStep,
         Crossing!LockSchedule, Crossing!UpdateSchedule, Crossing!LogSchedule,
         Crossing!GpioStep, Crossing!timerVars, Crossing!mainVars, TurnInv
<1>2. ~TurnDecides
  BY <1>1 DEF TurnDecides
<1>3. main' \in {"lock", "update", "log"} => control' = "report"
  BY <1>1 DEF WaitInv
<1>4. Crossing!Halted' <=> Crossing!Halted
  BY <1>1 DEF Crossing!Halted
<1>5. CASE ScheduleApplied /\ waited = Seen
  <2>1. waited' = 0
    BY <1>5 DEF SchedulesWatched
  <2>2. main = "update" /\ main' = "log" /\ control = "report" /\ timer' = timer
    BY <1>1, <1>5 DEF ScheduleApplied, WaitInv
  <2>3. InTime' /\ waited' <= TimerFreq
    BY <2>1 DEF InTime, TypeOK, TimerFreq
  <2>4. ~Crossing!InTimerSection'
    BY <2>2 DEF TurnInv, Crossing!InTimerSection
  <2> QED
    BY <1>3, <2>1, <2>2, <2>3, <2>4 DEF WaitInv, Waiting, TurnAhead, RoundAhead
<1>6. CASE ~(ScheduleApplied /\ waited = Seen)
  <2>1. waited' = waited
    BY <1>2, <1>6 DEF SchedulesWatched
  <2>2. (InTime' <=> InTime) /\ (Ahead' <=> Ahead)
    BY <2>1 DEF InTime, Ahead
  <2>3. Waiting => Waiting'
    BY <1>1, <2>1, <2>2 DEF Waiting, TurnAhead, RoundAhead, Crossing!InTimerSection
  <2> QED
    BY <1>3, <1>4, <2>1, <2>3 DEF WaitInv
<1> QED
  BY <1>5, <1>6


(* The next schedule is a round away. *)
LEMMA RoundsKeepWait ==
    ASSUME TypeOK, WaitInv, RoundStep
    PROVE  WaitInv'
<1>1. UNCHANGED <<main, timer, timerSleep, waited>>
  BY DEF RoundStep, crossVars
<1>2. Crossing!Halted' <=> Crossing!Halted
  BY <1>1 DEF Crossing!Halted
<1>3. control = "report" /\ control' # "report" => main \notin {"lock", "update", "log"}
  BY Zenon DEF RoundStep, ScheduleServed, Rounds!Hello, Rounds!SelfDiagnostic,
     Rounds!CallGetTrafficMode, Rounds!GetTrafficModeReturns,
     Rounds!GetTrafficModeAsserts, Rounds!GetTrafficModeFails,
     Rounds!SendDiagnosticsReturns, Rounds!Wake
<1>4. main' \in {"lock", "update", "log"} => control' = "report"
  BY <1>1, <1>3 DEF WaitInv
<1>5. ASSUME Waiting, waited \in Nat, waited <= TimerFreq
      PROVE  Waiting'
  <2>1. TurnAhead'
    BY <1>1, <1>5 DEF Waiting, TurnAhead, InTime, Crossing!InTimerSection
  <2>2. control # "sleep" \/ ~Rounds!Wake \/ RoundAsleep
    <3>1. control = "sleep" => roundSleep > 0
      BY <1>5 DEF Waiting, RoundAhead, Ahead, TypeOK, RoundPause, TimerFreq
    <3> QED
      BY <3>1 DEF RoundAsleep
  <2>3. control' \in {"await report", "sleep"}
    BY <1>5, <2>2, Zenon
    DEF Waiting, RoundAhead, RoundStep, Rounds!Hello, Rounds!SelfDiagnostic,
        Rounds!CallGetTrafficMode, Rounds!GetTrafficModeReturns,
        Rounds!GetTrafficModeAsserts, Rounds!GetTrafficModeFails,
        Rounds!CallSendDiagnostics, Rounds!SendDiagnosticsReturns,
        Rounds!SendDiagnosticsFails, Rounds!Wake
  <2>4. control' = "sleep" => Ahead'
    <3> SUFFICES ASSUME control' = "sleep"
                 PROVE  Ahead'
      OBVIOUS
    <3>1. roundSleep' = RoundPause
      BY DEF RoundStep
    <3> QED
      BY <1>1, <1>5, <3>1 DEF Ahead, RoundPause
  <2> QED
    BY <2>1, <2>3, <2>4, Zenon DEF Waiting, RoundAhead
<1> QED
  BY <1>1, <1>2, <1>4, <1>5 DEF WaitInv, TypeOK, Seen

LEMMA ScheduleKeepsWait ==
    ASSUME TypeOK, WaitInv, SetCrossSchedule
    PROVE  WaitInv'
<1>1. UNCHANGED <<timer, timerSleep, roundSleep, waited>>
  BY DEF SetCrossSchedule, ReceiveSchedule, CrossingGone, crossVars, clockVars
<1>2. control = "schedule" /\ control' = "report"
  BY Zenon DEF SetCrossSchedule, Rounds!SetCrossSchedule
<1>3. ~Waiting
  BY <1>2, Zenon DEF Waiting, RoundAhead
<1>4. Crossing!Halted' <=> Crossing!Halted
  BY <1>1 DEF Crossing!Halted
<1> QED
  BY <1>1, <1>2, <1>3, <1>4 DEF WaitInv

LEMMA WaitInvariant == Spec => []WaitInv
<1>1. Init => WaitInv
  BY DEF Init, Crossing!Init, WaitInv, Seen, TimerFreq
<1>2. TypeOK /\ TurnInv /\ WaitInv /\ [Next]_vars => WaitInv'
  <2> SUFFICES ASSUME TypeOK, TurnInv, WaitInv, [Next]_vars
               PROVE  WaitInv'
    OBVIOUS
  <2>1. CASE CrossStep
    BY <2>1, TurnKeepsWait, ServingKeepsWait DEF CrossStep, roundVars
  <2>2. CASE UNCHANGED <<main, timer, control, timerSleep, roundSleep, waited>>
    BY <2>2 DEF WaitInv, Waiting, TurnAhead, RoundAhead, InTime, Ahead,
       Crossing!Halted, Crossing!InTimerSection
  <2>3. ConnectorStep \/ ServerStep \/ OperatorPosts \/ UNCHANGED vars
        => UNCHANGED <<main, timer, control, timerSleep, roundSleep, waited>>
    BY DEF ConnectorStep, Rounds!Greet, Rounds!ConnectorStep, ServerStep,
       Rounds!ServerStep, OperatorPosts, Rounds!OperatorPosts, Rounds!controlVars,
       vars, roundVars, crossVars, clockVars
  <2> QED
    BY <2>1, <2>2, <2>3, RoundsKeepWait, ScheduleKeepsWait, TickKeepsWait DEF Next
<1> QED
  BY <1>1, <1>2, ClocksCorrect, TurnInvariant, PTL DEF Spec

(* A schedule main has applied gets its turn within TimerFreq seconds: no  *)
(* number of failed attempts, no delay of the network and no second in     *)
(* which a schedule and a turn meet makes the timer thread miss it twice.  *)
THEOREM SchedulesGetTheirTurn == Spec => []NoScheduleOverlooked
<1>1. WaitInv => NoScheduleOverlooked
  BY DEF WaitInv, NoScheduleOverlooked
<1> QED
  BY <1>1, WaitInvariant, PTL
=============================================================================
