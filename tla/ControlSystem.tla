--------------------------- MODULE ControlSystem ----------------------------
(***************************************************************************)
(* The ControlSystem entity with the entities it polls: every ten seconds  *)
(* it asks Diagnostics for everybody's last event code, the Connector for  *)
(* the server's mode, hands CrossController the schedule it makes of it,   *)
(* and sends the codes back to the server.  No result stops a round: a     *)
(* failed GetTrafficMode leaves trafficMode as the last one filled it, and *)
(* the result of SetCrossSchedule is dropped.                              *)
(*                                                                         *)
(* CrossController is only seen as the entity that takes a schedule and    *)
(* answers (CrossController.tla); the server's operator and the entities   *)
(* that report to Diagnostics act at any time.                             *)
(***************************************************************************)
EXTENDS Connector, CrossModes

CONSTANTS
    Posts,               \* the objects an operator may POST to /manual
    GarbageBehaviors,    \* what an uninitialised behavior may hold
    Reporters,           \* other entities that report to Diagnostics
    EventCodes           \* and the codes they report

ASSUME ReportersType == Reporters \subseteq Sources \ {"ControlSystem", "Connector"}

Scalar == [type : {"key", "string", "integer", "other"}, text : STRING, value : Int]

ASSUME PostsType == Posts \subseteq Seq([key : STRING, value : Seq(Scalar)])

ASSUME GarbageType ==
    /\ GarbageBehaviors \subseteq Int
    /\ \A mode \in GarbageModes : mode.duration1 \in Int /\ mode.duration2 \in Int

VARIABLES
    control,        \* where the main loop is
    trafficMode,    \* the loop's TrafficModeData
    sysHealth,      \* the loop's sys_health_data
    schedule        \* the last schedule CrossController was called with

controlVars == <<control, trafficMode, sysHealth, schedule>>
vars == <<controlVars, connectorVars, tlMode, received, health>>

NoReport == [source \in Sources \cup {"Diagnostics"} |-> NoEvent]

NoSchedule == [behavior |-> 0, crossMode |-> 0, dir1Duration |-> 0, dir2Duration |-> 0]

Init ==
    /\ ConnectorInit /\ DiagnosticsInit
    /\ tlMode = DefaultMode /\ received = NoReport
    /\ control = "hello"
    /\ trafficMode \in GarbageModes
    /\ sysHealth = NoReport
    /\ schedule = NoSchedule

Hello ==
    /\ control = "hello"
    /\ Collect("ControlSystem", 0)
    /\ control' = "diagnose"
    /\ UNCHANGED <<trafficMode, sysHealth, schedule, connectorVars, tlMode, received>>

(* Mutant: the codes are taken before the call reports ControlSystem's own. *)
SelfDiagnosticEarly ==
    /\ control = "diagnose"
    /\ Collect("ControlSystem", 1)
    /\ sysHealth' = [source \in Sources \cup {"Diagnostics"} |->
                        IF source = "Diagnostics" THEN 0 ELSE health[source]]
    /\ control' = "poll"
    /\ UNCHANGED <<trafficMode, schedule, connectorVars, tlMode, received>>

(* One Collect call: reports code 1 and takes everybody's codes from the   *)
(* answer.  `err == (NK_EOK ? 0 : 1)' makes 0 of the Diagnostics code.     *)
SelfDiagnostic ==
    /\ control = "diagnose"
    /\ Collect("ControlSystem", 1)
    /\ sysHealth' = [source \in Sources \cup {"Diagnostics"} |->
                        IF source = "Diagnostics" THEN 0 ELSE health'[source]]
    /\ control' = "poll"
    /\ UNCHANGED <<trafficMode, schedule, connectorVars, tlMode, received>>

CallGetTrafficMode ==
    /\ control = "poll"
    /\ ConnectorReceive("mode")
    /\ control' = "await mode"
    /\ UNCHANGED <<trafficMode, sysHealth, schedule, tlMode, received, health>>

(* Mutant: the colour of direction 1 is copied twice. *)
GetTrafficModeReturnsOneColor ==
    /\ control = "await mode" /\ fetched # Unreadable
    /\ ConnectorReply
    /\ trafficMode' = [fetched EXCEPT !.color2 = fetched.color1]
    /\ control' = "schedule"
    /\ UNCHANGED <<sysHealth, schedule, tlMode, received, health>>

GetTrafficModeReturns ==
    /\ control = "await mode" /\ fetched # Unreadable
    /\ ConnectorReply
    /\ trafficMode' = fetched
    /\ control' = "schedule"
    /\ UNCHANGED <<sysHealth, schedule, tlMode, received, health>>

(* nk_assert(size > 0): a text that could not be copied has no size. *)
GetTrafficModeAsserts ==
    /\ control = "await mode" /\ fetched = Unreadable
    /\ ConnectorReply
    /\ control' = "crashed"
    /\ UNCHANGED <<trafficMode, sysHealth, schedule, tlMode, received, health>>

(* The call fails when the Connector is gone; main does not look at it. *)
GetTrafficModeFails ==
    /\ control \in {"poll", "await mode"} /\ connector = "crashed"
    /\ control' = "schedule"
    /\ UNCHANGED <<trafficMode, sysHealth, schedule, connectorVars, tlMode, received,
                   health>>

(* A mode without a case leaves req.schedule.behavior uninitialised. *)
BehaviorsOf(mode) ==
    CASE mode = "regulated"   -> {BehaviorRegulated}
      [] mode = "unregulated" -> {BehaviorUnregulated}
      [] mode = "manual"      -> {BehaviorManual}
      [] OTHER                -> GarbageBehaviors

SetCrossSchedule ==
    /\ control = "schedule"
    /\ \E behavior \in BehaviorsOf(trafficMode.mode) :
           schedule' = [behavior     |-> behavior,
                        crossMode    |-> CrossModeOf(trafficMode.color1, trafficMode.color2),
                        dir1Duration |-> AsUInt(trafficMode.duration1),
                        dir2Duration |-> AsUInt(trafficMode.duration2)]
    /\ control' = "report"
    /\ UNCHANGED <<trafficMode, sysHealth, connectorVars, tlMode, received, health>>

CallSendDiagnostics ==
    /\ control = "report"
    /\ ConnectorReceive("health")
    /\ control' = "await report"
    /\ UNCHANGED <<trafficMode, sysHealth, schedule, tlMode, received, health>>

SendDiagnosticsReturns ==
    /\ control = "await report"
    /\ ConnectorReply
    /\ control' = "sleep"
    /\ UNCHANGED <<trafficMode, sysHealth, schedule, tlMode, received, health>>

SendDiagnosticsFails ==
    /\ control = "report" /\ connector = "crashed"
    /\ control' = "sleep"
    /\ UNCHANGED <<trafficMode, sysHealth, schedule, connectorVars, tlMode, received,
                   health>>

(* Mutant: the mode is fetched once, before the loop. *)
WakeWithoutPoll ==
    /\ control = "sleep"
    /\ control' = "schedule"
    /\ UNCHANGED <<trafficMode, sysHealth, schedule, connectorVars, tlMode, received,
                   health>>

(* Mutant: the codes are asked for once, before the loop. *)
WakeWithoutDiagnostic ==
    /\ control = "sleep"
    /\ control' = "poll"
    /\ UNCHANGED <<trafficMode, sysHealth, schedule, connectorVars, tlMode, received,
                   health>>

(* KosThreadSleep(10000), and the next round. *)
Wake ==
    /\ control = "sleep"
    /\ control' = "diagnose"
    /\ UNCHANGED <<trafficMode, sysHealth, schedule, connectorVars, tlMode, received,
                   health>>
-----------------------------------------------------------------------------
ControlStep ==
    \/ Hello \/ SelfDiagnostic
    \/ CallGetTrafficMode \/ GetTrafficModeReturns \/ GetTrafficModeAsserts
    \/ GetTrafficModeFails \/ SetCrossSchedule
    \/ CallSendDiagnostics \/ SendDiagnosticsReturns \/ SendDiagnosticsFails
    \/ Wake

Greet == ConnectorHello /\ UNCHANGED <<controlVars, tlMode, received>>

ConnectorStep ==
    /\ \/ SocketFails \/ Connect \/ ConnectRefused
       \/ ParseFails \/ ConnectorCrashes \/ ParseAnswer
       \/ LogMode \/ PostReport(sysHealth) \/ ReportLost
    /\ UNCHANGED <<controlVars, tlMode>>

ServerStep == ServerAnswers /\ UNCHANGED <<controlVars, tlMode>>

OperatorPosts ==
    /\ \E data \in Posts : ProcessManual(data)
    /\ UNCHANGED <<controlVars, connectorVars, received, health>>

OtherEvent ==
    /\ \E source \in Reporters, code \in EventCodes : Collect(source, code)
    /\ UNCHANGED <<controlVars, connectorVars, tlMode, received>>

Next == ControlStep \/ Greet \/ ConnectorStep \/ ServerStep \/ OperatorPosts \/ OtherEvent

Spec == Init /\ [][Next]_vars

(* Both entities keep running: each is one thread, and what it waits for   *)
(* ends by itself (sleep, connect, a call to an entity that runs).  Nothing *)
(* forces the operator, other entities or the server to do anything.       *)
Fairness == WF_vars(ControlStep) /\ WF_vars(Greet) /\ WF_vars(ConnectorStep)

FairSpec == Spec /\ Fairness
-----------------------------------------------------------------------------
(* Type invariant of both entities and of the server. *)
TypeOK ==
    /\ control \in {"hello", "diagnose", "poll", "await mode", "schedule", "report",
                    "await report", "sleep", "crashed"}
    /\ connector \in {"boot", "recv", "connect", "connected", "unconnected", "read",
                      "log", "reply", "crashed"}
    /\ serving \in {"none", "mode", "health"}
    /\ attempts \in 0 .. NumRetries
    /\ DOMAIN sysHealth = Sources \cup {"Diagnostics"}
    /\ DOMAIN received = Sources \cup {"Diagnostics"}
    /\ Accepts(tlMode) /\ (wire # Lost => Accepts(wire))
    /\ {schedule.dir1Duration, schedule.dir2Duration} \subseteq 0 .. 2 * IntHalf - 1

(* What an object the server hands out is meant to say, member by member:  *)
(* a direction that is not a colour has no lamps, one that is not a number *)
(* no duration, and a negative duration wraps.                             *)
ScalarsOf(data, key, type) ==
    {data[i].value[1] : i \in {i \in DOMAIN data :
        data[i].key = key /\ Len(data[i].value) = 1 /\ data[i].value[1].type = type}}

TextAt(data, key) ==
    LET texts == {scalar.text : scalar \in ScalarsOf(data, key, "string")}
    IN  IF texts = {} THEN "" ELSE CHOOSE text \in texts : TRUE

DurationAt(data, key) ==
    LET numbers == {scalar.value : scalar \in ScalarsOf(data, key, "integer")}
    IN  IF numbers = {} THEN 0 ELSE AsUInt(CHOOSE number \in numbers : TRUE)

Meaning(data) ==
    [behavior     |-> CHOOSE behavior \in BehaviorsOf(TextAt(data, "mode")) : TRUE,
     crossMode    |-> CrossModeOf(TextAt(data, "direction_1"), TextAt(data, "direction_2")),
     dir1Duration |-> DurationAt(data, "direction_1"),
     dir2Duration |-> DurationAt(data, "direction_2")]

(* Refinement: a round in which the mode is fetched hands on exactly what  *)
(* the server's mode meant at one moment of that round, with no trace of   *)
(* the rounds before, the failed ones included: three copies of the mode   *)
(* outlive a round (response-parser.c:7 and 25, control_system.c:90).      *)
ServerModes == {DefaultMode} \cup {data \in Posts : Accepts(data)}

Polling == INSTANCE ModePolling WITH
    Modes <- ServerModes,
    mode <- tlMode, sample <- wire

ImplementsPolling == Polling!Spec

(* What the server learns of an entity is what that entity reported: a     *)
(* report carries the code ControlSystem sends in every round, and of an   *)
(* entity that reports by itself one of the codes it sends, once it has    *)
(* sent one; no failed round takes that back.  Only the Connector's code   *)
(* is what the stack held (connector.c:266).                               *)
ReportsAreGenuine ==
    [][received' # received =>
          /\ received'["ControlSystem"] = 1 /\ received'["Diagnostics"] = 0
          /\ \A source \in Reporters :
                 \/ received'[source] \in EventCodes
                 \/ received[source] = NoEvent /\ received'[source] = NoEvent]_vars

(* A lost answer, a refused connection or the death of the Connector never *)
(* hold up the rounds: CrossController is called again and again, unless   *)
(* an unreadable text has stopped ControlSystem (control_system.c:208) or  *)
(* the server leaves a connection open without a word, as the read has no  *)
(* timeout (connector.c:109).                                              *)
RoundsGoOn ==
    \/ <>[](control = "crashed")
    \/ <>[](connector = "connected" /\ serving = "mode")
    \/ []<>(control = "schedule")

(* A mode the operator leaves alone reaches CrossController and stays in   *)
(* force, whatever failed before, once fetching it succeeds for good and   *)
(* the rounds go on.                                                       *)
ModeReachesController ==
    \A data \in ServerModes :
        <>[](tlMode = data /\ wire # Lost) /\ []<>(control = "schedule")
            => <>[](schedule = Meaning(data))

(* The code an entity last reported reaches the server and stays there, as *)
(* long as reports arrive again and again: it does not matter which are    *)
(* lost on the way (connector.c:204), nor how many.                        *)
ReportArrives == PostReport(sysHealth) /\ UNCHANGED <<controlVars, tlMode>>

CodesReachServer ==
    \A source \in Reporters, code \in EventCodes :
        <>[](health[source] = code) /\ []<><<ReportArrives>>_vars
            => <>[](received[source] = code)
-----------------------------------------------------------------------------
(* "'unregulated' | 'regulated' | 'manual'" (ITrafficMode.idl:12): the     *)
(* mode in an answer to GetTrafficMode is one of these three, as the       *)
(* server's own check (central-server.py:29) has made sure.                *)
ModeIsOneOfThree ==
    control = "await mode" /\ connector = "reply" => fetched.mode \in KnownModes
=============================================================================
