--------------------------- MODULE SecuredLights ----------------------------
(***************************************************************************)
(* LightsGPIO behind the security monitor, with a client of which nothing  *)
(* is assumed but the set of messages it may send.  This is the part the   *)
(* safety of the lamps rests on: CrossController, which is far bigger, is  *)
(* one such client (CrossController.tla shows that it is).                 *)
(*                                                                         *)
(* The client blocks while its request is served (synchronous IPC), so it  *)
(* can only call when the loop of LightsGPIO is not busy with its last     *)
(* request.  Other entities report to Diagnostics at any time.             *)
(***************************************************************************)
EXTENDS SecurityMonitor, LightsGpio

CONSTANTS
    Messages,      \* the SetCrossLights messages the client may send
    EventCodes     \* the codes other entities report

ASSUME MessagesType == \A msg \in Messages : msg.crossMode \in Int

ASSUME EventCodesType == EventCodes \subseteq Int

vars == <<lights, gpio, request, flow1, flow2, health>>

Init == GpioInit /\ MonitorInit /\ DiagnosticsInit

CallGranted(msg) ==
    /\ Grant(msg)
    /\ GpioReceive(msg.crossMode)
    /\ UNCHANGED health

CallDenied(msg) ==
    /\ gpio \in {"boot", "recv"}
    /\ Deny(msg)
    /\ UNCHANGED <<lights, gpio, request, health>>

ServerStep ==
    /\ GpioHello \/ SetCrossLights \/ GpioReport
    /\ UNCHANGED <<flow1, flow2>>

ReplyToClient ==
    /\ GpioReply
    /\ UNCHANGED <<flow1, flow2, health>>

OtherEvent ==
    /\ \E source \in Sources \ {"LightsGPIO"}, code \in EventCodes :
           Collect(source, code)
    /\ UNCHANGED <<lights, gpio, request, flow1, flow2>>

Next ==
    \/ \E msg \in Messages : CallGranted(msg) \/ CallDenied(msg)
    \/ ServerStep
    \/ ReplyToClient
    \/ OtherEvent

Spec == Init /\ [][Next]_vars
-----------------------------------------------------------------------------
(* Type invariant of LightsGPIO, the two Flow objects and Diagnostics. *)
TypeOK ==
    /\ lights \in Int /\ request \in Int
    /\ gpio \in {"boot", "recv", "serve", "report", "reply"}
    /\ flow1 \in FlowStates /\ flow2 \in FlowStates
    /\ health \in [Sources -> Int]

(* The lamps, and any request on its way to them, are one of the twelve    *)
(* combinations of the policy, whatever messages the client sends, forged  *)
(* colour names included, and whatever the monitor does with its state     *)
(* after a denial (security.psl:160, lights_gpio.c:70).                    *)
PermittedLights ==
    /\ lights \in PermittedModes
    /\ gpio = "serve" => request \in PermittedModes

(* A client is honest when the colour names of a message are those of its  *)
(* crossMode, as LightsGpioProxy_SetCrossLights makes them.                *)
HonestMessages == \A msg \in Messages : msg = SetCrossLightsRequest(msg.crossMode)

(* The monitor's idea of each direction is what the lamps show, or will    *)
(* show once the granted request is served: the state machine in the       *)
(* monitor and the one in LightsGPIO, which never talk, stay in step.      *)
MonitorInStep ==
    LET shown == IF gpio = "serve" THEN request ELSE lights
    IN  flow1 = Dir1Color(shown) /\ flow2 = Dir2Color(shown)

(* What Diagnostics holds for LightsGPIO is the mode the lamps show, but   *)
(* for the moment between the change and the report (lights_gpio.c:70-76), *)
(* and before the first change.                                            *)
ReportInStep ==
    gpio \in {"recv", "serve", "reply"} =>
        \/ health["LightsGPIO"] = lights
        \/ health["LightsGPIO"] = 0 /\ lights = DefaultLightsMode

(* The colours the monitor can be led to from a set of colour pairs by one *)
(* more granted request of an honest client.                               *)
OneMoreRequest(pairs) ==
    pairs \cup { <<Dir1Color(m), Dir2Color(m)>> : m \in
                    { m \in PermittedModes : \E p \in pairs :
                        /\ Dir1Color(m) \in FlowTransitions(p[1])
                        /\ Dir2Color(m) \in FlowTransitions(p[2]) } }

(* No trap: whatever combination the crossing has got itself into, three   *)
(* requests that the policy grants are enough to be back at blinking       *)
(* yellow.  The combination list and the two transition tables             *)
(* (security.psl:33-69 and 160-173) are written apart; nothing but their   *)
(* product can tell whether they leave such a way open.                    *)
NoTrap ==
    LET afterThree == OneMoreRequest(OneMoreRequest(OneMoreRequest({<<flow1, flow2>>})))
    IN  <<"blink-yellow", "blink-yellow">> \in afterThree

(* Refinement: the lamps behave as the abstract intersection. *)
Crossing == INSTANCE Intersection WITH
    lamp <- [d \in {1, 2} |-> IF d = 1 THEN Dir1Color(lights) ELSE Dir2Color(lights)]

(* The modes that are made of two colours, as schedules are. *)
ColouredModes == {CrossModeOf(a, b) : a, b \in FlowStates}

(* The policy is exact: of all coloured modes it grants an honest client   *)
(* those the crossing may go on to show from what it shows, and denies no  *)
(* other step drivers know.  A row or a mode missing in security.psl:33-69 *)
(* or 160-173 would strand the cycle somewhere and break no safety rule.   *)
PolicyIsExact ==
    gpio # "serve" =>
        \A mode \in ColouredModes :
            Permits(SetCrossLightsRequest(mode)) <=>
                Crossing!MayShow(Dir1Color(mode), Dir2Color(mode))

(* With an honest client and a monitor that forgets denied requests, every *)
(* change of the lamps is a step of the abstract intersection.             *)
ImplementsIntersection == Crossing!Spec

(* The combination shown admits no conflict, whatever the client sends. *)
NoConflict == Crossing!NoConflict
=============================================================================
