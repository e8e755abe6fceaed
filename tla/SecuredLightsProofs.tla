------------------------ MODULE SecuredLightsProofs -------------------------
(***************************************************************************)
(* What SecuredLights guarantees for every set of messages and event       *)
(* codes, and for both ways the monitor may treat a denied request.        *)
(***************************************************************************)
EXTENDS SecuredLights, MonitorProofs

(* Every message the client sends names a mode that is an integer. *)
LEMMA MessageModes ==
    ASSUME NEW msg \in Messages
    PROVE  msg.crossMode \in Int
BY MessagesType
-----------------------------------------------------------------------------
(* LightsGPIO, the Flow objects and Diagnostics keep their types, whatever *)
(* the client sends.                                                       *)
THEOREM TypeCorrect == Spec => []TypeOK
<1>1. Init => TypeOK
  BY DEF Init, GpioInit, MonitorInit, DiagnosticsInit, TypeOK, FlowStates,
         NoEvent, DefaultLightsMode, Unregulated1BlinkYellow2BlinkYellow
<1>2. TypeOK /\ [Next]_vars => TypeOK'
  <2> SUFFICES ASSUME TypeOK, [Next]_vars
               PROVE  TypeOK'
    OBVIOUS
  <2> USE DEF TypeOK
  <2>1. ASSUME NEW msg \in Messages, CallGranted(msg)
        PROVE  TypeOK'
    BY <2>1, MonitorStays, MessageModes DEF CallGranted, GpioReceive
  <2>2. ASSUME NEW msg \in Messages, CallDenied(msg)
        PROVE  TypeOK'
    BY <2>2, MonitorStays DEF CallDenied
  <2>3. CASE GpioHello /\ UNCHANGED <<flow1, flow2>>
    BY <2>3 DEF GpioHello, Collect, Sources
  <2>4. CASE SetCrossLights /\ UNCHANGED <<flow1, flow2>>
    BY <2>4 DEF SetCrossLights
  <2>5. CASE GpioReport /\ UNCHANGED <<flow1, flow2>>
    BY <2>5 DEF GpioReport, Collect, Sources
  <2>6. CASE ReplyToClient
    BY <2>6 DEF ReplyToClient, GpioReply
  <2>7. CASE OtherEvent
    BY <2>7, EventCodesType DEF OtherEvent, Collect, Sources
  <2>8. CASE UNCHANGED vars
    BY <2>8 DEF vars
  <2> QED
    BY <2>1, <2>2, <2>3, <2>4, <2>5, <2>6, <2>7, <2>8 DEF Next, ServerStep
<1> QED
  BY <1>1, <1>2, PTL DEF Spec
-----------------------------------------------------------------------------
(* The lamps only ever show one of the twelve combinations of the policy:  *)
(* for every client, also one that forges colour names, and whether or not *)
(* the monitor rolls back after a denial.                                  *)
THEOREM LightsArePermitted == Spec => []PermittedLights
<1>1. Init => PermittedLights
  BY DEF Init, GpioInit, PermittedLights, PermittedModes,
         DefaultLightsMode, Unregulated1BlinkYellow2BlinkYellow
<1>2. PermittedLights /\ [Next]_vars => PermittedLights'
  <2> SUFFICES ASSUME PermittedLights, [Next]_vars
               PROVE  PermittedLights'
    OBVIOUS
  <2> USE DEF PermittedLights
  <2>1. ASSUME NEW msg \in Messages, CallGranted(msg)
        PROVE  PermittedLights'
    BY <2>1 DEF CallGranted, Grant, Permits, GpioReceive
  <2>2. ASSUME NEW msg \in Messages, CallDenied(msg)
        PROVE  PermittedLights'
    BY <2>2 DEF CallDenied
  <2>3. CASE ServerStep
    BY <2>3 DEF ServerStep, GpioHello, SetCrossLights, GpioReport
  <2>4. CASE ReplyToClient
    BY <2>4 DEF ReplyToClient, GpioReply
  <2>5. CASE OtherEvent
    BY <2>5 DEF OtherEvent
  <2>6. CASE UNCHANGED vars
    BY <2>6 DEF vars
  <2> QED
    BY <2>1, <2>2, <2>3, <2>4, <2>5, <2>6 DEF Next
<1> QED
  BY <1>1, <1>2, PTL DEF Spec

(* The twelve modes of security.psl:160-173, read through GetColorName,    *)
(* are combinations that let no conflicting traffic through.               *)
LEMMA PermittedModesAreCompatible ==
    ASSUME NEW mode \in PermittedModes
    PROVE  /\ Dir1Color(mode) \in Crossing!Colours
           /\ Dir2Color(mode) \in Crossing!Colours
           /\ Crossing!Compatible(Dir1Color(mode), Dir2Color(mode))
<1>1. PICK d1 \in {1, 2, 3, 4, 10, 12}, d2 \in {1, 2, 3, 4, 10, 12} :
          mode = d2 * 256 + d1
  BY DEF PermittedModes
<1>2. Dir1Color(mode) = GetColorName(d1) /\ Dir2Color(mode) = GetColorName(d2)
  <2>1. mode % 256 = d1 /\ mode \div 256 = d2 /\ d1 % 256 = d1 /\ d2 % 256 = d2
    BY <1>1
  <2> QED
    BY <2>1 DEF Dir1Color, Dir2Color, GetColorName
<1> QED
  BY <1>1, <1>2 DEF PermittedModes, GetColorName, Crossing!Colours, Crossing!Compatible

(* The lamps never let conflicting traffic through, whatever is requested. *)
THEOREM NoConflictEver == Spec => []NoConflict
<1>1. PermittedLights => NoConflict
  BY PermittedModesAreCompatible
  DEF PermittedLights, NoConflict, Crossing!NoConflict, Crossing!Directions
<1> QED
  BY <1>1, LightsArePermitted, PTL
-----------------------------------------------------------------------------
(* Diagnostics knows what LightsGPIO shows, but for the moment of the      *)
(* report and the time before the first change.  Inductive with: nothing   *)
(* is shown but the default while LightsGPIO starts.                       *)
ReportInv ==
    /\ ReportInStep
    /\ gpio = "boot" => lights = DefaultLightsMode

THEOREM ReportStaysInStep == Spec => []ReportInStep
<1>1. Init => ReportInv
  BY DEF Init, GpioInit, ReportInv, ReportInStep
<1>2. TypeOK /\ ReportInv /\ [Next]_vars => ReportInv'
  <2> SUFFICES ASSUME TypeOK, ReportInv, [Next]_vars
               PROVE  ReportInv'
    OBVIOUS
  <2> USE DEF ReportInv, ReportInStep
  <2>0. health \in [Sources -> Int] /\ "LightsGPIO" \in Sources
    BY DEF TypeOK, Sources
  <2>1. ASSUME NEW msg \in Messages, CallGranted(msg)
        PROVE  ReportInv'
    BY <2>1 DEF CallGranted, GpioReceive
  <2>2. ASSUME NEW msg \in Messages, CallDenied(msg)
        PROVE  ReportInv'
    BY <2>2 DEF CallDenied
  <2>3. CASE GpioHello
    BY <2>0, <2>3 DEF GpioHello, Collect
  <2>4. CASE SetCrossLights
    BY <2>4 DEF SetCrossLights
  <2>5. CASE GpioReport
    BY <2>0, <2>5 DEF GpioReport, Collect
  <2>6. CASE ReplyToClient
    BY <2>6 DEF ReplyToClient, GpioReply
  <2>7. CASE OtherEvent
    <3>1. health'["LightsGPIO"] = health["LightsGPIO"]
      BY <2>0, <2>7 DEF OtherEvent, Collect
    <3> QED
      BY <2>7, <3>1 DEF OtherEvent
  <2>8. CASE UNCHANGED vars
    BY <2>8 DEF vars
  <2> QED
    BY <2>1, <2>2, <2>3, <2>4, <2>5, <2>6, <2>7, <2>8 DEF Next, ServerStep
<1>3. ReportInv => ReportInStep
  BY DEF ReportInv
<1> QED
  BY <1>1, <1>2, <1>3, TypeCorrect, PTL DEF Spec
-----------------------------------------------------------------------------
(***************************************************************************)
(* An honest client and a monitor that forgets denied requests.            *)
(***************************************************************************)

(* A denied request leaves both Flow objects as they were. *)
LEMMA DenialForgotten ==
    ASSUME DenyRollsBack, NEW msg, Deny(msg)
    PROVE  UNCHANGED <<flow1, flow2>>
BY DEF Deny, AfterDenial

(* A granted request of an honest client puts the Flow objects on the      *)
(* colours of its mode, which the tables let follow the ones before.       *)
LEMMA HonestGrant ==
    ASSUME HonestMessages, NEW msg \in Messages, Grant(msg)
    PROVE  /\ flow1' = Dir1Color(msg.crossMode)
           /\ flow2' = Dir2Color(msg.crossMode)
           /\ Dir1Color(msg.crossMode) \in FlowTransitions(flow1)
           /\ Dir2Color(msg.crossMode) \in FlowTransitions(flow2)
<1>1. /\ msg.dir1Mode = Dir1Color(msg.crossMode)
      /\ msg.dir2Mode = Dir2Color(msg.crossMode)
  BY DEF HonestMessages, SetCrossLightsRequest
<1> QED
  BY <1>1 DEF Grant, Permits

(* The blinking yellow the lamps start with is where the tables start. *)
LEMMA DefaultColors ==
    /\ Dir1Color(DefaultLightsMode) = "blink-yellow"
    /\ Dir2Color(DefaultLightsMode) = "blink-yellow"
BY DEF Dir1Color, Dir2Color, GetColorName, DefaultLightsMode,
       Unregulated1BlinkYellow2BlinkYellow

(* The inductive invariant: beside MonitorInStep, a request on its way to  *)
(* the lamps is one the tables let follow what they show.                  *)
HonestInv ==
    /\ MonitorInStep
    /\ gpio = "serve" =>
           /\ Dir1Color(request) \in FlowTransitions(Dir1Color(lights))
           /\ Dir2Color(request) \in FlowTransitions(Dir2Color(lights))

LEMMA HonestInvariant ==
    ASSUME DenyRollsBack, HonestMessages
    PROVE  Spec => []HonestInv
<1>1. Init => HonestInv
  BY DefaultColors DEF Init, GpioInit, MonitorInit, HonestInv, MonitorInStep
<1>2. HonestInv /\ [Next]_vars => HonestInv'
  <2> SUFFICES ASSUME HonestInv, [Next]_vars
               PROVE  HonestInv'
    OBVIOUS
  <2> USE DEF HonestInv, MonitorInStep
  <2>1. ASSUME NEW msg \in Messages, CallGranted(msg)
        PROVE  HonestInv'
    <3>1. /\ flow1' = Dir1Color(msg.crossMode)
          /\ flow2' = Dir2Color(msg.crossMode)
          /\ Dir1Color(msg.crossMode) \in FlowTransitions(flow1)
          /\ Dir2Color(msg.crossMode) \in FlowTransitions(flow2)
      BY <2>1, HonestGrant DEF CallGranted
    <3> QED
      BY <2>1, <3>1 DEF CallGranted, GpioReceive
  <2>2. ASSUME NEW msg \in Messages, CallDenied(msg)
        PROVE  HonestInv'
    BY <2>2, DenialForgotten DEF CallDenied
  <2>3. CASE ServerStep
    BY <2>3 DEF ServerStep, GpioHello, SetCrossLights, GpioReport
  <2>4. CASE ReplyToClient
    BY <2>4 DEF ReplyToClient, GpioReply
  <2>5. CASE OtherEvent
    BY <2>5 DEF OtherEvent
  <2>6. CASE UNCHANGED vars
    BY <2>6 DEF vars
  <2> QED
    BY <2>1, <2>2, <2>3, <2>4, <2>5, <2>6 DEF Next
<1> QED
  BY <1>1, <1>2, PTL DEF Spec

(* The state machines of the monitor and the mode LightsGPIO keeps, two    *)
(* entities that never talk to each other, stay in step.                   *)
THEOREM MonitorStaysInStep ==
    ASSUME DenyRollsBack, HonestMessages
    PROVE  Spec => []MonitorInStep
<1>1. HonestInv => MonitorInStep
  BY DEF HonestInv
<1> QED
  BY <1>1, HonestInvariant, PTL
-----------------------------------------------------------------------------
(***************************************************************************)
(* The way back to blinking yellow.                                        *)
(***************************************************************************)
Colors(mode) == <<Dir1Color(mode), Dir2Color(mode)>>

LEMMA OneRequest ==
    ASSUME NEW pairs, NEW mode, NEW next \in PermittedModes,
           Colors(mode) \in pairs, Leads(mode, next)
    PROVE  Colors(next) \in OneMoreRequest(pairs)
<1>1. /\ Dir1Color(next) \in FlowTransitions(Colors(mode)[1])
      /\ Dir2Color(next) \in FlowTransitions(Colors(mode)[2])
  BY DEF Leads, Colors
<1> DEFINE granted == { m \in PermittedModes : \E p \in pairs :
                          /\ Dir1Color(m) \in FlowTransitions(p[1])
                          /\ Dir2Color(m) \in FlowTransitions(p[2]) }
<1>2. next \in granted
  BY <1>1
<1>3. Colors(next) \in { <<Dir1Color(m), Dir2Color(m)>> : m \in granted }
  BY <1>2 DEF Colors
<1> QED
  BY <1>3 DEF OneMoreRequest

(* From each of the twelve, two more combinations and then blinking yellow *)
(* (which may follow itself, where the way is shorter).                    *)
LEMMA WayOut ==
    ASSUME NEW mode \in PermittedModes
    PROVE  \E first, second \in PermittedModes :
               Leads(mode, first) /\ Leads(first, second) /\ Leads(second, \h0A0A)
<1> USE DEF PermittedModes
<1>1. /\ Leads(\h0A0A, \h0A0A) /\ Leads(\h0104, \h0A0A) /\ Leads(\h0401, \h0A0A)
      /\ Leads(\h0101, \h0A0A)
  BY TwelveColors DEF Leads, FlowTransitions
<1>2. /\ Leads(\h0203, \h0104) /\ Leads(\h0302, \h0401)
      /\ Leads(\h0102, \h0101) /\ Leads(\h0201, \h0101)
      /\ Leads(\h0103, \h0104) /\ Leads(\h0301, \h0401)
  BY TwelveColors DEF Leads, FlowTransitions
<1>3. Leads(\h010C, \h0302) /\ Leads(\h0C01, \h0203)
  BY TwelveColors DEF Leads, FlowTransitions
<1> QED
  BY <1>1, <1>2, <1>3

(* Whatever an honest client has got the crossing into, three granted      *)
(* requests lead back to blinking yellow.                                  *)
THEOREM NoTrapEver ==
    ASSUME DenyRollsBack, HonestMessages
    PROVE  Spec => []NoTrap
<1>1. PermittedLights /\ MonitorInStep => NoTrap
  <2> SUFFICES ASSUME PermittedLights, MonitorInStep
               PROVE  NoTrap
    OBVIOUS
  <2> DEFINE shown == IF gpio = "serve" THEN request ELSE lights
             here  == {<<flow1, flow2>>}
  <2>1. shown \in PermittedModes /\ Colors(shown) \in here
    BY DEF PermittedLights, MonitorInStep, Colors
  <2> HIDE DEF shown, here
  <2>2. PICK first \in PermittedModes, second \in PermittedModes :
            Leads(shown, first) /\ Leads(first, second) /\ Leads(second, \h0A0A)
    BY <2>1, WayOut
  <2>3. Colors(first) \in OneMoreRequest(here)
    BY <2>1, <2>2, OneRequest
  <2>4. Colors(second) \in OneMoreRequest(OneMoreRequest(here))
    BY <2>2, <2>3, OneRequest
  <2>5. \h0A0A \in PermittedModes
    BY DEF PermittedModes
  <2>6. Colors(\h0A0A) \in OneMoreRequest(OneMoreRequest(OneMoreRequest(here)))
    BY <2>2, <2>4, <2>5, OneRequest
  <2>7. Colors(\h0A0A) = <<"blink-yellow", "blink-yellow">>
    BY TwelveColors DEF Colors
  <2> QED
    BY <2>6, <2>7 DEF NoTrap, here
<1> QED
  BY <1>1, LightsArePermitted, MonitorStaysInStep, PTL
-----------------------------------------------------------------------------
(* A transition of the tables is a step of the abstract sequence. *)
LEMMA TransitionsFollow ==
    ASSUME NEW a, NEW b \in FlowTransitions(a), a \in FlowStates
    PROVE  b = a \/ Crossing!Follows(a, b)
BY DEF FlowTransitions, FlowStates, Crossing!Follows

(* LightsGPIO behind the monitor implements the abstract intersection: the *)
(* lamps of each direction only move along the sequence drivers know, from *)
(* and to combinations that admit no conflict.                             *)
THEOREM Refinement ==
    ASSUME DenyRollsBack, HonestMessages
    PROVE  Spec => ImplementsIntersection
<1> DEFINE Lamp == [d \in {1, 2} |-> IF d = 1 THEN Dir1Color(lights)
                                              ELSE Dir2Color(lights)]
<1>1. Init => Crossing!Init
  BY DefaultColors DEF Init, GpioInit, Crossing!Init, Crossing!Directions
<1>2. TypeOK /\ PermittedLights /\ HonestInv /\ [Next]_vars => [Crossing!Next]_Lamp
  <2> SUFFICES ASSUME PermittedLights, HonestInv, [Next]_vars
               PROVE  [Crossing!Next]_Lamp
    OBVIOUS
  <2>1. CASE SetCrossLights
    <3>1. /\ gpio = "serve" /\ lights' = request
          /\ request \in PermittedModes /\ lights \in PermittedModes
      BY <2>1 DEF SetCrossLights, PermittedLights
    <3> DEFINE a == Dir1Color(request)
               b == Dir2Color(request)
    <3>2. /\ a \in Crossing!Colours /\ b \in Crossing!Colours
          /\ Crossing!Compatible(a, b)
      BY <3>1, PermittedModesAreCompatible
    <3>3. /\ Dir1Color(lights) \in FlowStates
          /\ Dir2Color(lights) \in FlowStates
      BY <3>1, PermittedModesAreCompatible DEF Crossing!Colours, FlowStates
    <3>4. /\ a = Dir1Color(lights) \/ Crossing!Follows(Dir1Color(lights), a)
          /\ b = Dir2Color(lights) \/ Crossing!Follows(Dir2Color(lights), b)
      BY <3>1, <3>3, TransitionsFollow DEF HonestInv
    <3>5. Lamp' = [d \in Crossing!Directions |-> IF d = 1 THEN a ELSE b]
      BY <3>1 DEF Crossing!Directions
    <3>6. Lamp[1] = Dir1Color(lights) /\ Lamp[2] = Dir2Color(lights)
      OBVIOUS
    <3>7. /\ a = Lamp[1] \/ Crossing!Follows(Lamp[1], a)
          /\ b = Lamp[2] \/ Crossing!Follows(Lamp[2], b)
      BY <3>4, <3>6
    <3> HIDE DEF a, b
    <3>8. Crossing!Next
      BY <3>2, <3>5, <3>7 DEF Crossing!Next, Crossing!MayShow
    <3> QED
      BY <3>8
  <2>2. CASE UNCHANGED lights
    BY <2>2
  <2>3. SetCrossLights \/ UNCHANGED lights
    BY DEF Next, vars, CallGranted, CallDenied, ServerStep, ReplyToClient,
           OtherEvent, GpioReceive, GpioHello, GpioReport, GpioReply
  <2> QED
    BY <2>1, <2>2, <2>3
<1> QED
  BY <1>1, <1>2, TypeCorrect, LightsArePermitted, HonestInvariant, PTL
  DEF Spec, ImplementsIntersection, Crossing!Spec
-----------------------------------------------------------------------------
(***************************************************************************)
(* The policy is exact.                                                    *)
(***************************************************************************)

(* The tables know no transition but those of the abstract sequence, and   *)
(* all of those.                                                           *)
LEMMA TransitionsExact ==
    ASSUME NEW a \in FlowStates, NEW b \in FlowStates
    PROVE  b \in FlowTransitions(a) <=> b = a \/ Crossing!Follows(a, b)
BY DEF FlowTransitions, FlowStates, Crossing!Follows

(* The bytes of the six colours. *)
LEMMA ColorBytes ==
    /\ GetColorMode("blink-yellow") = 10 /\ GetColorMode("green") = 4
    /\ GetColorMode("blink-green") = 12  /\ GetColorMode("yellow") = 2
    /\ GetColorMode("red") = 1           /\ GetColorMode("red-yellow") = 3
BY DEF GetColorMode

(* Of the 36 combinations of two colours the list has those that admit no  *)
(* conflict, and all of those.                                             *)
LEMMA CombinationsExact ==
    ASSUME NEW a \in FlowStates, NEW b \in FlowStates
    PROVE  CrossModeOf(a, b) \in PermittedModes <=> Crossing!Compatible(a, b)
<1>1. CASE Crossing!Compatible(a, b)
  BY <1>1, ColorBytes
  DEF CrossModeOf, PermittedModes, FlowStates, Crossing!Compatible, Crossing!Colours
<1>2. CASE CrossModeOf(a, b) \in PermittedModes
  <2>1. Dir1Color(CrossModeOf(a, b)) = a /\ Dir2Color(CrossModeOf(a, b)) = b
    BY ModeRoundTrip
  <2> QED
    BY <1>2, <2>1, PermittedModesAreCompatible
<1> QED
  BY <1>1, <1>2

(* What is shown has two colours of the tables. *)
LEMMA ShownColors ==
    ASSUME PermittedLights
    PROVE  Dir1Color(lights) \in FlowStates /\ Dir2Color(lights) \in FlowStates
BY PermittedModesAreCompatible DEF PermittedLights, Crossing!Colours, FlowStates

(* The combination list and the two transition tables together grant an    *)
(* honest client exactly the steps the abstract intersection may take from *)
(* what the lamps show: the converse of Refinement, step by step.          *)
THEOREM PolicyStaysExact ==
    ASSUME DenyRollsBack, HonestMessages
    PROVE  Spec => []PolicyIsExact
<1>1. PermittedLights /\ MonitorInStep => PolicyIsExact
  <2> SUFFICES ASSUME PermittedLights, MonitorInStep, gpio # "serve",
                      NEW a \in FlowStates, NEW b \in FlowStates
               PROVE  LET mode == CrossModeOf(a, b)
                      IN  Permits(SetCrossLightsRequest(mode)) <=>
                              Crossing!MayShow(Dir1Color(mode), Dir2Color(mode))
    BY DEF PolicyIsExact, ColouredModes
  <2> DEFINE mode == CrossModeOf(a, b)
             shown1 == Dir1Color(lights)
             shown2 == Dir2Color(lights)
  <2>1. Dir1Color(mode) = a /\ Dir2Color(mode) = b
    BY ModeRoundTrip
  <2>2. flow1 = shown1 /\ flow2 = shown2
    BY DEF MonitorInStep
  <2>3. shown1 \in FlowStates /\ shown2 \in FlowStates
    BY ShownColors
  <2>4. mode \in PermittedModes <=> Crossing!Compatible(a, b)
    BY CombinationsExact
  <2>5. /\ a \in FlowTransitions(flow1) <=> a = shown1 \/ Crossing!Follows(shown1, a)
        /\ b \in FlowTransitions(flow2) <=> b = shown2 \/ Crossing!Follows(shown2, b)
    BY <2>2, <2>3, TransitionsExact
  <2> HIDE DEF mode, shown1, shown2
  <2>6. Permits(SetCrossLightsRequest(mode)) <=>
            /\ mode \in PermittedModes
            /\ a \in FlowTransitions(flow1)
            /\ b \in FlowTransitions(flow2)
    BY <2>1 DEF Permits, SetCrossLightsRequest
  <2>7. Crossing!MayShow(a, b) <=>
            /\ Crossing!Compatible(a, b)
            /\ a = shown1 \/ Crossing!Follows(shown1, a)
            /\ b = shown2 \/ Crossing!Follows(shown2, b)
    BY DEF Crossing!MayShow, shown1, shown2
  <2>8. Permits(SetCrossLightsRequest(mode)) <=>
            Crossing!MayShow(Dir1Color(mode), Dir2Color(mode))
    BY <2>1, <2>4, <2>5, <2>6, <2>7
  <2> QED
    BY <2>8 DEF mode
<1> QED
  BY <1>1, LightsArePermitted, MonitorStaysInStep, PTL
=============================================================================
