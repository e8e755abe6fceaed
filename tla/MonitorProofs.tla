--------------------------- MODULE MonitorProofs ----------------------------
(***************************************************************************)
(* Lemmas about the security monitor, for both ways it may treat a denied  *)
(* request.                                                                *)
(***************************************************************************)
EXTENDS SecurityMonitor, TLAPS

(* The transition tables never lead out of the six states they are written *)
(* over (security.psl:34-48 and 53-67).                                    *)
LEMMA TransitionsStay ==
    ASSUME NEW color \in FlowStates
    PROVE  FlowTransitions(color) \subseteq FlowStates
BY DEF FlowTransitions, FlowStates

(* Granting or denying a request keeps both Flow objects in a state of     *)
(* their tables, even if a denied request is entered by half.              *)
LEMMA MonitorStays ==
    ASSUME NEW msg, Grant(msg) \/ Deny(msg),
           flow1 \in FlowStates, flow2 \in FlowStates
    PROVE  flow1' \in FlowStates /\ flow2' \in FlowStates
<1>1. /\ FlowTransitions(flow1) \subseteq FlowStates
      /\ FlowTransitions(flow2) \subseteq FlowStates
  BY TransitionsStay
<1>2. CASE Grant(msg)
  BY <1>1, <1>2 DEF Grant, Permits
<1>3. CASE Deny(msg)
  <2>1. flow1' \in AfterDenial(flow1, msg.dir1Mode)
    BY <1>3 DEF Deny
  <2>2. flow2' \in AfterDenial(flow2, msg.dir2Mode)
    BY <1>3 DEF Deny
  <2>3. AfterDenial(flow1, msg.dir1Mode) \subseteq FlowStates
    BY <1>1 DEF AfterDenial
  <2>4. AfterDenial(flow2, msg.dir2Mode) \subseteq FlowStates
    BY <1>1 DEF AfterDenial
  <2> QED
    BY <2>1, <2>2, <2>3, <2>4
<1> QED
  BY <1>2, <1>3
-----------------------------------------------------------------------------
(***************************************************************************)
(* The names of colours.                                                   *)
(***************************************************************************)

(* A colour the tables know is a byte with a bit for each lamp, and the    *)
(* byte is read back as that colour.                                       *)
LEMMA ColorRoundTrip ==
    ASSUME NEW color \in FlowStates
    PROVE  /\ GetColorMode(color) \in {1, 2, 3, 4, 10, 12}
           /\ GetColorName(GetColorMode(color)) = color
BY DEF FlowStates, GetColorMode, GetColorName

(* The mode ControlSystem makes of two colours is read by the proxy of     *)
(* LightsGPIO as those two colours, each for its own direction             *)
(* (control_system.c:297, lights_gpio_proxy.h:69-72).                        *)
LEMMA ModeRoundTrip ==
    ASSUME NEW a \in FlowStates, NEW b \in FlowStates
    PROVE  /\ Dir1Color(CrossModeOf(a, b)) = a
           /\ Dir2Color(CrossModeOf(a, b)) = b
<1> DEFINE d1 == GetColorMode(a)
           d2 == GetColorMode(b)
<1>1. d1 \in {1, 2, 3, 4, 10, 12} /\ d2 \in {1, 2, 3, 4, 10, 12}
  BY ColorRoundTrip
<1>2. GetColorName(d1) = a /\ GetColorName(d2) = b
  BY ColorRoundTrip
<1>3. CrossModeOf(a, b) = d2 * 256 + d1
  BY DEF CrossModeOf
<1> HIDE DEF d1, d2
<1>4. /\ CrossModeOf(a, b) % 256 = d1 % 256
      /\ CrossModeOf(a, b) \div 256 = d2
  BY <1>1, <1>3
<1> QED
  BY <1>2, <1>4 DEF Dir1Color, Dir2Color, GetColorName

(* The colours of the twelve combinations, byte by byte. *)
LEMMA TwelveColors ==
    /\ Dir1Color(\h0A0A) = "blink-yellow" /\ Dir2Color(\h0A0A) = "blink-yellow"
    /\ Dir1Color(\h0203) = "red-yellow"   /\ Dir2Color(\h0203) = "yellow"
    /\ Dir1Color(\h0302) = "yellow"       /\ Dir2Color(\h0302) = "red-yellow"
    /\ Dir1Color(\h010C) = "blink-green"  /\ Dir2Color(\h010C) = "red"
    /\ Dir1Color(\h0C01) = "red"          /\ Dir2Color(\h0C01) = "blink-green"
    /\ Dir1Color(\h0104) = "green"        /\ Dir2Color(\h0104) = "red"
    /\ Dir1Color(\h0401) = "red"          /\ Dir2Color(\h0401) = "green"
    /\ Dir1Color(\h0102) = "yellow"       /\ Dir2Color(\h0102) = "red"
    /\ Dir1Color(\h0201) = "red"          /\ Dir2Color(\h0201) = "yellow"
    /\ Dir1Color(\h0103) = "red-yellow"   /\ Dir2Color(\h0103) = "red"
    /\ Dir1Color(\h0301) = "red"          /\ Dir2Color(\h0301) = "red-yellow"
    /\ Dir1Color(\h0101) = "red"          /\ Dir2Color(\h0101) = "red"
BY DEF Dir1Color, Dir2Color, GetColorName

(* The tables let mode `next' follow `mode' in both directions. *)
Leads(mode, next) ==
    /\ Dir1Color(next) \in FlowTransitions(Dir1Color(mode))
    /\ Dir2Color(next) \in FlowTransitions(Dir2Color(mode))

(* Every mode that the cycle goes on to is on the list, and the tables let *)
(* it follow the mode the cycle comes from (cross_controller.c:99).        *)
LEMMA CycleLeads ==
    ASSUME NEW mode, GetNextRegulatedMode(mode) # 0
    PROVE  /\ GetNextRegulatedMode(mode) \in PermittedModes
           /\ Leads(mode, GetNextRegulatedMode(mode))
<1> USE DEF Regulated1Green2Red, Regulated1BlinkGreen2Red, Regulated1Yellow2RedYellow,
            Regulated1Red2Green, Regulated1Red2BlinkGreen, Regulated1RedYellow2Yellow,
            Unregulated1BlinkYellow2BlinkYellow
<1>1. mode \in {\h0104, \h010C, \h0302, \h0401, \h0C01, \h0203, \h0A0A}
  BY DEF GetNextRegulatedMode
<1>2. /\ Leads(\h0104, \h010C) /\ Leads(\h010C, \h0302) /\ Leads(\h0302, \h0401)
      /\ Leads(\h0401, \h0C01) /\ Leads(\h0C01, \h0203) /\ Leads(\h0203, \h0104)
      /\ Leads(\h0A0A, \h0104)
  BY TwelveColors DEF Leads, FlowTransitions
<1>3. /\ mode = \h0104 => GetNextRegulatedMode(mode) = \h010C
      /\ mode = \h010C => GetNextRegulatedMode(mode) = \h0302
      /\ mode = \h0302 => GetNextRegulatedMode(mode) = \h0401
      /\ mode = \h0401 => GetNextRegulatedMode(mode) = \h0C01
      /\ mode = \h0C01 => GetNextRegulatedMode(mode) = \h0203
      /\ mode = \h0203 => GetNextRegulatedMode(mode) = \h0104
      /\ mode = \h0A0A => GetNextRegulatedMode(mode) = \h0104
  BY DEF GetNextRegulatedMode
<1> QED
  BY <1>1, <1>2, <1>3 DEF PermittedModes

(* Blinking yellow follows itself, either green and red against red. *)
LEMMA BlinkingYellowFollows ==
    ASSUME NEW mode \in {\h0A0A, \h0104, \h0401, \h0101}
    PROVE  Leads(mode, \h0A0A)
BY TwelveColors DEF Leads, FlowTransitions
=============================================================================
