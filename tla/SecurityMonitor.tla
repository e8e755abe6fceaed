-------------------------- MODULE SecurityMonitor ---------------------------
(***************************************************************************)
(* The security monitor's policy for CrossController -> LightsGPIO         *)
(* SetCrossLights requests (security.psl): a list of permitted mode        *)
(* combinations, and one Flow policy object per direction that follows the *)
(* colours named in the granted requests.                                  *)
(*                                                                         *)
(* What happens to a Flow object that accepted its half of a request the   *)
(* monitor then denies is a matter of the monitor's runtime, which is not  *)
(* part of the repository.  DenyRollsBack = TRUE: a denied request leaves  *)
(* both objects alone.  FALSE: each object whose transition is legal may   *)
(* or may not have advanced, whatever the evaluation order.                *)
(***************************************************************************)
EXTENDS CrossModes

CONSTANT DenyRollsBack

ASSUME DenyRollsBackType == DenyRollsBack \in BOOLEAN

VARIABLES flow1, flow2    \* states of flow_direction1 and flow_direction2

FlowStates ==
    {"blink-yellow", "green", "blink-green", "yellow", "red", "red-yellow"}

(* Mutant: a direction may go from red to green without red-yellow. *)
TransitionsSkipRedYellow(color) ==
    CASE color = "blink-yellow" -> {"blink-yellow", "green", "red"}
      [] color = "green"        -> {"green", "blink-green", "blink-yellow"}
      [] color = "blink-green"  -> {"blink-green", "yellow"}
      [] color = "yellow"       -> {"yellow", "red"}
      [] color = "red"          -> {"red", "red-yellow", "blink-yellow", "green"}
      [] color = "red-yellow"   -> {"red-yellow", "green"}

(* Mutant: the row of red lacks its way out to blinking yellow. *)
TransitionsRedForEver(color) ==
    CASE color = "blink-yellow" -> {"blink-yellow", "green", "red"}
      [] color = "green"        -> {"green", "blink-green", "blink-yellow"}
      [] color = "blink-green"  -> {"blink-green", "yellow"}
      [] color = "yellow"       -> {"yellow", "red"}
      [] color = "red"          -> {"red", "red-yellow"}
      [] color = "red-yellow"   -> {"red-yellow", "green"}

FlowTransitions(color) ==
    CASE color = "blink-yellow" -> {"blink-yellow", "green", "red"}
      [] color = "green"        -> {"green", "blink-green", "blink-yellow"}
      [] color = "blink-green"  -> {"blink-green", "yellow"}
      [] color = "yellow"       -> {"yellow", "red"}
      [] color = "red"          -> {"red", "red-yellow", "blink-yellow"}
      [] color = "red-yellow"   -> {"red-yellow", "green"}

(* Mutant: the list also has green against green. *)
PermittedWithConflict ==
    { \h0A0A, \h0203, \h0302, \h010C, \h0C01, \h0104,
      \h0401, \h0102, \h0201, \h0103, \h0301, \h0101, \h0404 }

(* Mutant: red against red is not on the list. *)
PermittedWithoutAllRed ==
    { \h0A0A, \h0203, \h0302, \h010C, \h0C01, \h0104,
      \h0401, \h0102, \h0201, \h0103, \h0301 }

PermittedModes ==
    { \h0A0A, \h0203, \h0302, \h010C, \h0C01, \h0104,
      \h0401, \h0102, \h0201, \h0103, \h0301, \h0101 }

(* Mutant: the objects start in "blink", which GetColorMode knows. *)
MonitorInitBlink == flow1 = "blink" /\ flow2 = "blink"

MonitorInit == flow1 = "blink-yellow" /\ flow2 = "blink-yellow"

(* Mutant: the combinations are not looked at, only the transitions. *)
PermitsAnyCombination(msg) ==
    /\ msg.dir1Mode \in FlowTransitions(flow1)
    /\ msg.dir2Mode \in FlowTransitions(flow2)

Permits(msg) ==
    /\ msg.crossMode \in PermittedModes
    /\ msg.dir1Mode \in FlowTransitions(flow1)
    /\ msg.dir2Mode \in FlowTransitions(flow2)

Grant(msg) ==
    /\ Permits(msg)
    /\ flow1' = msg.dir1Mode
    /\ flow2' = msg.dir2Mode

(* The states a Flow object may be in after a denied request. *)
AfterDenial(flow, color) ==
    IF ~DenyRollsBack /\ color \in FlowTransitions(flow)
    THEN {flow, color} ELSE {flow}

Deny(msg) ==
    /\ ~Permits(msg)
    /\ flow1' \in AfterDenial(flow1, msg.dir1Mode)
    /\ flow2' \in AfterDenial(flow2, msg.dir2Mode)
=============================================================================
