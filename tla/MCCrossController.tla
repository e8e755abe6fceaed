------------------------- MODULE MCCrossController --------------------------
(***************************************************************************)
(* Instances of CrossController for TLC.  The schedules are what           *)
(* ControlSystem makes of the server's modes: durations are given in       *)
(* regulated mode, colours otherwise, and an unset field is 0.             *)
(***************************************************************************)
EXTENDS CrossController

Regulated(d1, d2) ==
    [behavior |-> BehaviorRegulated, crossMode |-> 0,
     dir1Duration |-> d1, dir2Duration |-> d2]

Coloured(behavior, color1, color2) ==
    [behavior |-> behavior, crossMode |-> CrossModeOf(color1, color2),
     dir1Duration |-> 0, dir2Duration |-> 0]

Unregulated == Coloured(BehaviorUnregulated, "blink-yellow", "blink-yellow")

Manual(color1, color2) == Coloured(BehaviorManual, color1, color2)

(* A mode string ControlSystem has no case for leaves behavior unset. *)
UnknownBehavior == Coloured(7, "red", "red")

(* Every behavior; manual modes in the cycle, outside it, and forbidden. *)
MCSchedules ==
    { Regulated(1, 2), Unregulated, UnknownBehavior,
      Manual("green", "red"), Manual("red", "red"), Manual("red", "red-yellow"),
      Manual("green", "green") }

(* Fewer schedules, for the runs that check liveness. *)
MCLiveSchedules ==
    { Regulated(1, 0), Unregulated, Manual("red", "red") }
=============================================================================
