----------------------------- MODULE CrossModes -----------------------------
(***************************************************************************)
(* The vocabulary shared by every entity: behaviors (ICrossControl.idl),   *)
(* binary cross modes (ILightsGpio.idl) and colour names (color_defs.h).   *)
(* A cross mode is one unsigned integer: bits 0-7 are the lamps of         *)
(* direction 1, bits 8-15 the lamps of direction 2 (red 1, yellow 2,       *)
(* green 4, blink 8).  `x & 0xFF' is written x % 256 and `x >> 8' is       *)
(* written x \div 256.                                                     *)
(***************************************************************************)
EXTENDS Integers

BehaviorRegulated   == 1
BehaviorUnregulated == 2
BehaviorManual      == 3
Behaviors == {BehaviorRegulated, BehaviorUnregulated, BehaviorManual}

Regulated1Green2Red        == \h0104
Regulated1BlinkGreen2Red   == \h010C
Regulated1Yellow2RedYellow == \h0302
Regulated1Red2Green        == \h0401
Regulated1Red2BlinkGreen   == \h0C01
Regulated1RedYellow2Yellow == \h0203
Unregulated1BlinkYellow2BlinkYellow == \h0A0A

RegulatedModes ==
    { Regulated1Green2Red, Regulated1BlinkGreen2Red, Regulated1Yellow2RedYellow,
      Regulated1Red2Green, Regulated1Red2BlinkGreen, Regulated1RedYellow2Yellow }

(***************************************************************************)
(* Names.  GetColorName is total: a byte that is not one of the six lamp   *)
(* combinations is "unknown".  GetColorMode is total the other way round,  *)
(* and also knows "blink", a byte GetColorName has no name for.            *)
(***************************************************************************)
GetColorName(mode) ==
    LET lamps == mode % 256
    IN  CASE lamps = 1  -> "red"
          [] lamps = 2  -> "yellow"
          [] lamps = 4  -> "green"
          [] lamps = 3  -> "red-yellow"
          [] lamps = 10 -> "blink-yellow"
          [] lamps = 12 -> "blink-green"
          [] OTHER      -> "unknown"

GetColorMode(color) ==
    CASE color = "red"          -> 1
      [] color = "yellow"       -> 2
      [] color = "green"        -> 4
      [] color = "blink"        -> 8
      [] color = "red-yellow"   -> 3
      [] color = "blink-yellow" -> 10
      [] color = "blink-green"  -> 12
      [] OTHER                  -> 0

Dir1Color(mode) == GetColorName(mode)
Dir2Color(mode) == GetColorName(mode \div 256)

(* The cross mode the control system asks for, from two colour names. *)
CrossModeOf(color1, color2) == GetColorMode(color2) * 256 + GetColorMode(color1)

(* Mutant: the names of the two directions are swapped. *)
SetCrossLightsRequestSwapped(mode) ==
    [crossMode |-> mode, dir1Mode |-> Dir2Color(mode), dir2Mode |-> Dir1Color(mode)]

(* The message LightsGpioProxy_SetCrossLights builds for a cross mode. *)
SetCrossLightsRequest(mode) ==
    [crossMode |-> mode, dir1Mode |-> Dir1Color(mode), dir2Mode |-> Dir2Color(mode)]

(***************************************************************************)
(* The regulated cycle.  0 stands for "no successor" and is no mode.       *)
(***************************************************************************)
(* Mutant: the second blinking green has no successor. *)
NextModeOneCaseShort(mode) ==
    CASE mode = Regulated1Green2Red        -> Regulated1BlinkGreen2Red
      [] mode = Regulated1BlinkGreen2Red   -> Regulated1Yellow2RedYellow
      [] mode = Regulated1Yellow2RedYellow -> Regulated1Red2Green
      [] mode = Regulated1Red2Green        -> Regulated1Red2BlinkGreen
      [] mode = Regulated1RedYellow2Yellow -> Regulated1Green2Red
      [] mode = Unregulated1BlinkYellow2BlinkYellow -> Regulated1Green2Red
      [] OTHER -> 0

(* Mutant: green against red goes straight to yellow against red-yellow. *)
NextModeWithoutBlinking(mode) ==
    CASE mode = Regulated1Green2Red        -> Regulated1Yellow2RedYellow
      [] mode = Regulated1BlinkGreen2Red   -> Regulated1Yellow2RedYellow
      [] mode = Regulated1Yellow2RedYellow -> Regulated1Red2Green
      [] mode = Regulated1Red2Green        -> Regulated1Red2BlinkGreen
      [] mode = Regulated1Red2BlinkGreen   -> Regulated1RedYellow2Yellow
      [] mode = Regulated1RedYellow2Yellow -> Regulated1Green2Red
      [] mode = Unregulated1BlinkYellow2BlinkYellow -> Regulated1Green2Red
      [] OTHER -> 0

GetNextRegulatedMode(mode) ==
    CASE mode = Regulated1Green2Red        -> Regulated1BlinkGreen2Red
      [] mode = Regulated1BlinkGreen2Red   -> Regulated1Yellow2RedYellow
      [] mode = Regulated1Yellow2RedYellow -> Regulated1Red2Green
      [] mode = Regulated1Red2Green        -> Regulated1Red2BlinkGreen
      [] mode = Regulated1Red2BlinkGreen   -> Regulated1RedYellow2Yellow
      [] mode = Regulated1RedYellow2Yellow -> Regulated1Green2Red
      [] mode = Unregulated1BlinkYellow2BlinkYellow -> Regulated1Green2Red
      [] OTHER -> 0
=============================================================================
