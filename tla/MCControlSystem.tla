-------------------------- MODULE MCControlSystem ---------------------------
(***************************************************************************)
(* Instances of ControlSystem for TLC.                                     *)
(***************************************************************************)
EXTENDS ControlSystem

Colour(color) == <<Text(color)>>

Duration(number) == <<Number(number)>>

Object(mode, direction1, direction2) ==
    << Member("mode", Colour(mode)), Member("direction_1", direction1),
       Member("direction_2", direction2) >>

(* Objects of every kind the server accepts: a regulated one whose second  *)
(* duration does not fit an int of the instance, a manual one with its     *)
(* members in another order and one more member; and two it refuses.       *)
MCPosts ==
    { Object("regulated", Duration(2), Duration(9)),
      << Member("direction_2", Colour("red")), Member("direction_1", Colour("green")),
         Member("mode", Colour("manual")), Member("comment", Colour("blue")) >>,
      Object("blinking", Colour("red"), Colour("red")),
      << Member("mode", Colour("manual")), Member("direction_1", Colour("red")) >> }

(* The stack may hold the mode of an earlier call, or anything else. *)
MCGarbageModes ==
    { [EmptyResponse EXCEPT !.mode = "manual", !.color1 = "green", !.color2 = "green"],
      [EmptyResponse EXCEPT !.mode = "garbage", !.duration1 = -1] }
=============================================================================
