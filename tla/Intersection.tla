---------------------------- MODULE Intersection ----------------------------
(***************************************************************************)
(* What the traffic light promises to the people at the crossing, with no  *)
(* entity, message or mode code in sight: two directions, each showing one *)
(* colour.  The combination never lets conflicting traffic through, and    *)
(* each direction only ever moves along the sequence drivers know.         *)
(* Abstract specification of the policy comments in security.psl.          *)
(***************************************************************************)

VARIABLE lamp    \* direction -> colour

Directions == {1, 2}

Colours == {"blink-yellow", "green", "blink-green", "yellow", "red", "red-yellow"}

(* May direction 1 show a while direction 2 shows b? *)
Compatible(a, b) ==
    \/ a = "blink-yellow" /\ b = "blink-yellow"
    \/ a = "red"  /\ b \in Colours \ {"blink-yellow"}
    \/ b = "red"  /\ a \in Colours \ {"blink-yellow"}
    \/ {a, b} = {"yellow", "red-yellow"}

(* The next colour of a direction that changes: the regulated sequence,    *)
(* and blinking yellow entered from, and left to, green or red only.       *)
Follows(a, b) ==
    <<a, b>> \in { <<"green", "blink-green">>, <<"blink-green", "yellow">>,
                   <<"yellow", "red">>, <<"red", "red-yellow">>,
                   <<"red-yellow", "green">>,
                   <<"green", "blink-yellow">>, <<"red", "blink-yellow">>,
                   <<"blink-yellow", "green">>, <<"blink-yellow", "red">> }

Init == lamp = [d \in Directions |-> "blink-yellow"]

(* May the crossing go on to show a and b? *)
MayShow(a, b) ==
    /\ Compatible(a, b)
    /\ a = lamp[1] \/ Follows(lamp[1], a)
    /\ b = lamp[2] \/ Follows(lamp[2], b)

Next ==
    \E a, b \in Colours :
        /\ MayShow(a, b)
        /\ lamp' = [d \in Directions |-> IF d = 1 THEN a ELSE b]

Spec == Init /\ [][Next]_lamp

(* Lamps a human can read, in a combination that admits no conflict. *)
NoConflict ==
    /\ lamp \in [Directions -> Colours]
    /\ Compatible(lamp[1], lamp[2])
=============================================================================
