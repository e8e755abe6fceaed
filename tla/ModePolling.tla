---------------------------- MODULE ModePolling -----------------------------
(***************************************************************************)
(* What the way from the central server to CrossController promises, with  *)
(* no entity, call or parser in sight: somebody publishes modes, somebody  *)
(* takes a sample of the one in force, or fails to, and the schedule       *)
(* handed on is what the last sample means.  Nothing is promised of the    *)
(* schedule while the last sample is lost, and everything again as soon as *)
(* one succeeds.                                                           *)
(***************************************************************************)
CONSTANTS
    Modes,         \* the modes that may be published
    Meaning(_),    \* the schedule a mode stands for
    Lost           \* a sample that failed, and no mode

VARIABLES mode, sample, schedule

Init == mode \in Modes /\ sample = Lost

Publish == mode' \in Modes /\ UNCHANGED <<sample, schedule>>

Sample == sample' \in {mode, Lost} /\ UNCHANGED <<mode, schedule>>

Deliver ==
    /\ sample # Lost => schedule' = Meaning(sample)
    /\ UNCHANGED <<mode, sample>>

Next == Publish \/ Sample \/ Deliver

Spec == Init /\ [][Next]_<<mode, sample, schedule>>
=============================================================================
