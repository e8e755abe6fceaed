-------------------------- MODULE MCTrafficSystem ---------------------------
(***************************************************************************)
(* An instance of TrafficSystem for TLC.                                   *)
(***************************************************************************)
EXTENDS TrafficSystem

Server == INSTANCE CentralServer

Object(mode, direction1, direction2) ==
    << Server!Member("mode", <<Server!Text(mode)>>),
       Server!Member("direction_1", <<direction1>>),
       Server!Member("direction_2", <<direction2>>) >>

(* The server's first mode, a cycle, and a manual mode the cycle goes      *)
(* through.                                                                *)
MCPosts ==
    { Server!DefaultMode,
      Object("regulated", Server!Number(1), Server!Number(2)),
      Object("manual", Server!Text("green"), Server!Text("red")) }

(* What the stack held: a mode against the policy, or nothing at all. *)
MCGarbageModes ==
    { [Server!EmptyResponse EXCEPT !.mode = "manual", !.color1 = "green",
                                   !.color2 = "green", !.duration1 = -1],
      Server!EmptyResponse }

(* States that differ only in what is written again before anybody reads   *)
(* it, or is never read at all, are one: the mode file, what the server    *)
(* has received, all codes but those of the lamps, and each copy of a mode *)
(* or a schedule where nothing is left that could read it.                 *)
OnlyIf(live, value) == IF live THEN <<value>> ELSE <<>>

Reporting == control \notin {"hello", "sleep", "diagnose"}

Needs(behavior) == behavior \in {reqBehavior, curBehavior}

WhatIsRead ==
    << control, connector, serving, wire = Rounds!Lost,
       OnlyIf(connector # "crashed" /\ control # "crashed", tlMode),
       OnlyIf(Reporting, sysHealth["LightsGPIO"]),
       OnlyIf(control # "crashed", trafficMode),
       OnlyIf(connector = "read", wire),
       OnlyIf(connector = "connect", attempts),
       OnlyIf(serving = "mode" /\ connector \in {"log", "reply"}, fetched),
       Crossing!mainVars, Crossing!timerVars, Crossing!curVars, Crossing!gpioVars,
       Crossing!flowVars, mutex, reqBehavior,
       OnlyIf(Needs(Crossing!BehaviorManual), reqCrossMode),
       OnlyIf(Needs(Crossing!BehaviorRegulated), <<dir1Duration, dir2Duration>>),
       health["LightsGPIO"],
       timerSleep, roundSleep, attemptSleep, steady, waited,
       OnlyIf(control # "sleep", unchanged) >>

(* The way to the server never fails, and a round takes as long as its     *)
(* sleeps.                                                                 *)
NetworkFails ==
    \/ Rounds!SocketFails \/ Rounds!ConnectRefused
    \/ connector = "read" /\ (Rounds!ParseFails \/ Rounds!ConnectorCrashes)
    \/ connector = "connected" /\ Rounds!ReportLost /\ ~ReportSent

NetworkIsPerfect == ~NetworkFails /\ (Tick => ~Blocked)
=============================================================================
