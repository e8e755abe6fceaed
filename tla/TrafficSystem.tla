--------------------------- MODULE TrafficSystem ----------------------------
(***************************************************************************)
(* The whole traffic light: the rounds of ControlSystem drive              *)
(* CrossController, and both report to one Diagnostics.  A call of         *)
(* SetCrossSchedule is one step of both; ControlSystem then waits until    *)
(* CrossController is ready for the next call.                             *)
(*                                                                         *)
(* Three threads sleep: the timer thread between two turns, ControlSystem  *)
(* between two rounds, the Connector before every attempt to connect.  The *)
(* Connector also blocks, for as long as the network pleases: connect()    *)
(* and read() have no timeout of their own.  Time is counted in seconds    *)
(* and passes only when everybody sleeps or waits: what happens between    *)
(* two sleeps takes no time, but happens in any order with what others do  *)
(* in that second.                                                         *)
(***************************************************************************)
EXTENDS Integers, Sequences

CONSTANTS
    IntHalf, NumRetries, Posts, GarbageModes, GarbageCodes, GarbageBehaviors,
    DenyRollsBack

TimerFreq    == 3    \* DEFAULT_DURATION_FREQ
AttemptPause == 1    \* sleep(1)

(* Mutant: the rounds follow one another as fast as they can. *)
RoundPauseShort == 1

RoundPause == 10     \* KosThreadSleep(10000)

Seen == -1           \* no schedule waits for a turn of the timer thread

VARIABLES control, trafficMode, sysHealth, schedule,        \* ControlSystem
          connector, serving, attempts, wire, fetched,      \* Connector
          tlMode, received,                                 \* central server
          health                                            \* Diagnostics

VARIABLES main, req, snapshot, timer, stopLocal, callMode, resultMode, mutex,
          curBehavior, curCrossMode, curDuration,           \* CrossController
          reqBehavior, reqCrossMode, dir1Duration, dir2Duration, modeFile,
          lights, gpio, request,                            \* LightsGPIO
          flow1, flow2                                      \* security monitor

VARIABLES
    timerSleep,      \* seconds the timer thread has yet to sleep
    roundSleep,      \* seconds ControlSystem has yet to sleep
    attemptSleep,    \* seconds the Connector has yet to sleep
    steady,          \* seconds since the lamps changed, as far as TimerFreq
    unchanged,       \* the lamps show what they did before the round's first second
    waited           \* seconds since main applied a schedule no turn has seen, or Seen

roundVars == <<control, trafficMode, sysHealth, schedule, connector, serving, attempts,
               wire, fetched, tlMode, received>>
crossVars == <<main, req, snapshot, timer, stopLocal, callMode, resultMode, mutex,
               curBehavior, curCrossMode, curDuration, reqBehavior, reqCrossMode,
               dir1Duration, dir2Duration, modeFile, lights, gpio, request,
               flow1, flow2>>
clockVars == <<timerSleep, roundSleep, attemptSleep, steady, unchanged, waited>>
vars == <<roundVars, crossVars, health, clockVars>>

(* Whatever the server says, this is what a schedule looks like. *)
AnySchedule ==
    [behavior : Int, crossMode : Nat,
     dir1Duration : 0 .. 2 * IntHalf - 1, dir2Duration : 0 .. 2 * IntHalf - 1]

Crossing == INSTANCE CrossController WITH Schedules <- AnySchedule

(* The entities CrossController works with report to the same Diagnostics, *)
(* and report what they have set, or greet.                                *)
Rounds == INSTANCE ControlSystem WITH
    Reporters <- {"CrossController", "LightsGPIO"},
    EventCodes <- Crossing!PermittedModes \cup {0}

ASSUME ConstantsType ==
    /\ IntHalf \in Nat \ {0} /\ NumRetries \in Nat \ {0} /\ DenyRollsBack \in BOOLEAN
    /\ Posts \subseteq Seq([key : STRING, value : Seq(Rounds!Scalar)])
    /\ GarbageBehaviors \subseteq Int
    /\ \A mode \in GarbageModes : mode.duration1 \in Int /\ mode.duration2 \in Int

Init ==
    /\ Rounds!Init /\ Crossing!Init
    /\ timerSleep = 0 /\ roundSleep = 0 /\ attemptSleep = 0 /\ steady = 0
    /\ unchanged = FALSE /\ waited = Seen
-----------------------------------------------------------------------------
(***************************************************************************)
(* Time.                                                                   *)
(***************************************************************************)
LampsWatched ==
    /\ steady' = IF lights' = lights THEN steady ELSE 0
    /\ unchanged' = (unchanged /\ lights' = lights)

(* What unchanged compares with is the second before a round begins. *)
RoundBegins  == control \in {"hello", "sleep"} /\ control' # control
RoundWatched == unchanged' = IF RoundBegins THEN steady > 0 ELSE unchanged

(* Applied by main, a schedule waits for the timer thread to decide. *)
ScheduleApplied == main = "update" /\ main' = "log"
TurnDecides     == timer = "decide" /\ timer' # "decide"

SchedulesWatched ==
    waited' = IF ScheduleApplied /\ waited = Seen THEN 0
              ELSE IF TurnDecides THEN Seen ELSE waited

TimerAsleep   == timer = "try" /\ timerSleep > 0
RoundAsleep   == control = "sleep" /\ roundSleep > 0
AttemptAsleep == connector = "connect" /\ attemptSleep > 0

(* connect() is under way, or read() waits for the server's answer. *)
Blocked ==
    \/ connector = "connect" /\ attemptSleep = 0
    \/ connector = "connected" /\ serving = "mode"
    \/ connector = "read"

(* Everybody sleeps or waits, or is gone. *)
Quiet ==
    /\ TimerAsleep \/ Crossing!Halted
    /\ main \in {"recv", "crashed"} /\ gpio = "recv"
    /\ RoundAsleep \/ AttemptAsleep \/ Blocked \/ control = "crashed"

OneLess(seconds) == IF seconds = 0 THEN 0 ELSE seconds - 1

Tick ==
    /\ Quiet
    /\ timerSleep' = OneLess(timerSleep)
    /\ roundSleep' = OneLess(roundSleep)
    /\ attemptSleep' = OneLess(attemptSleep)
    /\ steady' = IF steady = TimerFreq THEN steady ELSE steady + 1
    /\ waited' = IF waited = Seen \/ Crossing!Halted THEN waited ELSE waited + 1
    /\ UNCHANGED <<roundVars, crossVars, health, unchanged>>
-----------------------------------------------------------------------------
(***************************************************************************)
(* ControlSystem, the Connector and the server.                            *)
(***************************************************************************)

(* The last SetCrossSchedule has returned. *)
ScheduleServed == main \in {"recv", "crashed"}

(* Each attempt to connect is made after a sleep. *)
AttemptSleepSet == attemptSleep' = IF connector' = "connect" THEN AttemptPause ELSE 0

(* Everything in a round but the call of CrossController. *)
RoundStep ==
    /\ \/ Rounds!Hello \/ Rounds!SelfDiagnostic
       \/ Rounds!CallGetTrafficMode
       \/ Rounds!GetTrafficModeReturns \/ Rounds!GetTrafficModeAsserts
       \/ Rounds!GetTrafficModeFails
       \/ ScheduleServed /\ Rounds!CallSendDiagnostics
       \/ Rounds!SendDiagnosticsReturns
       \/ ScheduleServed /\ Rounds!SendDiagnosticsFails
       \/ ~RoundAsleep /\ Rounds!Wake
    /\ roundSleep' = IF control' = "sleep" THEN RoundPause ELSE 0
    /\ AttemptSleepSet
    /\ RoundWatched
    /\ UNCHANGED <<crossVars, timerSleep, steady, waited>>

(* The dispatch loop of CrossController gets the schedule. *)
ReceiveSchedule ==
    /\ main = "recv" /\ main' = "lock"
    /\ req' = schedule'
    /\ UNCHANGED <<snapshot, timer, stopLocal, callMode, resultMode, mutex, curBehavior,
                   curCrossMode, curDuration, reqBehavior, reqCrossMode, dir1Duration,
                   dir2Duration, modeFile, lights, gpio, request, flow1, flow2>>

CrossingGone == main = "crashed" /\ UNCHANGED crossVars

(* Mutant: a schedule is only sent when it is a new one. *)
SetCrossScheduleOnce ==
    /\ Rounds!SetCrossSchedule
    /\ IF schedule' = schedule THEN UNCHANGED crossVars
       ELSE ReceiveSchedule \/ CrossingGone
    /\ UNCHANGED clockVars

(* The call reaches CrossController, or fails when that entity is gone. *)
SetCrossSchedule ==
    /\ Rounds!SetCrossSchedule
    /\ ReceiveSchedule \/ CrossingGone
    /\ UNCHANGED clockVars

(* The socket is opened before the sleep, the attempt made after it. *)
ConnectorStep ==
    /\ \/ Rounds!Greet
       \/ Rounds!ConnectorStep /\ (AttemptAsleep <=> Rounds!SocketFails)
    /\ AttemptSleepSet
    /\ UNCHANGED <<crossVars, timerSleep, roundSleep, steady, unchanged, waited>>

ServerStep ==
    /\ Rounds!ServerStep
    /\ UNCHANGED <<crossVars, clockVars>>

(* While the server has a GET to answer: of what is posted before, only    *)
(* the last counts.                                                        *)
OperatorPosts ==
    /\ connector = "connected" /\ serving = "mode"
    /\ Rounds!OperatorPosts
    /\ UNCHANGED <<crossVars, clockVars>>
-----------------------------------------------------------------------------
(***************************************************************************)
(* CrossController and LightsGPIO.  The mode file, which nobody reads, is  *)
(* written without failures here.                                          *)
(***************************************************************************)
FileWorks ==
    /\ main = "file" /\ main' # "file" => modeFile' # Crossing!NoFile
    /\ timer = "write" /\ timer' # "write" => modeFile' = resultMode

(* Mutant: the thread sleeps with the mutex in its hands. *)
TimerTurnSleepsEarly ==
    /\ ~TimerAsleep
    /\ Crossing!TimerStep
    /\ timerSleep' = IF timer' \in {"sync", "try"} THEN TimerFreq ELSE 0

(* Mutant: the thread sleeps a second less. *)
TimerTurnSleepsLess ==
    /\ ~TimerAsleep
    /\ Crossing!TimerStep
    /\ timerSleep' = IF timer' = "try" THEN TimerFreq - 1 ELSE 0

TimerTurn ==
    /\ ~TimerAsleep
    /\ Crossing!TimerStep
    /\ timerSleep' = IF timer' = "try" THEN TimerFreq ELSE 0

CrossStep ==
    /\ \/ TimerTurn
       \/ /\ Crossing!BootStep \/ Crossing!ServeStep \/ Crossing!GpioStep
          /\ UNCHANGED timerSleep
    /\ FileWorks
    /\ LampsWatched /\ SchedulesWatched
    /\ UNCHANGED <<roundVars, roundSleep, attemptSleep>>
-----------------------------------------------------------------------------
Next ==
    \/ RoundStep \/ SetCrossSchedule \/ ConnectorStep \/ ServerStep \/ OperatorPosts
    \/ CrossStep \/ Tick

Spec == Init /\ [][Next]_vars

(* Every thread that can run does, connect() and the transfer of an answer *)
(* come to an end, and time goes on.  Nothing makes the server answer.     *)
Fairness ==
    /\ WF_vars(RoundStep \/ SetCrossSchedule) /\ WF_vars(ConnectorStep)
    /\ WF_vars(CrossStep) /\ WF_vars(Tick)

FairSpec == Spec /\ Fairness
-----------------------------------------------------------------------------
(* Type invariant of the clocks; who sleeps is where its code sleeps. *)
TypeOK ==
    /\ timerSleep \in 0 .. TimerFreq
    /\ roundSleep \in 0 .. RoundPause
    /\ attemptSleep \in 0 .. AttemptPause
    /\ steady \in 0 .. TimerFreq
    /\ unchanged \in BOOLEAN
    /\ waited \in Nat \cup {Seen}
    /\ timerSleep > 0 => timer = "try"
    /\ roundSleep > 0 => control = "sleep"
    /\ attemptSleep > 0 => connector = "connect"

(* Time only passes while timerMutex is free: nobody goes to sleep with    *)
(* it, so main is never held up longer than a turn takes, and the turn     *)
(* main makes the timer thread skip is one of the same second              *)
(* (cross_controller.c:148 and 255).                                       *)
MutexFreeInSleep == Quiet /\ main # "crashed" => mutex = "free"

(* No schedule is overlooked: within TimerFreq seconds of main applying it *)
(* a turn of the timer thread decides on it.  A turn that finds the mutex  *)
(* taken by main is skipped (cross_controller.c:148), but never two turns  *)
(* in a row, since the next schedule is at least RoundPause away.  Only a  *)
(* thread that has exited or crashed lets a schedule wait for ever.        *)
NoScheduleOverlooked == waited <= TimerFreq

(* The lamps do not flicker: whatever schedules arrive in whatever second  *)
(* of the timer thread's sleep, granted, refused or skipped, lamps that    *)
(* change have been shown for the whole of that sleep.  Excepted is the    *)
(* first turn, which nothing precedes: stopLocal is set until it ends.     *)
NoFlicker == [][lights' # lights => steady >= TimerFreq \/ stopLocal]_vars

(* ControlSystem, the Connector and the server behave as specified by      *)
(* ControlSystem, where CrossController was a variable and Diagnostics was *)
(* used by anybody with any code: what CrossController and LightsGPIO      *)
(* report is what is expected of them there, whatever schedules come.      *)
ImplementsRounds == Rounds!Spec

(* What CrossController and LightsGPIO can see of Diagnostics. *)
OwnHealth ==
    [source \in Rounds!Sources |->
        IF source \in {"CrossController", "LightsGPIO"} THEN health[source]
        ELSE Rounds!NoEvent]

CrossingAlone == INSTANCE CrossController WITH
    Schedules <- AnySchedule, health <- OwnHealth

(* CrossController and LightsGPIO behave as specified by CrossController,  *)
(* where schedules came from nowhere: ControlSystem hands on nothing else, *)
(* with whatever garbage it was left with.                                 *)
ImplementsCrossing == CrossingAlone!Spec

(* The fairness both specifications assume is what the sleeps bring about: *)
(* neither thread finds timerMutex taken for ever, although the schedules  *)
(* and the turns keep falling into the same second.                        *)
SchedulingIsFair == Crossing!Fairness /\ Rounds!Fairness

(* A code of LightsGPIO: the mode set last, or 0 for its greeting. *)
ModeOf(code) == IF code = 0 THEN Crossing!DefaultLightsMode ELSE code

(* A report that reaches the server names the mode the lamps show, unless  *)
(* they have changed since the second before its round began: however long *)
(* the attempts to connect and the server's answer hold the round up, and  *)
(* whatever is lost, the codes are none of an earlier round.               *)
ReportSent == Rounds!PostReport(sysHealth)

ReportIsFresh ==
    [][ReportSent /\ unchanged => ModeOf(received'["LightsGPIO"]) = lights]_vars

(* The mode CrossController reports, after it has given the mutex back, is *)
(* the one the lamps show, although the timer thread need not wait for the *)
(* report to be made (cross_controller.c:316-322): at worst the lamps have *)
(* changed in this very second.                                            *)
OwnReportFits ==
    [][main = "log" /\ main' = "recv" =>
          health'["CrossController"] = lights \/ steady = 0]_vars

(* The lamps do as the server says. *)
Obeyed(plan) ==
    /\ plan.behavior = Crossing!BehaviorUnregulated =>
           <>[](lights = Crossing!Unregulated1BlinkYellow2BlinkYellow)
    /\ plan.behavior = Crossing!BehaviorManual => <>[](lights = plan.crossMode)
    /\ plan.behavior = Crossing!BehaviorRegulated =>
           /\ []<>(lights = Crossing!Regulated1Green2Red)
           /\ []<>(lights = Crossing!Regulated1Red2Green)

(* The operator posts no other mode, it is fetched, and the rounds go on. *)
LeftAlone(data) ==
    /\ <>[](tlMode = data /\ wire # Rounds!Lost /\ ~Crossing!Halted)
    /\ []<>(control = "schedule")

RefusedAgainAndAgain(plan) ==
    []<>(timer = "refused" /\ reqBehavior = plan.behavior)

(* What the operator may ask for, and what it means. *)
Orders == {[mode |-> data, plan |-> Rounds!Meaning(data)] : data \in Rounds!ServerModes}

(* A mode the operator leaves alone is in the end what the lamps follow,   *)
(* once fetching it succeeds and as long as the server answers, or it is   *)
(* tried and refused again and again: a request that is refused            *)
(* (cross_controller.c:201) is never forgotten, although CrossController   *)
(* gives it up each time, and no leftover of an earlier mode, a lost       *)
(* answer, a late one or a skipped turn outlasts it.                       *)
ObeyedOrRefused ==
    \A order \in Orders :
        LeftAlone(order.mode) => \/ Obeyed(order.plan)
                                \/ RefusedAgainAndAgain(order.plan)
-----------------------------------------------------------------------------
(* The server tells an operator who has posted a mode it knows "mode       *)
(* changed", "success" (central-server.py:46): left alone, the mode ends   *)
(* up in the lamps.  It need not: blinking yellow is only granted in a     *)
(* green phase, asking for it has made the greens as short as can be (its  *)
(* schedule has no durations), and the cycle that results takes as long    *)
(* as six rounds, so that every round can find it in the same wrong phase. *)
OperatorObeyed ==
    \A order \in Orders : LeftAlone(order.mode) => Obeyed(order.plan)
=============================================================================
