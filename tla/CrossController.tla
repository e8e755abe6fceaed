--------------------------- MODULE CrossController --------------------------
(***************************************************************************)
(* The CrossController entity together with the two entities it calls,     *)
(* LightsGPIO (through the security monitor) and Diagnostics.              *)
(*                                                                         *)
(* CrossController runs two threads over one ICrossControlImpl:            *)
(*   - main starts the timer thread, then initialises the proxies the      *)
(*     timer thread uses, then serves SetCrossSchedule requests;           *)
(*   - the timer thread wakes every timerFreq ms and drives the lamps.     *)
(* Both touch the fields of impl under timerMutex: main waits for it, the  *)
(* timer thread only tries it and skips a turn when it is taken.           *)
(*                                                                         *)
(* A step of the model ends where the code blocks or lets the other thread *)
(* see a change: at a mutex operation, a call to another entity, a sleep.  *)
(***************************************************************************)
EXTENDS SecurityMonitor, LightsGpio

CONSTANT Schedules    \* the CrossSchedule values ControlSystem may send

ASSUME SchedulesType ==
    Schedules \subseteq [behavior : Int, crossMode : Int,
                         dir1Duration : Nat, dir2Duration : Nat]

VARIABLES
    main,          \* where the main thread is
    req,           \* the schedule main is serving
    snapshot,      \* main's copy of curCrossMode (SetCrossSchedule_impl:316)
    timer,         \* where the timer thread is
    stopLocal,     \* the timer thread's own timerStop (line 143)
    callMode,      \* the mode of the SetCrossLights call being made
    resultMode,    \* its result; 0 until a call succeeds (line 154)
    mutex          \* "free", or the thread that holds timerMutex

VARIABLES          \* the fields of ICrossControlImpl
    curBehavior, curCrossMode, curDuration,
    reqBehavior, reqCrossMode, dir1Duration, dir2Duration

VARIABLE modeFile  \* the mode in crossmode.bin, or one of the next two

NoFile    == -2
EmptyFile == -1

mainVars  == <<main, req, snapshot>>
timerVars == <<timer, stopLocal, callMode, resultMode>>
curVars   == <<curBehavior, curCrossMode, curDuration>>
reqVars   == <<reqBehavior, reqCrossMode, dir1Duration, dir2Duration>>
flowVars  == <<flow1, flow2>>
vars == <<mainVars, timerVars, mutex, curVars, reqVars, modeFile,
          gpioVars, flowVars, health>>

NoSchedule == [behavior |-> 0, crossMode |-> 0, dir1Duration |-> 0, dir2Duration |-> 0]

BlinkGreenDuration == 3
RedYellowDuration  == 3

(* impl.timerStop: set to false by the initialiser, assigned nowhere else. *)
ImplTimerStop == FALSE

Init ==
    /\ GpioInit /\ MonitorInit /\ DiagnosticsInit
    /\ main = "create" /\ req = NoSchedule /\ snapshot = 0
    /\ timer = "none" /\ stopLocal = TRUE /\ callMode = 0 /\ resultMode = 0
    /\ mutex = "free"
    /\ curBehavior = BehaviorUnregulated
    /\ curCrossMode = Unregulated1BlinkYellow2BlinkYellow
    /\ curDuration = 0
    /\ reqBehavior = BehaviorUnregulated
    /\ reqCrossMode = Unregulated1BlinkYellow2BlinkYellow
    /\ dir1Duration = 0 /\ dir2Duration = 0
    /\ modeFile = NoFile
-----------------------------------------------------------------------------
(***************************************************************************)
(* The main thread: CreateICrossControlImpl.                               *)
(***************************************************************************)
CreateTimerThread ==
    /\ main = "create"
    /\ main' = "proxy"
    /\ timer' = "try"
    /\ UNCHANGED <<req, snapshot, stopLocal, callMode, resultMode, mutex, curVars,
                   reqVars, modeFile, gpioVars, flowVars, health>>

InitProxies ==
    /\ main = "proxy"
    /\ main' = "hello"
    /\ UNCHANGED <<req, snapshot, timerVars, mutex, curVars, reqVars, modeFile,
                   gpioVars, flowVars, health>>

Hello ==
    /\ main = "hello"
    /\ Collect("CrossController", 0)
    /\ main' = "file"
    /\ UNCHANGED <<req, snapshot, timerVars, mutex, curVars, reqVars, modeFile,
                   gpioVars, flowVars>>

(* open(O_WRONLY | O_CREAT): creates an empty file, leaves an existing one *)
(* alone; a failure is printed and ignored.                                *)
CreateModeFile ==
    /\ main = "file"
    /\ main' = "recv"
    /\ modeFile' \in {modeFile, IF modeFile = NoFile THEN EmptyFile ELSE modeFile}
    /\ UNCHANGED <<req, snapshot, timerVars, mutex, curVars, reqVars, gpioVars,
                   flowVars, health>>

(***************************************************************************)
(* The main thread: the dispatch loop and SetCrossSchedule_impl.           *)
(***************************************************************************)
ReceiveSchedule ==
    /\ main = "recv"
    /\ req' \in Schedules
    /\ main' = "lock"
    /\ UNCHANGED <<snapshot, timerVars, mutex, curVars, reqVars, modeFile,
                   gpioVars, flowVars, health>>

(* Mutant: the handler does not wait for timerMutex. *)
LockScheduleUnguarded ==
    /\ main = "lock"
    /\ mutex' = "main"
    /\ main' = "update"
    /\ UNCHANGED <<req, snapshot, timerVars, curVars, reqVars, modeFile,
                   gpioVars, flowVars, health>>

LockSchedule ==
    /\ main = "lock"
    /\ mutex = "free"
    /\ mutex' = "main"
    /\ main' = "update"
    /\ UNCHANGED <<req, snapshot, timerVars, curVars, reqVars, modeFile,
                   gpioVars, flowVars, health>>

UpdateSchedule ==
    /\ main = "update"
    /\ reqBehavior'  = req.behavior
    /\ reqCrossMode' = req.crossMode
    /\ dir1Duration' = req.dir1Duration
    /\ dir2Duration' = req.dir2Duration
    /\ snapshot' = curCrossMode
    /\ mutex' = "free"
    /\ main' = "log"
    /\ UNCHANGED <<req, timerVars, curVars, modeFile, gpioVars, flowVars, health>>

(* Mutant: the mode reported is the requested one. *)
LogScheduleRequested ==
    /\ main = "log"
    /\ Collect("CrossController", req.crossMode)
    /\ main' = "recv"
    /\ req' = NoSchedule
    /\ snapshot' = 0
    /\ UNCHANGED <<timerVars, mutex, curVars, reqVars, modeFile, gpioVars, flowVars>>

(* LogEvent(curCrossMode), the reply, and the flush of the next iteration. *)
LogSchedule ==
    /\ main = "log"
    /\ Collect("CrossController", snapshot)
    /\ main' = "recv"
    /\ req' = NoSchedule
    /\ snapshot' = 0
    /\ UNCHANGED <<timerVars, mutex, curVars, reqVars, modeFile, gpioVars, flowVars>>
-----------------------------------------------------------------------------
(***************************************************************************)
(* The timer thread: RegulatedBehaviorRoutine.  "try" is the sleep between *)
(* two turns and the TryLock that ends it; `while (!timerStop)' tests a    *)
(* local variable, so it does not matter on which side of the sleep.       *)
(***************************************************************************)
NextTurn == IF stopLocal THEN "exited" ELSE "try"

TryLock ==
    /\ timer = "try"
    /\ mutex = "free"
    /\ mutex' = "timer"
    /\ timer' = "decide"
    /\ UNCHANGED <<mainVars, stopLocal, callMode, resultMode, curVars, reqVars,
                   modeFile, gpioVars, flowVars, health>>

(* Mutant: the lock is not even tried. *)
TryLockFailsAlways ==
    /\ timer = "try"
    /\ timer' = NextTurn
    /\ UNCHANGED <<mainVars, stopLocal, callMode, resultMode, mutex, curVars,
                   reqVars, modeFile, gpioVars, flowVars, health>>

TryLockFails ==
    /\ timer = "try"
    /\ mutex # "free"
    /\ timer' = NextTurn
    /\ UNCHANGED <<mainVars, stopLocal, callMode, resultMode, mutex, curVars,
                   reqVars, modeFile, gpioVars, flowVars, health>>

(* Switch on reqBehavior: the mode to call SetCrossLights with ... *)
ModeToSet ==
    CASE reqBehavior = BehaviorManual      -> reqCrossMode
      [] reqBehavior = BehaviorUnregulated -> Unregulated1BlinkYellow2BlinkYellow
      [] OTHER                             -> GetNextRegulatedMode(curCrossMode)

(* Mutant: the cycle goes on without looking at curDuration. *)
DecideCallAnyTime ==
    /\ timer = "decide"
    /\ reqBehavior \in Behaviors
    /\ callMode' = ModeToSet
    /\ timer' = "call"
    /\ UNCHANGED <<mainVars, stopLocal, resultMode, mutex, curVars, reqVars,
                   modeFile, gpioVars, flowVars, health>>

DecideCall ==
    /\ timer = "decide"
    /\ reqBehavior \in Behaviors
    /\ reqBehavior = BehaviorRegulated => curDuration = 0
    /\ callMode' = ModeToSet
    /\ timer' = "call"
    /\ UNCHANGED <<mainVars, stopLocal, resultMode, mutex, curVars, reqVars,
                   modeFile, gpioVars, flowVars, health>>

(* Mutant: the count-down does not stop at 0. *)
CountDownBelowZero ==
    /\ timer = "decide"
    /\ reqBehavior = BehaviorRegulated
    /\ curDuration' = curDuration - 1
    /\ timer' = "sync"
    /\ UNCHANGED <<mainVars, stopLocal, callMode, resultMode, mutex, curBehavior,
                   curCrossMode, reqVars, modeFile, gpioVars, flowVars, health>>

(* ... or, in the middle of a regulated phase, only count down ... *)
CountDown ==
    /\ timer = "decide"
    /\ reqBehavior = BehaviorRegulated
    /\ curDuration > 0
    /\ curDuration' = curDuration - 1
    /\ timer' = "sync"
    /\ UNCHANGED <<mainVars, stopLocal, callMode, resultMode, mutex, curBehavior,
                   curCrossMode, reqVars, modeFile, gpioVars, flowVars, health>>

(* ... or, for a behavior the switch has no case for, do nothing. *)
DecideNothing ==
    /\ timer = "decide"
    /\ reqBehavior \notin Behaviors
    /\ timer' = "sync"
    /\ UNCHANGED <<mainVars, stopLocal, callMode, resultMode, mutex, curVars,
                   reqVars, modeFile, gpioVars, flowVars, health>>

(***************************************************************************)
(* LightsGpioProxy_SetCrossLights.  Before InitProxies the proxy is all    *)
(* zeros and the call is undefined behaviour: the entity dies on a null    *)
(* dispatch table, or the call returns an error.                           *)
(***************************************************************************)
CallCrash ==
    /\ timer = "call" /\ main = "proxy"
    /\ main' = "crashed" /\ timer' = "crashed"
    /\ UNCHANGED <<req, snapshot, stopLocal, callMode, resultMode, mutex, curVars,
                   reqVars, modeFile, gpioVars, flowVars, health>>

CallWithoutProxy ==
    /\ timer = "call" /\ main = "proxy"
    /\ timer' = "refused"
    /\ UNCHANGED <<mainVars, stopLocal, callMode, resultMode, mutex, curVars,
                   reqVars, modeFile, gpioVars, flowVars, health>>

CallGranted ==
    /\ timer = "call" /\ main # "proxy"
    /\ Grant(SetCrossLightsRequest(callMode))
    /\ GpioReceive(callMode)
    /\ timer' = "wait"
    /\ UNCHANGED <<mainVars, stopLocal, callMode, resultMode, mutex, curVars,
                   reqVars, modeFile, health>>

CallDenied ==
    /\ timer = "call" /\ main # "proxy"
    /\ Deny(SetCrossLightsRequest(callMode))
    /\ timer' = "refused"
    /\ UNCHANGED <<mainVars, stopLocal, callMode, resultMode, mutex, curVars,
                   reqVars, modeFile, gpioVars, health>>

CallReturns ==
    /\ timer = "wait"
    /\ GpioReply
    /\ resultMode' = lights
    /\ timer' = "granted"
    /\ UNCHANGED <<mainVars, stopLocal, callMode, mutex, curVars, reqVars,
                   modeFile, flowVars, health>>

GetNextDuration(mode) ==
    CASE mode = Regulated1Green2Red        -> dir1Duration
      [] mode = Regulated1BlinkGreen2Red   -> BlinkGreenDuration
      [] mode = Regulated1Yellow2RedYellow -> RedYellowDuration
      [] mode = Regulated1Red2Green        -> dir2Duration
      [] mode = Regulated1Red2BlinkGreen   -> BlinkGreenDuration
      [] mode = Regulated1RedYellow2Yellow -> RedYellowDuration
      [] OTHER -> 0

(* Mutant: only the regulated case assigns curDuration. *)
CommitKeepsDuration ==
    /\ timer = "granted"
    /\ curBehavior' = reqBehavior
    /\ curCrossMode' = resultMode
    /\ curDuration' = IF reqBehavior = BehaviorRegulated
                      THEN GetNextDuration(resultMode) ELSE curDuration
    /\ callMode' = 0
    /\ timer' = "sync"
    /\ UNCHANGED <<mainVars, stopLocal, resultMode, mutex, reqVars, modeFile,
                   gpioVars, flowVars, health>>

(* NK_EOK: the requested behavior and the mode set become the current ones. *)
Commit ==
    /\ timer = "granted"
    /\ curBehavior' = reqBehavior
    /\ curCrossMode' = resultMode
    /\ curDuration' = IF reqBehavior = BehaviorRegulated
                      THEN GetNextDuration(resultMode) ELSE 0
    /\ callMode' = 0
    /\ timer' = "sync"
    /\ UNCHANGED <<mainVars, stopLocal, resultMode, mutex, reqVars, modeFile,
                   gpioVars, flowVars, health>>

(* Mutant: the error is taken for a change of the lamps. *)
RefuseAsCommit ==
    /\ timer = "refused"
    /\ reqBehavior' = curBehavior
    /\ curCrossMode' = callMode
    /\ callMode' = 0
    /\ timer' = "sync"
    /\ UNCHANGED <<mainVars, stopLocal, resultMode, mutex, curBehavior, curDuration,
                   reqCrossMode, dir1Duration, dir2Duration, modeFile, gpioVars,
                   flowVars, health>>

(* Mutant: the refused behavior stays requested. *)
RefuseKeepsRequest ==
    /\ timer = "refused"
    /\ callMode' = 0
    /\ timer' = "sync"
    /\ UNCHANGED <<mainVars, stopLocal, resultMode, mutex, curVars, reqVars,
                   modeFile, gpioVars, flowVars, health>>

(* An error: back to the current behavior; reqCrossMode and the durations  *)
(* of the refused schedule stay.                                           *)
Refuse ==
    /\ timer = "refused"
    /\ reqBehavior' = curBehavior
    /\ callMode' = 0
    /\ timer' = "sync"
    /\ UNCHANGED <<mainVars, stopLocal, resultMode, mutex, curVars, reqCrossMode,
                   dir1Duration, dir2Duration, modeFile, gpioVars, flowVars, health>>

(* Mutant: timerMutex is not released. *)
SyncWithoutUnlock ==
    /\ timer = "sync"
    /\ stopLocal' = ImplTimerStop
    /\ timer' = "write"
    /\ UNCHANGED <<mainVars, callMode, resultMode, mutex, curVars, reqVars,
                   modeFile, gpioVars, flowVars, health>>

SyncAndUnlock ==
    /\ timer = "sync"
    /\ stopLocal' = ImplTimerStop
    /\ mutex' = "free"
    /\ timer' = "write"
    /\ UNCHANGED <<mainVars, callMode, resultMode, curVars, reqVars, modeFile,
                   gpioVars, flowVars, health>>

(* fopen may fail, and its failure is ignored. *)
WriteModeToFile ==
    /\ timer = "write"
    /\ modeFile' \in {modeFile, resultMode}
    /\ resultMode' = 0
    /\ timer' = NextTurn
    /\ UNCHANGED <<mainVars, stopLocal, callMode, mutex, curVars, reqVars,
                   gpioVars, flowVars, health>>
-----------------------------------------------------------------------------
GpioStep ==
    /\ GpioHello \/ SetCrossLights \/ GpioReport
    /\ UNCHANGED <<mainVars, timerVars, mutex, curVars, reqVars, modeFile, flowVars>>

BootStep == CreateTimerThread \/ InitProxies \/ Hello \/ CreateModeFile

ServeStep == LockSchedule \/ UpdateSchedule \/ LogSchedule

TimerStep ==
    \/ TryLock \/ TryLockFails
    \/ DecideCall \/ CountDown \/ DecideNothing
    \/ CallCrash \/ CallWithoutProxy \/ CallGranted \/ CallDenied \/ CallReturns
    \/ Commit \/ Refuse \/ SyncAndUnlock \/ WriteModeToFile

(* The entity is gone: LightsGPIO and Diagnostics wait for calls for ever. *)
Crashed == main = "crashed" /\ gpio = "recv" /\ UNCHANGED vars

Next == BootStep \/ ReceiveSchedule \/ ServeStep \/ TimerStep \/ GpioStep \/ Crashed

Spec == Init /\ [][Next]_vars

(***************************************************************************)
(* Fairness.  Threads that can run do run.  Acquiring timerMutex is        *)
(* strongly fair: the timer thread sleeps three seconds between two turns  *)
(* and main holds the mutex for six assignments of a request that comes    *)
(* every ten seconds, so neither finds it taken for ever.  Nothing forces  *)
(* ControlSystem to send a schedule.                                       *)
(***************************************************************************)
Fairness ==
    /\ WF_vars(BootStep) /\ WF_vars(ServeStep) /\ SF_vars(LockSchedule)
    /\ WF_vars(TimerStep) /\ SF_vars(TryLock)
    /\ WF_vars(GpioStep)

FairSpec == Spec /\ Fairness
-----------------------------------------------------------------------------
InTimerSection ==
    timer \in {"decide", "call", "wait", "granted", "refused", "sync"}

(* Type invariant of both threads and of everything they share. *)
TypeOK ==
    /\ main \in {"create", "proxy", "hello", "file", "recv", "lock", "update",
                 "log", "crashed"}
    /\ timer \in {"none", "try", "decide", "call", "wait", "granted", "refused",
                  "sync", "write", "exited", "crashed"}
    /\ req \in Schedules \cup {NoSchedule}
    /\ snapshot \in Int /\ callMode \in Int /\ resultMode \in Int
    /\ stopLocal \in BOOLEAN
    /\ mutex \in {"free", "main", "timer"}
    /\ curBehavior \in Behaviors /\ curCrossMode \in Int /\ curDuration \in Nat
    /\ reqBehavior \in Int /\ reqCrossMode \in Int
    /\ dir1Duration \in Nat /\ dir2Duration \in Nat
    /\ modeFile \in Int
    /\ lights \in Int /\ request \in Int
    /\ gpio \in {"boot", "recv", "serve", "report", "reply"}
    /\ flow1 \in FlowStates /\ flow2 \in FlowStates
    /\ health \in [Sources -> Int]

(* CrossController's idea of the lamps is what they show: curCrossMode is  *)
(* only behind while a granted call is between LightsGPIO's assignment     *)
(* (lights_gpio.c:70) and the timer thread's (cross_controller.c:168).     *)
ControllerInStep ==
    \/ curCrossMode = lights
    \/ timer \in {"wait", "granted"} /\ gpio # "serve" /\ lights = callMode

(* The current behavior and the current mode belong together: unregulated  *)
(* means blinking yellow, regulated means a mode of the cycle.  A schedule *)
(* that arrived while a call was under way would break this, committing    *)
(* its own behavior with the mode of the call (lines 166-169, 310).        *)
BehaviorMatchesMode ==
    /\ curBehavior = BehaviorUnregulated =>
           curCrossMode = Unregulated1BlinkYellow2BlinkYellow
    /\ curBehavior = BehaviorRegulated => curCrossMode \in RegulatedModes
    /\ curBehavior = BehaviorManual => curCrossMode \in PermittedModes

(* The count-down belongs to a regulated phase, and never exceeds the      *)
(* length of a phase whose length no schedule sets (lines 169, 194, 226).  *)
PhaseClock ==
    /\ curDuration > 0 => curBehavior = BehaviorRegulated
    /\ curCrossMode \in {Regulated1BlinkGreen2Red, Regulated1Red2BlinkGreen} =>
           curDuration <= BlinkGreenDuration
    /\ curCrossMode \in {Regulated1Yellow2RedYellow, Regulated1RedYellow2Yellow} =>
           curDuration <= RedYellowDuration

(* A phase of the regulated cycle is never cut short by the cycle itself:  *)
(* lamps change during a count-down only for another behavior.             *)
PhaseNotCutShort ==
    [][lights' # lights /\ curDuration > 0 =>
          reqBehavior \in {BehaviorManual, BehaviorUnregulated}]_vars

(* Lamps change only to what the request in force asks for at that very    *)
(* moment, from what they show at that moment; LightsGPIO changes them     *)
(* long after the timer thread has read reqBehavior and curCrossMode.      *)
LightsFollowRequest ==
    [][lights' # lights =>
          /\ reqBehavior \in Behaviors
          /\ lights' = ModeToSet
          /\ reqBehavior = BehaviorRegulated =>
                 lights' = GetNextRegulatedMode(lights)]_vars

(* A turn settles what is requested: when the timer thread is about to     *)
(* unlock, the requested behavior is the current one, or one without a     *)
(* case.  A turn that only counts down (line 209) settles nothing itself:  *)
(* it must not happen while another behavior is still in force.            *)
TurnSettlesRequest ==
    timer = "sync" => reqBehavior = curBehavior \/ reqBehavior \notin Behaviors

(* The cycle (cross_controller.c:99) and the policy (security.psl:33-69,   *)
(* 160) are written apart, in two languages.  Where the lamps show a mode  *)
(* with a successor the monitor denies no step of the cycle, however the   *)
(* lamps got there: the regulated behavior is only ever given up (line     *)
(* 233) where the cycle itself has no way on.  And blinking yellow can be  *)
(* had from either green phase and from red against red.  Needs a monitor  *)
(* that forgets denied requests.                                           *)
CycleNeverRefused ==
    [][CallDenied =>
          /\ reqBehavior = BehaviorRegulated => GetNextRegulatedMode(lights) = 0
          /\ reqBehavior = BehaviorUnregulated =>
                 lights \notin {Unregulated1BlinkYellow2BlinkYellow, \h0101,
                                Regulated1Green2Red, Regulated1Red2Green}]_vars

(* Nobody waits in a circle: whoever main waits for holds timerMutex and   *)
(* is between TryLock and Unlock (cross_controller.c:148-244), not asleep  *)
(* and not main itself; whoever the timer thread waits for is serving it,  *)
(* or about to take its call.  ScheduleAnswered rests on this.             *)
NoCircularWait ==
    /\ main = "lock" /\ mutex # "free" => mutex = "timer" /\ InTimerSection
    /\ timer = "wait" => gpio \in {"serve", "report", "reply"}
    /\ timer = "call" => gpio \in {"boot", "recv"}

(* Refinement: CrossController is a client of LightsGPIO that only sends   *)
(* messages made by LightsGpioProxy_SetCrossLights, for modes a schedule   *)
(* or the regulated cycle names, and reports to Diagnostics, besides the   *)
(* greeting, only modes the policy permits.                                *)
CallModes ==
    RegulatedModes \cup {Unregulated1BlinkYellow2BlinkYellow, 0}
        \cup {schedule.crossMode : schedule \in Schedules}

Secured == INSTANCE SecuredLights WITH
    Messages <- {SetCrossLightsRequest(mode) : mode \in CallModes},
    EventCodes <- PermittedModes \cup {0}

ImplementsSecuredLights == Secured!Spec

(* The lamps CrossController drives behave as the abstract intersection,   *)
(* when the monitor forgets denied requests.                               *)
ImplementsIntersection == Secured!Crossing!Spec
-----------------------------------------------------------------------------
Halted == timer \in {"exited", "crashed"}

(* Every schedule the entity accepts is answered, although the handler has *)
(* to wait for a mutex the timer thread holds across a call.               *)
ScheduleAnswered == main = "lock" ~> main \in {"recv", "crashed"}

(* A requested behavior does not stay pending: it becomes current, or is   *)
(* given up for the current one, or is replaced by one with no case.       *)
RequestResolved ==
    reqBehavior # curBehavior ~>
        (reqBehavior = curBehavior \/ reqBehavior \notin Behaviors \/ Halted)

(* As long as the regulated behavior is requested, and not given up, both  *)
(* directions get green again and again, in the face of any number of new  *)
(* regulated schedules.                                                    *)
SteadyRegulatedCycles ==
    <>[](reqBehavior = BehaviorRegulated /\ ~Halted) =>
        /\ []<>(lights = Regulated1Green2Red)
        /\ []<>(lights = Regulated1Red2Green)
-----------------------------------------------------------------------------
(***************************************************************************)
(* What the repository says of the program and the code does not do.       *)
(***************************************************************************)

(* "Write mode to vfs" (cross_controller.c:246) and README.md: "writing    *)
(* the operating mode to the virtual file system": what is written is the  *)
(* mode the crossing is in.  Asked only of the time after initialisation.  *)
ModeFileShowsMode ==
    [][modeFile' # modeFile /\ modeFile' # EmptyFile /\ main = "recv" =>
          modeFile' = curCrossMode]_vars

(* "Each method of the proxy object will be implemented by sending a       *)
(* request to the lights gpio" (lights_gpio_proxy.h:48): no method is      *)
(* called on a proxy that is not initialised.                              *)
ProxyReadyBeforeUse == timer = "call" => main # "proxy"

(* "Synchronize timer params" (cross_controller.c:240): the timer thread   *)
(* ends when impl.timerStop tells it to.                                   *)
TimerStopsOnRequest == timer = "exited" => ImplTimerStop
=============================================================================
