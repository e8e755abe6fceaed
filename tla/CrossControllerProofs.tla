----------------------- MODULE CrossControllerProofs ------------------------
(***************************************************************************)
(* What CrossController guarantees for every set of schedules and both     *)
(* ways the monitor may treat a denied request.  The argument goes in      *)
(* three layers: the mutex excludes (MutexInv); therefore nothing the      *)
(* timer thread has read changes under it while its call is under way      *)
(* (CallInv); therefore what it commits belongs together (StateInv).       *)
(***************************************************************************)
EXTENDS CrossController, MonitorProofs

(***************************************************************************)
(* Layer 1: timerMutex excludes, and there is no timer thread before main  *)
(* has created it.                                                         *)
(***************************************************************************)
MutexInv ==
    /\ main = "update" <=> mutex = "main"
    /\ InTimerSection => mutex = "timer"
    /\ main = "create" => timer = "none"

(* Main is never between its two assignments' ends while the timer thread  *)
(* is between TryLock and Unlock (cross_controller.c:148-244, 308-318).    *)
LEMMA MutualExclusion == Spec => []MutexInv
<1>1. Init => MutexInv
  BY DEF Init, MutexInv, InTimerSection
<1>2. MutexInv /\ [Next]_vars => MutexInv'
  <2> SUFFICES ASSUME MutexInv, [Next]_vars
               PROVE  MutexInv'
    OBVIOUS
  <2> USE DEF MutexInv, InTimerSection
  <2>1. CASE BootStep
    BY <2>1 DEF BootStep, CreateTimerThread, InitProxies, Hello, CreateModeFile,
                timerVars
  <2>2. CASE ReceiveSchedule
    BY <2>2 DEF ReceiveSchedule, timerVars
  <2>3. CASE ServeStep
    BY <2>3 DEF ServeStep, LockSchedule, UpdateSchedule, LogSchedule, timerVars
  <2>4. CASE TryLock \/ TryLockFails
    BY <2>4 DEF TryLock, TryLockFails, NextTurn, mainVars
  <2>5. CASE DecideCall \/ CountDown \/ DecideNothing
    BY <2>5 DEF DecideCall, CountDown, DecideNothing, mainVars
  <2>6. CASE CallCrash \/ CallWithoutProxy \/ CallGranted \/ CallDenied \/ CallReturns
    BY <2>6 DEF CallCrash, CallWithoutProxy, CallGranted, CallDenied, CallReturns,
                mainVars
  <2>7. CASE Commit \/ Refuse
    BY <2>7 DEF Commit, Refuse, mainVars
  <2>8. CASE SyncAndUnlock \/ WriteModeToFile
    BY <2>8 DEF SyncAndUnlock, WriteModeToFile, NextTurn, mainVars
  <2>9. CASE GpioStep \/ Crashed \/ UNCHANGED vars
    BY <2>9 DEF GpioStep, Crashed, vars, mainVars, timerVars
  <2> QED
    BY <2>1, <2>2, <2>3, <2>4, <2>5, <2>6, <2>7, <2>8, <2>9 DEF Next, TimerStep
<1> QED
  BY <1>1, <1>2, PTL DEF Spec
-----------------------------------------------------------------------------
(***************************************************************************)
(* Layer 2: types, and the call under way.                                 *)
(***************************************************************************)
Calling == timer \in {"call", "wait", "granted", "refused"}

(* The call under way is the one the fields of impl still ask for.         *)
CallInv ==
    /\ Calling => /\ callMode = ModeToSet
                  /\ reqBehavior \in Behaviors
                  /\ reqBehavior = BehaviorRegulated => curDuration = 0
    /\ timer = "granted" => resultMode = callMode

(* LightsGPIO serves a request exactly while the timer thread waits for    *)
(* the answer; the request is the permitted mode of that call.             *)
ServeInv ==
    /\ timer = "wait" <=> gpio \in {"serve", "report", "reply"}
    /\ timer = "wait" => request = callMode
    /\ timer \in {"wait", "granted"} => callMode \in PermittedModes

(* curCrossMode is what the lamps show, but between the assignment in      *)
(* LightsGPIO and the one in CrossController.                              *)
LampInv ==
    IF timer = "granted" \/ gpio \in {"report", "reply"}
    THEN lights = callMode
    ELSE lights = curCrossMode

(* The regulated cycle stays in the cycle. *)
LEMMA NextModes ==
    ASSUME NEW mode
    PROVE  GetNextRegulatedMode(mode) \in RegulatedModes \cup {0}
BY DEF GetNextRegulatedMode, RegulatedModes

(* Every mode of the cycle, and blinking yellow, is permitted; 0 is not.   *)
LEMMA CyclePermitted ==
    /\ RegulatedModes \subseteq PermittedModes
    /\ Unregulated1BlinkYellow2BlinkYellow \in PermittedModes
    /\ 0 \notin PermittedModes
    /\ PermittedModes \subseteq Int
BY DEF RegulatedModes, PermittedModes, Unregulated1BlinkYellow2BlinkYellow,
       Regulated1Green2Red, Regulated1BlinkGreen2Red, Regulated1Yellow2RedYellow,
       Regulated1Red2Green, Regulated1Red2BlinkGreen, Regulated1RedYellow2Yellow

(* Whatever is requested, the mode to set is an integer. *)
LEMMA ModeToSetType ==
    ASSUME reqCrossMode \in Int
    PROVE  ModeToSet \in Int
<1>1. GetNextRegulatedMode(curCrossMode) \in RegulatedModes \cup {0}
  BY NextModes
<1>2. RegulatedModes \cup {0} \subseteq Int
  BY CyclePermitted
<1>3. Unregulated1BlinkYellow2BlinkYellow \in Int
  BY CyclePermitted
<1> QED
  BY <1>1, <1>2, <1>3 DEF ModeToSet

(* The length of a phase is never negative. *)
LEMMA DurationType ==
    ASSUME dir1Duration \in Nat, dir2Duration \in Nat, NEW mode
    PROVE  GetNextDuration(mode) \in Nat
<1>1. GetNextDuration(mode) \in
          {dir1Duration, dir2Duration, BlinkGreenDuration, RedYellowDuration, 0}
  BY DEF GetNextDuration
<1> QED
  BY <1>1 DEF BlinkGreenDuration, RedYellowDuration

LEMMA TypeStep ==
    ASSUME TypeOK, MutexInv, CallInv, [Next]_vars
    PROVE  TypeOK'
<1> USE DEF TypeOK
<1>1. CASE BootStep
  BY <1>1 DEF BootStep, CreateTimerThread, InitProxies, Hello, CreateModeFile,
              Collect, Sources, EmptyFile, timerVars, curVars, reqVars, gpioVars,
              flowVars
<1>2. CASE ReceiveSchedule
  BY <1>2 DEF ReceiveSchedule, timerVars, curVars, reqVars, gpioVars, flowVars
<1>3. CASE LockSchedule
  BY <1>3 DEF LockSchedule, timerVars, curVars, reqVars, gpioVars, flowVars
<1>4. CASE UpdateSchedule
  <2>1. /\ req.behavior \in Int /\ req.crossMode \in Int
        /\ req.dir1Duration \in Nat /\ req.dir2Duration \in Nat
    BY SchedulesType DEF NoSchedule
  <2> QED
    BY <1>4, <2>1 DEF UpdateSchedule, timerVars, curVars, gpioVars, flowVars
<1>5. CASE LogSchedule
  BY <1>5 DEF LogSchedule, Collect, Sources, timerVars, curVars, reqVars,
              gpioVars, flowVars
<1>6. CASE TryLock \/ TryLockFails
  BY <1>6 DEF TryLock, TryLockFails, NextTurn, mainVars, curVars, reqVars,
              gpioVars, flowVars
<1>7. CASE DecideCall
  BY <1>7, ModeToSetType DEF DecideCall, mainVars, curVars, reqVars, gpioVars, flowVars
<1>8. CASE CountDown \/ DecideNothing
  BY <1>8 DEF CountDown, DecideNothing, mainVars, curVars, reqVars, gpioVars, flowVars
<1>9. CASE CallCrash \/ CallWithoutProxy
  BY <1>9 DEF CallCrash, CallWithoutProxy, mainVars, curVars, reqVars, gpioVars,
              flowVars
<1>10. CASE CallGranted
  BY <1>10, MonitorStays DEF CallGranted, GpioReceive, mainVars, curVars, reqVars
<1>11. CASE CallDenied
  BY <1>11, MonitorStays DEF CallDenied, mainVars, curVars, reqVars, gpioVars
<1>12. CASE CallReturns
  BY <1>12 DEF CallReturns, GpioReply, mainVars, curVars, reqVars, flowVars
<1>13. CASE Commit
  BY <1>13, DurationType DEF Commit, CallInv, Calling, mainVars, reqVars, gpioVars,
                             flowVars
<1>14. CASE Refuse
  BY <1>14 DEF Refuse, Behaviors, BehaviorRegulated, BehaviorUnregulated,
               BehaviorManual, mainVars, curVars, gpioVars, flowVars
<1>15. CASE SyncAndUnlock
  BY <1>15 DEF SyncAndUnlock, ImplTimerStop, mainVars, curVars, reqVars, gpioVars,
               flowVars
<1>18. CASE WriteModeToFile
  <2>1. timer' \in {"try", "exited"}
    BY <1>18 DEF WriteModeToFile, NextTurn
  <2> QED
    BY <1>18, <2>1 DEF WriteModeToFile, mainVars, curVars, reqVars, gpioVars, flowVars
<1>16. CASE GpioStep
  BY <1>16 DEF GpioStep, GpioHello, SetCrossLights, GpioReport, Collect, Sources,
               mainVars, timerVars, curVars, reqVars, flowVars
<1>17. CASE Crashed \/ UNCHANGED vars
  BY <1>17 DEF Crashed, vars, mainVars, timerVars, curVars, reqVars, gpioVars, flowVars
<1> QED
  BY <1>1, <1>2, <1>3, <1>4, <1>5, <1>6, <1>7, <1>8, <1>9, <1>10, <1>11, <1>12,
     <1>13, <1>14, <1>15, <1>16, <1>17, <1>18 DEF Next, ServeStep, TimerStep

(* Only main writes the fields the call rests on, and only with the mutex. *)
LEMMA CallStep ==
    ASSUME TypeOK, MutexInv, CallInv, ServeInv, LampInv, [Next]_vars
    PROVE  CallInv'
<1> USE DEF CallInv, Calling, ModeToSet
<1>1. CASE BootStep
  BY <1>1 DEF BootStep, CreateTimerThread, InitProxies, Hello, CreateModeFile,
              timerVars, curVars, reqVars
<1>2. CASE ReceiveSchedule \/ LockSchedule \/ LogSchedule
  BY <1>2 DEF ReceiveSchedule, LockSchedule, LogSchedule, timerVars, curVars, reqVars
<1>3. CASE UpdateSchedule
  <2>1. ~InTimerSection
    BY <1>3 DEF UpdateSchedule, MutexInv
  <2> QED
    BY <1>3, <2>1 DEF UpdateSchedule, InTimerSection, timerVars
<1>4. CASE TryLock \/ TryLockFails
  BY <1>4 DEF TryLock, TryLockFails, NextTurn
<1>5. CASE DecideCall
  BY <1>5 DEF DecideCall, curVars, reqVars
<1>6. CASE CountDown \/ DecideNothing
  BY <1>6 DEF CountDown, DecideNothing
<1>7. CASE CallCrash \/ CallWithoutProxy
  BY <1>7 DEF CallCrash, CallWithoutProxy, curVars, reqVars
<1>8. CASE CallGranted
  BY <1>8 DEF CallGranted, curVars, reqVars
<1>9. CASE CallDenied
  BY <1>9 DEF CallDenied, curVars, reqVars
<1>10. CASE CallReturns
  <2>1. lights = callMode
    BY <1>10 DEF CallReturns, GpioReply, LampInv
  <2> QED
    BY <1>10, <2>1 DEF CallReturns, curVars, reqVars
<1>11. CASE Commit \/ Refuse
  BY <1>11 DEF Commit, Refuse
<1>12. CASE SyncAndUnlock \/ WriteModeToFile
  BY <1>12 DEF SyncAndUnlock, WriteModeToFile, NextTurn
<1>13. CASE GpioStep \/ Crashed \/ UNCHANGED vars
  BY <1>13 DEF GpioStep, Crashed, vars, timerVars, curVars, reqVars
<1> QED
  BY <1>1, <1>2, <1>3, <1>4, <1>5, <1>6, <1>7, <1>8, <1>9, <1>10, <1>11, <1>12,
     <1>13 DEF Next, ServeStep, TimerStep
(* The request LightsGPIO is serving stays the one the timer thread waits  *)
(* for.                                                                    *)
LEMMA ServeInvStep ==
    ASSUME TypeOK, MutexInv, ServeInv, [Next]_vars
    PROVE  ServeInv'
<1> USE DEF ServeInv
<1>1. CASE BootStep
  BY <1>1 DEF MutexInv, BootStep, CreateTimerThread, InitProxies, Hello,
              CreateModeFile, timerVars, gpioVars
<1>2. CASE ReceiveSchedule \/ ServeStep
  BY <1>2 DEF ReceiveSchedule, ServeStep, LockSchedule, UpdateSchedule, LogSchedule,
              timerVars, gpioVars
<1>3. CASE TryLock \/ TryLockFails
  BY <1>3 DEF TryLock, TryLockFails, NextTurn, gpioVars
<1>4. CASE DecideCall \/ CountDown \/ DecideNothing
  BY <1>4 DEF DecideCall, CountDown, DecideNothing, gpioVars
<1>5. CASE CallCrash \/ CallWithoutProxy \/ CallDenied
  BY <1>5 DEF CallCrash, CallWithoutProxy, CallDenied, gpioVars
<1>6. CASE CallGranted
  BY <1>6 DEF CallGranted, Grant, Permits, SetCrossLightsRequest, GpioReceive
<1>7. CASE CallReturns
  BY <1>7 DEF CallReturns, GpioReply
<1>8. CASE Commit \/ Refuse
  BY <1>8 DEF Commit, Refuse, gpioVars
<1>9. CASE SyncAndUnlock \/ WriteModeToFile
  BY <1>9 DEF SyncAndUnlock, WriteModeToFile, NextTurn, gpioVars
<1>10. CASE GpioStep
  BY <1>10 DEF GpioStep, GpioHello, SetCrossLights, GpioReport, timerVars
<1>11. CASE Crashed \/ UNCHANGED vars
  BY <1>11 DEF Crashed, vars, timerVars, gpioVars
<1> QED
  BY <1>1, <1>2, <1>3, <1>4, <1>5, <1>6, <1>7, <1>8, <1>9, <1>10, <1>11
  DEF Next, TimerStep

LEMMA LampInvStep ==
    ASSUME TypeOK, MutexInv, CallInv, ServeInv, LampInv, [Next]_vars
    PROVE  LampInv'
<1> USE DEF LampInv, ServeInv
<1>1. CASE BootStep
  BY <1>1 DEF MutexInv, BootStep, CreateTimerThread, InitProxies, Hello,
              CreateModeFile, timerVars, curVars, gpioVars
<1>2. CASE ReceiveSchedule \/ ServeStep
  BY <1>2 DEF ReceiveSchedule, ServeStep, LockSchedule, UpdateSchedule, LogSchedule,
              timerVars, curVars, gpioVars
<1>3. CASE TryLock \/ TryLockFails
  BY <1>3 DEF TryLock, TryLockFails, NextTurn, curVars, gpioVars
<1>4. CASE DecideCall \/ CountDown \/ DecideNothing
  BY <1>4 DEF DecideCall, CountDown, DecideNothing, curVars, gpioVars
<1>5. CASE CallCrash \/ CallWithoutProxy \/ CallDenied
  BY <1>5 DEF CallCrash, CallWithoutProxy, CallDenied, curVars, gpioVars
<1>6. CASE CallGranted
  BY <1>6 DEF CallGranted, GpioReceive, curVars
<1>7. CASE CallReturns
  BY <1>7 DEF CallReturns, GpioReply, curVars
<1>8. CASE Commit
  BY <1>8 DEF Commit, CallInv, gpioVars
<1>9. CASE Refuse
  BY <1>9 DEF Refuse, curVars, gpioVars
<1>10. CASE SyncAndUnlock \/ WriteModeToFile
  BY <1>10 DEF SyncAndUnlock, WriteModeToFile, NextTurn, curVars, gpioVars
<1>11. CASE GpioStep
  BY <1>11 DEF GpioStep, GpioHello, SetCrossLights, GpioReport, timerVars, curVars
<1>12. CASE Crashed \/ UNCHANGED vars
  BY <1>12 DEF Crashed, vars, timerVars, curVars, gpioVars
<1> QED
  BY <1>1, <1>2, <1>3, <1>4, <1>5, <1>6, <1>7, <1>8, <1>9, <1>10, <1>11, <1>12
  DEF Next, TimerStep

(* The four parts of layer 2 hold together, on top of the mutex. *)
LEMMA CallInvariant == Spec => [](TypeOK /\ CallInv /\ ServeInv /\ LampInv)
<1>1. Init => TypeOK
  BY DEF Init, GpioInit, MonitorInit, DiagnosticsInit, TypeOK, FlowStates, NoEvent,
         Behaviors, BehaviorUnregulated, NoFile, DefaultLightsMode,
         Unregulated1BlinkYellow2BlinkYellow
<1>2. Init => CallInv /\ ServeInv /\ LampInv
  BY DEF Init, GpioInit, CallInv, Calling, ServeInv, LampInv, DefaultLightsMode
<1>3. /\ MutexInv /\ TypeOK /\ CallInv /\ ServeInv /\ LampInv
      /\ [Next]_vars
      => (TypeOK /\ CallInv /\ ServeInv /\ LampInv)'
  BY TypeStep, CallStep, ServeInvStep, LampInvStep
<1> QED
  BY <1>1, <1>2, <1>3, MutualExclusion, PTL DEF Spec

(* Types of both threads and everything they share. *)
THEOREM TypeCorrect == Spec => []TypeOK
BY CallInvariant, PTL

(* curCrossMode is what the lamps show, but while a granted call is on its *)
(* way back.                                                               *)
THEOREM ControllerStaysInStep == Spec => []ControllerInStep
<1>1. TypeOK /\ ServeInv /\ LampInv => ControllerInStep
  BY DEF ServeInv, LampInv, ControllerInStep
<1> QED
  BY <1>1, CallInvariant, PTL
-----------------------------------------------------------------------------
(***************************************************************************)
(* Layer 3: what is committed belongs together.                            *)
(***************************************************************************)
StateInv == BehaviorMatchesMode /\ PhaseClock

(* A call that was granted was for a mode that fits its behavior. *)
LEMMA GrantedModeFits ==
    ASSUME callMode = ModeToSet, callMode \in PermittedModes
    PROVE  /\ reqBehavior = BehaviorUnregulated =>
                  callMode = Unregulated1BlinkYellow2BlinkYellow
           /\ reqBehavior = BehaviorRegulated => callMode \in RegulatedModes
<1>1. CASE reqBehavior = BehaviorUnregulated
  BY <1>1 DEF ModeToSet, BehaviorManual, BehaviorRegulated, BehaviorUnregulated
<1>2. CASE reqBehavior = BehaviorRegulated
  <2>1. callMode = GetNextRegulatedMode(curCrossMode)
    BY <1>2 DEF ModeToSet, BehaviorManual, BehaviorRegulated, BehaviorUnregulated
  <2> QED
    BY <1>2, <2>1, NextModes, CyclePermitted
    DEF BehaviorRegulated, BehaviorUnregulated
<1> QED
  BY <1>1, <1>2

(* Phases of fixed length get that length. *)
LEMMA FixedDurations ==
    /\ \A mode \in {Regulated1BlinkGreen2Red, Regulated1Red2BlinkGreen} :
           GetNextDuration(mode) = BlinkGreenDuration
    /\ \A mode \in {Regulated1Yellow2RedYellow, Regulated1RedYellow2Yellow} :
           GetNextDuration(mode) = RedYellowDuration
BY DEF GetNextDuration, Regulated1Green2Red, Regulated1BlinkGreen2Red,
       Regulated1Yellow2RedYellow, Regulated1Red2Green, Regulated1Red2BlinkGreen,
       Regulated1RedYellow2Yellow

LEMMA CommitFits ==
    ASSUME TypeOK, CallInv, ServeInv, Commit
    PROVE  StateInv'
<1>1. /\ callMode = ModeToSet /\ callMode \in PermittedModes
      /\ resultMode = callMode /\ reqBehavior \in Behaviors
  BY DEF Commit, CallInv, Calling, ServeInv
<1>2. curBehavior' = reqBehavior /\ curCrossMode' = callMode
  BY <1>1 DEF Commit
<1>3. BehaviorMatchesMode'
  BY <1>1, <1>2, GrantedModeFits DEF BehaviorMatchesMode
<1>4. /\ reqBehavior = BehaviorRegulated => curDuration' = GetNextDuration(callMode)
      /\ reqBehavior # BehaviorRegulated => curDuration' = 0
  BY <1>1 DEF Commit
<1>5. PhaseClock'
  BY <1>2, <1>4, FixedDurations DEF PhaseClock, BlinkGreenDuration, RedYellowDuration
<1> QED
  BY <1>3, <1>5 DEF StateInv

LEMMA StateInvariant == Spec => []StateInv
<1>1. Init => StateInv
  BY DEF Init, StateInv, BehaviorMatchesMode, PhaseClock, BehaviorRegulated,
         BehaviorUnregulated, BehaviorManual, BlinkGreenDuration, RedYellowDuration
<1>2. /\ TypeOK /\ CallInv /\ ServeInv /\ StateInv
      /\ [Next]_vars
      => StateInv'
  <2> SUFFICES ASSUME TypeOK, CallInv, ServeInv, StateInv, [Next]_vars
               PROVE  StateInv'
    OBVIOUS
  <2> USE DEF StateInv, BehaviorMatchesMode, PhaseClock
  <2>1. CASE Commit
    BY <2>1, CommitFits
  <2>2. CASE CountDown
    <3>1. /\ UNCHANGED <<curBehavior, curCrossMode>>
          /\ curDuration > 0 /\ curDuration' = curDuration - 1
      BY <2>2 DEF CountDown
    <3>2. curDuration \in Nat
      BY DEF TypeOK
    <3> QED
      BY <3>1, <3>2 DEF BlinkGreenDuration, RedYellowDuration
  <2>3. Commit \/ CountDown \/ UNCHANGED curVars
    BY DEF Next, vars, BootStep, CreateTimerThread, InitProxies, Hello,
           CreateModeFile, ReceiveSchedule, ServeStep, LockSchedule, UpdateSchedule,
           LogSchedule, TimerStep, TryLock, TryLockFails, DecideCall, DecideNothing,
           CallCrash, CallWithoutProxy, CallGranted, CallDenied, CallReturns, Refuse,
           SyncAndUnlock, WriteModeToFile, GpioStep, Crashed
  <2> QED
    BY <2>1, <2>2, <2>3 DEF curVars
<1> QED
  BY <1>1, <1>2, CallInvariant, PTL DEF Spec

(* Behavior and mode are never committed from two different requests.      *)
THEOREM BehaviorAlwaysMatches == Spec => []BehaviorMatchesMode
BY StateInvariant, PTL DEF StateInv

(* The count-down only runs in the regulated cycle and within its bounds.  *)
THEOREM ClockAlwaysRight == Spec => []PhaseClock
BY StateInvariant, PTL DEF StateInv

(* Each turn of the timer thread leaves the requested behavior the current *)
(* one, if it has a case: for every schedule and every refusal.            *)
THEOREM TurnsSettleRequests == Spec => []TurnSettlesRequest
<1>1. Init => TurnSettlesRequest
  BY DEF Init, TurnSettlesRequest
<1>2. /\ TypeOK /\ MutexInv /\ PhaseClock /\ TurnSettlesRequest
      /\ [Next]_vars
      => TurnSettlesRequest'
  <2> SUFFICES ASSUME TypeOK, MutexInv, PhaseClock, TurnSettlesRequest, [Next]_vars
               PROVE  TurnSettlesRequest'
    OBVIOUS
  <2> USE DEF TurnSettlesRequest
  <2>1. CASE UpdateSchedule
    BY <2>1 DEF UpdateSchedule, MutexInv, InTimerSection, timerVars
  <2>2. CASE CountDown
    BY <2>2 DEF CountDown, PhaseClock, reqVars
  <2>3. CASE DecideNothing
    BY <2>3 DEF DecideNothing, reqVars
  <2>4. CASE Commit
    BY <2>4 DEF Commit, reqVars
  <2>5. CASE Refuse
    BY <2>5 DEF Refuse, curVars
  <2>6. timer' # "sync" => TurnSettlesRequest'
    OBVIOUS
  <2>7. UNCHANGED <<timer, reqBehavior, curBehavior>> => TurnSettlesRequest'
    OBVIOUS
  <2>8. CASE TimerStep
    BY <2>2, <2>3, <2>4, <2>5, <2>6, <2>8
    DEF TimerStep, TryLock, TryLockFails, DecideCall, CallCrash, CallWithoutProxy,
        CallGranted, CallDenied, CallReturns, SyncAndUnlock, WriteModeToFile, NextTurn
  <2>9. CASE BootStep
    BY <2>6, <2>7, <2>9 DEF BootStep, CreateTimerThread, InitProxies, Hello,
                            CreateModeFile, timerVars, reqVars, curVars
  <2>10. CASE ReceiveSchedule \/ LockSchedule \/ LogSchedule
    BY <2>7, <2>10 DEF ReceiveSchedule, LockSchedule, LogSchedule, timerVars, reqVars,
                       curVars
  <2>11. CASE GpioStep \/ Crashed \/ UNCHANGED vars
    BY <2>7, <2>11 DEF GpioStep, Crashed, vars, timerVars, reqVars, curVars
  <2> QED
    BY <2>1, <2>8, <2>9, <2>10, <2>11 DEF Next, ServeStep
<1> QED
  BY <1>1, <1>2, MutualExclusion, CallInvariant, StateInvariant, PTL DEF Spec, StateInv
-----------------------------------------------------------------------------
(***************************************************************************)
(* What a change of the lamps may be.                                      *)
(***************************************************************************)

(* Lamps change in one place, LightsGPIO's assignment, and then to what    *)
(* the fields of impl ask for at that moment.                              *)
LEMMA LampsChange ==
    ASSUME TypeOK, CallInv, ServeInv, LampInv, [Next]_vars, lights' # lights
    PROVE  /\ Calling
           /\ lights' = callMode
           /\ lights = curCrossMode
<1>1. SetCrossLights
  BY DEF Next, vars, BootStep, CreateTimerThread, InitProxies, Hello, CreateModeFile,
         ReceiveSchedule, ServeStep, LockSchedule, UpdateSchedule, LogSchedule,
         TimerStep, TryLock, TryLockFails, DecideCall, CountDown, DecideNothing,
         CallCrash, CallWithoutProxy, CallGranted, CallDenied, CallReturns, Commit,
         Refuse, SyncAndUnlock, WriteModeToFile, GpioStep, Crashed, gpioVars,
         GpioReceive, GpioReply, GpioHello, GpioReport
<1> QED
  BY <1>1 DEF SetCrossLights, ServeInv, LampInv, Calling

(* The cycle never cuts a phase short: lamps that change during a          *)
(* count-down do so for another behavior.                                  *)
THEOREM PhasesNotCutShort == Spec => PhaseNotCutShort
<1>1. TypeOK /\ CallInv /\ ServeInv /\ LampInv /\ [Next]_vars
      => [lights' # lights /\ curDuration > 0 =>
             reqBehavior \in {BehaviorManual, BehaviorUnregulated}]_vars
  <2> SUFFICES ASSUME TypeOK, CallInv, ServeInv, LampInv, [Next]_vars,
                      lights' # lights, curDuration > 0
               PROVE  reqBehavior \in {BehaviorManual, BehaviorUnregulated}
    OBVIOUS
  <2>1. reqBehavior \in Behaviors /\ reqBehavior # BehaviorRegulated
    BY LampsChange DEF CallInv, TypeOK
  <2> QED
    BY <2>1 DEF Behaviors
<1> QED
  BY <1>1, CallInvariant, PTL DEF Spec, PhaseNotCutShort

(* Lamps only ever change to what is requested at that very moment, from   *)
(* what they show at that moment.                                          *)
THEOREM LightsAlwaysFollow == Spec => LightsFollowRequest
<1>1. TypeOK /\ CallInv /\ ServeInv /\ LampInv /\ [Next]_vars
      => [lights' # lights =>
            /\ reqBehavior \in Behaviors
            /\ lights' = ModeToSet
            /\ reqBehavior = BehaviorRegulated =>
                   lights' = GetNextRegulatedMode(lights)]_vars
  <2> SUFFICES ASSUME TypeOK, CallInv, ServeInv, LampInv, [Next]_vars,
                      lights' # lights
               PROVE  /\ reqBehavior \in Behaviors
                      /\ lights' = ModeToSet
                      /\ reqBehavior = BehaviorRegulated =>
                             lights' = GetNextRegulatedMode(lights)
    OBVIOUS
  <2>1. reqBehavior \in Behaviors /\ lights' = ModeToSet /\ lights = curCrossMode
    BY LampsChange DEF CallInv
  <2>2. reqBehavior = BehaviorRegulated =>
            ModeToSet = GetNextRegulatedMode(curCrossMode)
    BY DEF ModeToSet, BehaviorManual, BehaviorUnregulated, BehaviorRegulated
  <2> QED
    BY <2>1, <2>2
<1> QED
  BY <1>1, CallInvariant, PTL DEF Spec, LightsFollowRequest
-----------------------------------------------------------------------------
(***************************************************************************)
(* CrossController is a client of SecuredLights.                           *)
(***************************************************************************)

(* What the messages and reports of CrossController are made of. *)
ClientInv ==
    /\ main \in {"lock", "update", "log"} => req \in Schedules
    /\ main = "log" => snapshot \in PermittedModes
    /\ reqCrossMode \in CallModes

(* The current mode is always a permitted one. *)
LEMMA CurrentModePermitted ==
    ASSUME TypeOK, BehaviorMatchesMode
    PROVE  curCrossMode \in PermittedModes
BY CyclePermitted DEF TypeOK, BehaviorMatchesMode, Behaviors

LEMMA ClientInvariant == Spec => []ClientInv
<1>1. Init => ClientInv
  BY DEF Init, ClientInv, CallModes
<1>2. TypeOK /\ BehaviorMatchesMode /\ ClientInv /\ [Next]_vars => ClientInv'
  <2> SUFFICES ASSUME TypeOK, BehaviorMatchesMode, ClientInv, [Next]_vars
               PROVE  ClientInv'
    OBVIOUS
  <2> USE DEF ClientInv, CallModes
  <2>1. CASE BootStep
    BY <2>1 DEF BootStep, CreateTimerThread, InitProxies, Hello, CreateModeFile,
                reqVars
  <2>2. CASE ReceiveSchedule \/ LockSchedule \/ LogSchedule
    BY <2>2 DEF ReceiveSchedule, LockSchedule, LogSchedule, reqVars
  <2>3. CASE UpdateSchedule
    BY <2>3, CurrentModePermitted DEF UpdateSchedule
  <2>4. CASE CallCrash
    BY <2>4 DEF CallCrash, reqVars
  <2>5. UNCHANGED <<mainVars, reqCrossMode>> => ClientInv'
    BY DEF mainVars
  <2>6. \/ BootStep \/ ReceiveSchedule \/ ServeStep \/ CallCrash
        \/ UNCHANGED <<mainVars, reqCrossMode>>
    BY DEF Next, vars, reqVars, TimerStep, TryLock, TryLockFails, DecideCall,
           CountDown, DecideNothing, CallWithoutProxy, CallGranted, CallDenied,
           CallReturns, Commit, Refuse, SyncAndUnlock, WriteModeToFile, GpioStep,
           Crashed
  <2> QED
    BY <2>1, <2>2, <2>3, <2>4, <2>5, <2>6 DEF ServeStep
<1> QED
  BY <1>1, <1>2, CallInvariant, BehaviorAlwaysMatches, PTL DEF Spec

(* Every call is for a mode of a schedule or of the cycle. *)
LEMMA CallsAreClientCalls ==
    ASSUME CallInv, ClientInv, Calling
    PROVE  callMode \in CallModes
<1>1. callMode = ModeToSet /\ reqCrossMode \in CallModes
  BY DEF CallInv, ClientInv
<1>2. GetNextRegulatedMode(curCrossMode) \in CallModes
  BY NextModes DEF CallModes
<1>3. Unregulated1BlinkYellow2BlinkYellow \in CallModes
  BY DEF CallModes
<1> QED
  BY <1>1, <1>2, <1>3 DEF ModeToSet

(* The two threads, their mutex and their fields refine the client that    *)
(* SecuredLights assumes: the timer thread's calls are its requests, the   *)
(* reports of main its events, everything else is invisible to LightsGPIO. *)
THEOREM RefinesSecuredLights == Spec => ImplementsSecuredLights
<1>1. Init => Secured!Init
  BY DEF Init, GpioInit, MonitorInit, DiagnosticsInit, Secured!Init, Secured!GpioInit,
         Secured!MonitorInit, Secured!DiagnosticsInit, Secured!DefaultLightsMode,
         DefaultLightsMode, Secured!NoEvent, NoEvent, Secured!Sources, Sources,
         Unregulated1BlinkYellow2BlinkYellow,
         Secured!Unregulated1BlinkYellow2BlinkYellow
<1>2. /\ TypeOK /\ CallInv /\ ServeInv /\ ClientInv /\ [Next]_vars
      => [Secured!Next]_Secured!vars
  <2> SUFFICES ASSUME TypeOK, CallInv, ServeInv, ClientInv, [Next]_vars
               PROVE  [Secured!Next]_Secured!vars
    OBVIOUS
  <2> DEFINE msg == SetCrossLightsRequest(callMode)
  <2>1. CASE CallGranted
    <3>1. callMode \in CallModes
      BY <2>1, CallsAreClientCalls DEF CallGranted, Calling
    <3>2. Secured!CallGranted(msg)
      BY <2>1 DEF CallGranted, Secured!CallGranted, Grant, Secured!Grant, Permits,
                  Secured!Permits, GpioReceive, Secured!GpioReceive, PermittedModes,
                  Secured!PermittedModes, FlowTransitions, Secured!FlowTransitions,
                  SetCrossLightsRequest
    <3> QED
      BY <3>1, <3>2 DEF Secured!Next
  <2>2. CASE CallDenied
    <3>1. callMode \in CallModes
      BY <2>2, CallsAreClientCalls DEF CallDenied, Calling
    <3>2. gpio \in {"boot", "recv"}
      BY <2>2 DEF CallDenied, ServeInv, TypeOK
    <3>3. Secured!CallDenied(msg)
      BY <2>2, <3>2 DEF CallDenied, Secured!CallDenied, Deny, Secured!Deny, Permits,
                  Secured!Permits, gpioVars, PermittedModes, Secured!PermittedModes,
                  FlowTransitions, Secured!FlowTransitions, AfterDenial,
                  Secured!AfterDenial
    <3> QED
      BY <3>1, <3>3 DEF Secured!Next
  <2>3. CASE CallReturns
    BY <2>3 DEF CallReturns, GpioReply, flowVars, Secured!Next, Secured!ReplyToClient,
                Secured!GpioReply
  <2>4. CASE GpioStep
    BY <2>4 DEF GpioStep, GpioHello, SetCrossLights, GpioReport, Collect, flowVars,
                Secured!Next, Secured!ServerStep, Secured!GpioHello,
                Secured!SetCrossLights, Secured!GpioReport, Secured!Collect
  <2>5. CASE Hello
    BY <2>5 DEF Hello, Collect, gpioVars, flowVars, Secured!Next, Secured!OtherEvent,
                Secured!Collect, Secured!Sources
  <2>6. CASE LogSchedule
    <3>1. snapshot \in PermittedModes
      BY <2>6 DEF LogSchedule, ClientInv
    <3> QED
      BY <2>6, <3>1 DEF LogSchedule, Collect, gpioVars, flowVars, Secured!Next,
                        Secured!OtherEvent, Secured!Collect, Secured!Sources
  <2>7. CASE UNCHANGED <<gpioVars, flowVars, health>>
    BY <2>7 DEF gpioVars, flowVars, Secured!vars
  <2>8. \/ CallGranted \/ CallDenied \/ CallReturns \/ GpioStep \/ Hello \/ LogSchedule
        \/ UNCHANGED <<gpioVars, flowVars, health>>
    BY DEF Next, vars, BootStep, CreateTimerThread, InitProxies, CreateModeFile,
           ReceiveSchedule, ServeStep, LockSchedule, UpdateSchedule, TimerStep,
           TryLock, TryLockFails, DecideCall, CountDown, DecideNothing, CallCrash,
           CallWithoutProxy, Commit, Refuse, SyncAndUnlock, WriteModeToFile, Crashed
  <2> QED
    BY <2>1, <2>2, <2>3, <2>4, <2>5, <2>6, <2>7, <2>8
<1> QED
  BY <1>1, <1>2, CallInvariant, ClientInvariant, PTL
  DEF Spec, ImplementsSecuredLights, Secured!Spec
-----------------------------------------------------------------------------
(***************************************************************************)
(* What SecuredLights guarantees therefore holds of CrossController.       *)
(***************************************************************************)
ClientMessages == {SetCrossLightsRequest(mode) : mode \in CallModes}

Lights == INSTANCE SecuredLightsProofs WITH
    Messages <- ClientMessages,
    EventCodes <- PermittedModes \cup {0}

(* The assumptions of SecuredLights hold of this client. *)
LEMMA ClientMessagesType == \A msg \in ClientMessages : msg.crossMode \in Int
<1>1. \A schedule \in Schedules : schedule.crossMode \in Int
  BY SchedulesType
<1>2. RegulatedModes \cup {Unregulated1BlinkYellow2BlinkYellow, 0} \subseteq Int
  BY CyclePermitted
<1>3. CallModes \subseteq Int
  BY <1>1, <1>2 DEF CallModes
<1>4. \A mode : SetCrossLightsRequest(mode).crossMode = mode
  BY DEF SetCrossLightsRequest
<1> QED
  BY <1>3, <1>4 DEF ClientMessages

LEMMA ClientEventsType == PermittedModes \cup {0} \subseteq Int
BY CyclePermitted

(* Secured and Lights are two instances of the same specification. *)
LEMMA SameSpec == Secured!Spec => Lights!Spec
<1>1. Secured!Init => Lights!Init
  BY DEF Secured!Init, Secured!GpioInit, Secured!MonitorInit, Secured!DiagnosticsInit,
         Secured!DefaultLightsMode, Secured!Sources, Secured!NoEvent,
         Secured!Unregulated1BlinkYellow2BlinkYellow,
         Lights!Init, Lights!GpioInit, Lights!MonitorInit, Lights!DiagnosticsInit,
         Lights!DefaultLightsMode, Lights!Sources, Lights!NoEvent,
         Lights!Unregulated1BlinkYellow2BlinkYellow
<1>2. [Secured!Next]_Secured!vars => [Lights!Next]_Lights!vars
  <2> SUFFICES ASSUME [Secured!Next]_Secured!vars
               PROVE  [Lights!Next]_Lights!vars
    OBVIOUS
  <2>1. ASSUME NEW msg \in ClientMessages,
               Secured!CallGranted(msg) \/ Secured!CallDenied(msg)
        PROVE  Lights!CallGranted(msg) \/ Lights!CallDenied(msg)
    BY <2>1 DEF Secured!CallGranted, Secured!CallDenied, Secured!Grant, Secured!Deny,
                Secured!Permits, Secured!FlowTransitions, Secured!PermittedModes,
                Secured!AfterDenial, Secured!GpioReceive,
                Lights!CallGranted, Lights!CallDenied, Lights!Grant, Lights!Deny,
                Lights!Permits, Lights!FlowTransitions, Lights!PermittedModes,
                Lights!AfterDenial, Lights!GpioReceive
  <2>2. CASE Secured!ServerStep \/ Secured!ReplyToClient
    BY <2>2 DEF Secured!ServerStep, Secured!GpioHello, Secured!SetCrossLights,
                Secured!GpioReport, Secured!Collect, Secured!ReplyToClient,
                Secured!GpioReply, Lights!Next,
                Lights!ServerStep, Lights!GpioHello, Lights!SetCrossLights,
                Lights!GpioReport, Lights!Collect, Lights!ReplyToClient,
                Lights!GpioReply
  <2>3. CASE Secured!OtherEvent
    BY <2>3 DEF Secured!OtherEvent, Secured!Collect, Secured!Sources, Lights!Next,
                Lights!OtherEvent, Lights!Collect, Lights!Sources
  <2>4. CASE UNCHANGED Secured!vars
    BY <2>4 DEF Secured!vars, Lights!vars
  <2>5. CASE \E msg \in ClientMessages :
                 Secured!CallGranted(msg) \/ Secured!CallDenied(msg)
    BY <2>1, <2>5 DEF Lights!Next
  <2> QED
    BY <2>2, <2>3, <2>4, <2>5 DEF Secured!Next, ClientMessages
<1> QED
  BY <1>1, <1>2, PTL DEF Secured!Spec, Lights!Spec

(* The lamps CrossController drives never let conflicting traffic through, *)
(* for any schedules and both ways the monitor may treat a denial.         *)
THEOREM LampsNeverConflict == Spec => []Secured!NoConflict
<1>1. Lights!Spec => []Lights!NoConflict
  BY Lights!NoConflictEver, ClientMessagesType, ClientEventsType, DenyRollsBackType
<1>2. Lights!NoConflict => Secured!NoConflict
  BY DEF Lights!NoConflict, Lights!Crossing!NoConflict, Lights!Crossing!Directions,
         Lights!Crossing!Colours, Lights!Crossing!Compatible, Lights!Dir1Color,
         Lights!Dir2Color, Lights!GetColorName,
         Secured!NoConflict, Secured!Crossing!NoConflict, Secured!Crossing!Directions,
         Secured!Crossing!Colours, Secured!Crossing!Compatible, Secured!Dir1Color,
         Secured!Dir2Color, Secured!GetColorName
<1> QED
  BY <1>1, <1>2, RefinesSecuredLights, SameSpec, PTL DEF ImplementsSecuredLights
(* Every message of CrossController is named as the proxy names it. *)
LEMMA ClientIsHonest == Lights!HonestMessages
<1>1. \A mode : /\ Lights!SetCrossLightsRequest(mode) = SetCrossLightsRequest(mode)
              /\ SetCrossLightsRequest(mode).crossMode = mode
  BY DEF SetCrossLightsRequest, Dir1Color, Dir2Color, GetColorName,
         Lights!SetCrossLightsRequest, Lights!Dir1Color, Lights!Dir2Color,
         Lights!GetColorName
<1> QED
  BY <1>1 DEF Lights!HonestMessages, ClientMessages

(* With a monitor that forgets denied requests, the lamps CrossController  *)
(* drives implement the abstract intersection.                             *)
THEOREM RefinesIntersection ==
    ASSUME DenyRollsBack
    PROVE  Spec => ImplementsIntersection
<1>1. Lights!Spec => Lights!ImplementsIntersection
  BY Lights!Refinement, ClientMessagesType, ClientEventsType, DenyRollsBackType,
     ClientIsHonest
<1>2. Lights!Crossing!Init => Secured!Crossing!Init
  BY DEF Lights!Crossing!Init, Lights!Crossing!Directions, Lights!Dir1Color,
         Lights!Dir2Color, Lights!GetColorName, Secured!Crossing!Init,
         Secured!Crossing!Directions, Secured!Dir1Color, Secured!Dir2Color,
         Secured!GetColorName
<1> DEFINE LightsLamp == [d \in {1, 2} |-> IF d = 1 THEN Lights!Dir1Color(lights)
                                                    ELSE Lights!Dir2Color(lights)]
           SecuredLamp == [d \in {1, 2} |-> IF d = 1 THEN Secured!Dir1Color(lights)
                                                     ELSE Secured!Dir2Color(lights)]
<1>3. [Lights!Crossing!Next]_LightsLamp => [Secured!Crossing!Next]_SecuredLamp
  <2>1. \A mode : /\ Lights!Dir1Color(mode) = Secured!Dir1Color(mode)
                /\ Lights!Dir2Color(mode) = Secured!Dir2Color(mode)
    BY DEF Lights!Dir1Color, Lights!Dir2Color, Lights!GetColorName,
           Secured!Dir1Color, Secured!Dir2Color, Secured!GetColorName
  <2>2. LightsLamp = SecuredLamp /\ LightsLamp' = SecuredLamp'
    BY <2>1
  <2>3. CASE Lights!Crossing!Next
    BY <2>1, <2>3
    DEF Lights!Crossing!Next, Lights!Crossing!MayShow,
        Lights!Crossing!Directions, Lights!Crossing!Colours,
        Lights!Crossing!Compatible, Lights!Crossing!Follows,
        Secured!Crossing!Next, Secured!Crossing!MayShow,
        Secured!Crossing!Directions, Secured!Crossing!Colours,
        Secured!Crossing!Compatible, Secured!Crossing!Follows
  <2> QED
    BY <2>2, <2>3
<1> QED
  BY <1>1, <1>2, <1>3, RefinesSecuredLights, SameSpec, PTL
  DEF ImplementsSecuredLights, ImplementsIntersection, Lights!ImplementsIntersection,
      Lights!Crossing!Spec, Secured!Crossing!Spec
-----------------------------------------------------------------------------
(***************************************************************************)
(* Who waits for whom.                                                     *)
(***************************************************************************)

(* Timer holds the mutex inside its section only, unless the entity died   *)
(* there: the converse of MutexInv.                                        *)
HolderInv == mutex = "timer" => InTimerSection \/ main = "crashed"

LEMMA HolderInvariant == Spec => []HolderInv
<1>1. Init => HolderInv
  BY DEF Init, HolderInv
<1>2. MutexInv /\ HolderInv /\ [Next]_vars => HolderInv'
  <2> SUFFICES ASSUME MutexInv, HolderInv, [Next]_vars
               PROVE  HolderInv'
    OBVIOUS
  <2> USE DEF HolderInv, InTimerSection
  <2>1. CASE BootStep \/ ReceiveSchedule \/ LogSchedule
    BY <2>1 DEF MutexInv, BootStep, CreateTimerThread, InitProxies, Hello,
                CreateModeFile, ReceiveSchedule, LogSchedule, timerVars
  <2>2. CASE LockSchedule \/ UpdateSchedule
    BY <2>2 DEF LockSchedule, UpdateSchedule
  <2>3. CASE TryLock \/ TryLockFails
    BY <2>3 DEF TryLock, TryLockFails, mainVars
  <2>4. CASE DecideCall \/ CountDown \/ DecideNothing
    BY <2>4 DEF DecideCall, CountDown, DecideNothing, mainVars
  <2>5. CASE CallCrash \/ CallWithoutProxy \/ CallGranted \/ CallDenied \/ CallReturns
    BY <2>5 DEF CallCrash, CallWithoutProxy, CallGranted, CallDenied, CallReturns,
                mainVars
  <2>6. CASE Commit \/ Refuse
    BY <2>6 DEF Commit, Refuse, mainVars
  <2>7. CASE SyncAndUnlock \/ WriteModeToFile
    BY <2>7 DEF SyncAndUnlock, WriteModeToFile, mainVars
  <2>8. CASE GpioStep \/ Crashed \/ UNCHANGED vars
    BY <2>8 DEF GpioStep, Crashed, vars, mainVars, timerVars
  <2> QED
    BY <2>1, <2>2, <2>3, <2>4, <2>5, <2>6, <2>7, <2>8 DEF Next, ServeStep, TimerStep
<1> QED
  BY <1>1, <1>2, MutualExclusion, PTL DEF Spec

(* Main never waits for a thread that sleeps or for itself, the timer      *)
(* thread never for an entity that is not serving it, for any schedules.   *)
THEOREM NobodyWaitsInACircle == Spec => []NoCircularWait
<1>1. TypeOK /\ MutexInv /\ HolderInv /\ ServeInv => NoCircularWait
  BY DEF TypeOK, MutexInv, HolderInv, ServeInv, NoCircularWait
<1> QED
  BY <1>1, MutualExclusion, HolderInvariant, CallInvariant, PTL
-----------------------------------------------------------------------------
(***************************************************************************)
(* What is refused, with a monitor that forgets denied requests.           *)
(***************************************************************************)

(* Between two calls the Flow objects stand on the colours of the lamps.   *)
FlowsInStep ==
    gpio # "serve" => flow1 = Dir1Color(lights) /\ flow2 = Dir2Color(lights)

LEMMA MonitorKnowsLamps ==
    ASSUME DenyRollsBack
    PROVE  Spec => []FlowsInStep
<1>1. Lights!Spec => []Lights!MonitorInStep
  BY Lights!MonitorStaysInStep, ClientMessagesType, ClientEventsType,
     DenyRollsBackType, ClientIsHonest
<1>2. Lights!MonitorInStep => FlowsInStep
  BY DEF Lights!MonitorInStep, Lights!Dir1Color, Lights!Dir2Color,
         Lights!GetColorName, FlowsInStep, Dir1Color, Dir2Color, GetColorName
<1> QED
  BY <1>1, <1>2, RefinesSecuredLights, SameSpec, PTL DEF ImplementsSecuredLights

(* A mode on the list that the tables let follow the lamps is not denied.  *)
LEMMA NotDenied ==
    ASSUME CallDenied, FlowsInStep, gpio # "serve",
           callMode \in PermittedModes, Leads(lights, callMode)
    PROVE  FALSE
BY DEF CallDenied, Deny, Permits, SetCrossLightsRequest, FlowsInStep, Leads

(* A step of the cycle is never denied, nor is blinking yellow where the   *)
(* lamps are green or all red.  The proof needs all layers: the call is    *)
(* the one requested (CallInv), made from the mode the lamps show          *)
(* (LampInv), with the monitor on the colours of that mode.                *)
THEOREM CycleIsNeverRefused ==
    ASSUME DenyRollsBack
    PROVE  Spec => CycleNeverRefused
<1>1. ASSUME TypeOK, CallInv, ServeInv, LampInv, FlowsInStep, CallDenied
      PROVE  /\ reqBehavior = BehaviorRegulated => GetNextRegulatedMode(lights) = 0
             /\ reqBehavior = BehaviorUnregulated =>
                    lights \notin {Unregulated1BlinkYellow2BlinkYellow, \h0101,
                                   Regulated1Green2Red, Regulated1Red2Green}
  <2>1. timer = "call" /\ gpio \notin {"serve", "report", "reply"}
    BY <1>1 DEF CallDenied, ServeInv
  <2>2. callMode = ModeToSet /\ lights = curCrossMode
    BY <1>1, <2>1 DEF CallInv, Calling, LampInv
  <2>3. ASSUME reqBehavior = BehaviorRegulated, GetNextRegulatedMode(lights) # 0
        PROVE  FALSE
    <3>1. callMode = GetNextRegulatedMode(lights)
      BY <2>2, <2>3 DEF ModeToSet, BehaviorManual, BehaviorUnregulated,
                        BehaviorRegulated
    <3> QED
      BY <1>1, <2>1, <2>3, <3>1, CycleLeads, NotDenied
  <2>4. ASSUME reqBehavior = BehaviorUnregulated,
               lights \in {Unregulated1BlinkYellow2BlinkYellow, \h0101,
                           Regulated1Green2Red, Regulated1Red2Green}
        PROVE  FALSE
    <3>1. callMode = Unregulated1BlinkYellow2BlinkYellow
      BY <2>2, <2>4 DEF ModeToSet, BehaviorManual, BehaviorUnregulated,
                        BehaviorRegulated
    <3>2. lights \in {\h0A0A, \h0104, \h0401, \h0101}
      BY <2>4 DEF Unregulated1BlinkYellow2BlinkYellow, Regulated1Green2Red,
                  Regulated1Red2Green
    <3>3. callMode \in PermittedModes /\ Leads(lights, callMode)
      BY <3>1, <3>2, BlinkingYellowFollows
      DEF Unregulated1BlinkYellow2BlinkYellow, PermittedModes
    <3> QED
      BY <1>1, <2>1, <3>3, NotDenied
  <2> QED
    BY <2>3, <2>4
<1>2. TypeOK /\ CallInv /\ ServeInv /\ LampInv /\ FlowsInStep
      => [CallDenied =>
            /\ reqBehavior = BehaviorRegulated => GetNextRegulatedMode(lights) = 0
            /\ reqBehavior = BehaviorUnregulated =>
                   lights \notin {Unregulated1BlinkYellow2BlinkYellow, \h0101,
                                  Regulated1Green2Red, Regulated1Red2Green}]_vars
  BY <1>1
<1> QED
  BY <1>2, CallInvariant, MonitorKnowsLamps, PTL DEF CycleNeverRefused
=============================================================================
