----------------------------- MODULE LightsGpio -----------------------------
(***************************************************************************)
(* The LightsGPIO entity: the mode the lamps show, and the dispatch loop   *)
(* that serves SetCrossLights.  A request reaches `recv' only when the     *)
(* security monitor has granted it (SecurityMonitor), so the handler       *)
(* stores the mode as it is.  Before it replies the handler reports to     *)
(* Diagnostics, a call of its own during which everybody else runs.        *)
(***************************************************************************)
EXTENDS CrossModes, Diagnostics

VARIABLES
    lights,    \* ILightsGpioImpl.mode: what the lamps show
    gpio,      \* where the dispatch loop is
    request    \* lights.crossMode of the request being served, 0 if flushed

gpioVars == <<lights, gpio, request>>

DefaultLightsMode == Unregulated1BlinkYellow2BlinkYellow

GpioInit ==
    /\ lights = DefaultLightsMode
    /\ gpio = "boot"
    /\ request = 0

(* CreateILightsGpioImpl greets Diagnostics before main enters the loop. *)
GpioHello ==
    /\ gpio = "boot"
    /\ Collect("LightsGPIO", 0)
    /\ gpio' = "recv"
    /\ UNCHANGED <<lights, request>>

(* nk_transport_recv returns a granted SetCrossLights request. *)
GpioReceive(mode) ==
    /\ gpio = "recv"
    /\ gpio' = "serve"
    /\ request' = mode
    /\ UNCHANGED lights

(* Mutant: the change is not reported to Diagnostics. *)
SetCrossLightsUnreported ==
    /\ gpio = "serve"
    /\ lights' = request
    /\ gpio' = "reply"
    /\ UNCHANGED <<request, health>>

SetCrossLights ==
    /\ gpio = "serve"
    /\ lights' = request
    /\ gpio' = "report"
    /\ UNCHANGED <<request, health>>

(* LogEvent(&impl->logProxy, impl->mode, ...) inside SetCrossLights_impl. *)
GpioReport ==
    /\ gpio = "report"
    /\ Collect("LightsGPIO", lights)
    /\ gpio' = "reply"
    /\ UNCHANGED <<lights, request>>

(* nk_transport_reply, then the next iteration flushes the request.  The   *)
(* caller takes res->result = impl->mode, that is the value of lights.     *)
GpioReply ==
    /\ gpio = "reply"
    /\ gpio' = "recv"
    /\ request' = 0
    /\ UNCHANGED lights
=============================================================================
