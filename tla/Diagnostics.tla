---------------------------- MODULE Diagnostics -----------------------------
(***************************************************************************)
(* The Diagnostics entity: the last event code each entity reported.       *)
(* Its dispatch loop serves one Collect at a time and Collect calls nobody *)
(* else, so a caller's LogEvent is one atomic step: the moment Collect     *)
(* runs.  NoEvent stands for the initial (rtl_uint32_t)-1.                 *)
(***************************************************************************)
EXTENDS Integers

VARIABLE health    \* IEventLogImpl: source entity -> last event code

Sources == {"ControlSystem", "Connector", "CrossController", "LightsGPIO"}

NoEvent == -1

DiagnosticsInit == health = [source \in Sources |-> NoEvent]

Collect(source, code) == health' = [health EXCEPT ![source] = code]
=============================================================================
