----------------------------- MODULE Connector ------------------------------
(***************************************************************************)
(* The Connector entity: an HTTP client of the central server that serves  *)
(* ControlSystem's GetTrafficMode and SendDiagnostics, one at a time.      *)
(*                                                                         *)
(* A call can fail at every step, and the code goes on after each failure: *)
(* no socket, no connection after NUM_RETRIES attempts, an answer that     *)
(* does not parse (chunks are appended without a terminator, so what       *)
(* parse_response gets depends on how the answer is cut and on what the    *)
(* stack held).  GetTrafficMode_impl then reads a traffic_light_mode that  *)
(* nobody has written; parse_response has passed an array of the stack to  *)
(* free.  Both are undefined: the entity dies, or a garbage mode is sent.  *)
(***************************************************************************)
EXTENDS CentralServer, Diagnostics

CONSTANTS
    NumRetries,       \* NUM_RETRIES, 10 in the code
    GarbageModes,     \* what an uninitialised traffic_light_mode may hold
    GarbageCodes      \* what an uninitialised code of sys_health_data may hold

ASSUME NumRetriesType == NumRetries \in Nat \ {0}

VARIABLES
    connector,      \* where the dispatch loop and the handler are
    serving,        \* the method being served
    attempts,       \* connect calls that have failed
    wire,           \* the object the server answered with, Lost if none
    fetched         \* the handler's traffic_light_mode

connectorVars == <<connector, serving, attempts, wire, fetched>>

Lost == <<>>

(* A garbage text without an end: NkKosCopyStringToArena cannot copy it. *)
Unreadable == [EmptyResponse EXCEPT !.mode = "unreadable"]

ConnectorInit ==
    /\ connector = "boot" /\ serving = "none" /\ attempts = 0
    /\ wire = Lost /\ fetched = EmptyResponse

ConnectorHello ==
    /\ connector = "boot"
    /\ Collect("Connector", 0)
    /\ connector' = "recv"
    /\ UNCHANGED <<serving, attempts, wire, fetched>>

(* nk_transport_recv returns a call, and the handler opens a socket. *)
ConnectorReceive(method) ==
    /\ connector = "recv"
    /\ connector' = "connect"
    /\ serving' = method
    /\ attempts' = 0
    /\ UNCHANGED <<wire, fetched>>

(* The handler is left with a traffic_light_mode nobody has written. *)
ReadGarbage ==
    /\ wire' = Lost
    /\ fetched' \in GarbageModes \cup {Unreadable}
    /\ connector' = "log"

(* EXIT_FAILURE, which both handlers only print. *)
SocketFails ==
    /\ connector = "connect" /\ attempts = 0
    /\ IF serving = "mode" THEN ReadGarbage
       ELSE connector' = "reply" /\ UNCHANGED <<wire, fetched>>
    /\ UNCHANGED <<serving, attempts, health, received>>

Connect ==
    /\ connector = "connect"
    /\ connector' = "connected"
    /\ UNCHANGED <<serving, attempts, wire, fetched, health, received>>

(* Mutant: attempts start anew when they are used up. *)
ConnectRefusedForEver ==
    /\ connector = "connect"
    /\ attempts' = (attempts + 1) % NumRetries
    /\ UNCHANGED <<connector, serving, wire, fetched, health, received>>

(* Mutant: one attempt too many. *)
ConnectRefusedOnceMore ==
    /\ connector = "connect"
    /\ attempts' = attempts + 1
    /\ connector' = IF attempts = NumRetries THEN "unconnected" ELSE "connect"
    /\ UNCHANGED <<serving, wire, fetched, health, received>>

ConnectRefused ==
    /\ connector = "connect"
    /\ attempts' = attempts + 1
    /\ connector' = IF attempts' = NumRetries THEN "unconnected" ELSE "connect"
    /\ UNCHANGED <<serving, wire, fetched, health, received>>

(* GET /mode: the server answers with the mode of that moment. *)
ServerAnswers ==
    /\ connector = "connected" /\ serving = "mode"
    /\ wire' = tlMode
    /\ connector' = "read"
    /\ UNCHANGED <<serving, attempts, fetched, health, received>>

ParseAnswer ==
    /\ connector = "read"
    /\ fetched' = Parse(Tokens(wire))
    /\ connector' = "log"
    /\ UNCHANGED <<serving, attempts, wire, health, received>>

(* parse_response fails on a broken answer, one cut to nothing included,   *)
(* or on the empty one of a socket that is not connected, and frees the    *)
(* buffer.                                                                 *)
NothingToParse ==
    \/ connector = "read"
    \/ connector = "unconnected" /\ serving = "mode"

ParseFails ==
    /\ NothingToParse
    /\ ReadGarbage
    /\ UNCHANGED <<serving, attempts, health, received>>

ConnectorCrashes ==
    /\ NothingToParse
    /\ wire' = Lost
    /\ connector' = "crashed"
    /\ UNCHANGED <<serving, attempts, fetched, health, received>>

LogMode ==
    /\ connector = "log"
    /\ Collect("Connector", 1)
    /\ connector' = "reply"
    /\ UNCHANGED <<serving, attempts, wire, fetched, received>>

(* POST /diagnostics of what ControlSystem passed, but for the Connector's *)
(* own code, which SendDiagnostics_impl does not copy.                     *)
PostReport(report) ==
    /\ connector = "connected" /\ serving = "health"
    /\ \E code \in GarbageCodes :
           ProcessDiagnostics([report EXCEPT !["Connector"] = code])
    /\ connector' = "reply"
    /\ UNCHANGED <<serving, attempts, wire, fetched, health>>

(* The write fails, as it does without a connection and may do with one,   *)
(* or what it wrote is lost: nobody reads an answer before the socket is   *)
(* closed, so the handler goes on in the same way.                         *)
ReportLost ==
    /\ connector \in {"connected", "unconnected"} /\ serving = "health"
    /\ connector' = "reply"
    /\ UNCHANGED <<serving, attempts, wire, fetched, health, received>>

(* The reply, and the flush of the next iteration. *)
ConnectorReply ==
    /\ connector = "reply"
    /\ connector' = "recv"
    /\ serving' = "none"
    /\ UNCHANGED <<attempts, wire, fetched>>
=============================================================================
