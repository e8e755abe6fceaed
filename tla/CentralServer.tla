--------------------------- MODULE CentralServer ----------------------------
(***************************************************************************)
(* The simulator of the central server: the mode it hands out, a JSON      *)
(* object that an operator replaces with POST /manual, and the last        *)
(* diagnostics it was sent.  An object is the sequence of its members, a   *)
(* value the sequence of its scalars and keys, as ResponseFields has them. *)
(***************************************************************************)
EXTENDS ResponseFields

VARIABLES
    tlMode,      \* tl_mode: the object GET /mode answers with
    received     \* the last object POST /diagnostics was called with

Member(key, value) == [key |-> key, value |-> value]

KnownModes == {"unregulated", "regulated", "manual"}

DefaultMode ==
    << Member("mode", <<Text("unregulated")>>),
       Member("direction_1", <<Text("blink-yellow")>>),
       Member("direction_2", <<Text("blink-yellow")>>) >>

HasMember(data, key) == \E i \in DOMAIN data : data[i].key = key

(* The checks of POST /manual: nothing is asked of the two directions but  *)
(* that they are there.                                                    *)
Accepts(data) ==
    /\ \E i \in DOMAIN data, mode \in KnownModes : data[i] = Member("mode", <<Text(mode)>>)
    /\ HasMember(data, "direction_1") /\ HasMember(data, "direction_2")

(* Mutant: the checks answer an error but the mode is stored first. *)
ProcessManualUnchecked(data) == tlMode' = data

ProcessManual(data) == tlMode' = IF Accepts(data) THEN data ELSE tlMode

ProcessDiagnostics(report) == received' = report

(* json.dumps keeps the order of the members. *)
AddMember(tokens, member) == tokens \o <<Key(member.key)>> \o member.value

Dumping == INSTANCE Folding WITH Start <- <<>>, Step <- AddMember

Tokens(data) == Dumping!Fold(data)[Len(data)]
=============================================================================
