--------------------------- MODULE ResponseFields ---------------------------
(***************************************************************************)
(* response-parser.c: how one JSON object fills a traffic_light_mode.      *)
(*                                                                         *)
(* process_value walks the parsed tree in pre-order and keeps no stack:    *)
(* all it remembers are the static update_modes and traffic_light_resp.    *)
(* So a document is given as the sequence of its keys and scalars in       *)
(* pre-order, and nesting, which the walk does not see, is left out.       *)
(* A text is a member of a small set; "" is a cleared text.                *)
(***************************************************************************)
EXTENDS Integers, Sequences

CONSTANT IntHalf    \* INT_MAX + 1, that is 2^31

ASSUME IntHalfType == IntHalf \in Nat \ {0}

Fields == {"mode", "direction_1", "direction_2"}

Key(name)      == [type |-> "key", text |-> name, value |-> 0]
Text(text)     == [type |-> "string", text |-> text, value |-> 0]
Number(value)  == [type |-> "integer", text |-> "", value |-> value]
OtherScalar    == [type |-> "other", text |-> "", value |-> 0]

EmptyResponse ==
    [mode |-> "", color1 |-> "", color2 |-> "", duration1 |-> 0, duration2 |-> 0]

(* Mutant: durations are kept at their full width. *)
AsIntUncast(value) == value

(* (int) of a json_integer, and the nk_uint32_t it becomes in a reply. *)
AsInt(value)  == ((value + IntHalf) % (2 * IntHalf)) - IntHalf
AsUInt(value) == value % (2 * IntHalf)

(* Mutant: update_modes.flags = 0 is missing. *)
FlagsNotCleared(flags, name) == flags \cup ({name} \cap Fields)

(* update_modes_field: clears the flags, then sets the one of a known key. *)
UpdateModesField(flags, name) == {name} \cap Fields

UpdateString(response, flags, text) ==
    IF "mode" \in flags THEN [response EXCEPT !.mode = text]
    ELSE IF "direction_1" \in flags THEN [response EXCEPT !.color1 = text]
    ELSE IF "direction_2" \in flags THEN [response EXCEPT !.color2 = text]
    ELSE response

UpdateInteger(response, flags, value) ==
    IF "direction_1" \in flags THEN [response EXCEPT !.duration1 = AsInt(value)]
    ELSE IF "direction_2" \in flags THEN [response EXCEPT !.duration2 = AsInt(value)]
    ELSE response

(* What process_value makes of one token. *)
FlagsAfter(flags, token) ==
    IF token.type = "key" THEN UpdateModesField(flags, token.text) ELSE flags

ResponseAfter(response, flags, token) ==
    CASE token.type = "string"  -> UpdateString(response, flags, token.text)
      [] token.type = "integer" -> UpdateInteger(response, flags, token.value)
      [] OTHER                  -> response

(* The walk over a document: what is remembered after each token. *)
AfterToken(before, token) ==
    [flags    |-> FlagsAfter(before.flags, token),
     response |-> ResponseAfter(before.response, before.flags, token)]

WalkStart == [flags |-> {}, response |-> EmptyResponse]

Walking == INSTANCE Folding WITH Start <- WalkStart, Step <- AfterToken

Walk(document) == Walking!Fold(document)

(* A whole walk at once, for the entities that only see its result. *)
Parse(document) == Walk(document)[Len(document)].response
=============================================================================
