--------------------------- MODULE ResponseParser ---------------------------
(***************************************************************************)
(* parse_response called for one server response after another.  The two   *)
(* static variables of the parser outlive a call: traffic_light_resp is    *)
(* cleared by the next one, update_modes is not.                           *)
(***************************************************************************)
EXTENDS ResponseFields

CONSTANTS
    Texts,        \* the texts that keys and values may be
    Documents     \* the JSON objects a server may send, in pre-order

Token == [type : {"key", "string", "integer", "other"}, text : Texts, value : Int]

(* parse_response strips a response up to its first "{", so what is parsed *)
(* is an object, and the first token of an object is a key.                *)
ASSUME DocumentsType ==
    /\ Documents \subseteq Seq(Token)
    /\ \A object \in Documents : object # <<>> => object[1].type = "key"

VARIABLES
    document,    \* the object being walked
    position,    \* how many of its tokens have been processed
    flags,       \* update_modes: the fields whose flag is set
    response     \* traffic_light_resp

vars == <<document, position, flags, response>>

Init == document = <<>> /\ position = 0 /\ flags = {} /\ response = EmptyResponse

(* A new call: parse_response clears traffic_light_resp and parses.        *)
NextResponse ==
    /\ position = Len(document)
    /\ document' \in Documents
    /\ position' = 0
    /\ response' = EmptyResponse
    /\ UNCHANGED flags

ProcessToken ==
    /\ position < Len(document)
    /\ position' = position + 1
    /\ flags' = FlagsAfter(flags, document[position + 1])
    /\ response' = ResponseAfter(response, flags, document[position + 1])
    /\ UNCHANGED document

Next == NextResponse \/ ProcessToken

Spec == Init /\ [][Next]_vars
-----------------------------------------------------------------------------
(* Type invariant of the parser: at most one flag is set at any time, and  *)
(* durations fit an int.                                                   *)
TypeOK ==
    /\ document \in Documents \cup {<<>>}
    /\ position \in 0 .. Len(document)
    /\ flags \in {{}} \cup {{field} : field \in Fields}
    /\ response \in [mode : Texts \cup {""}, color1 : Texts \cup {""},
                    color2 : Texts \cup {""}, duration1 : Int, duration2 : Int]
    /\ \A duration \in {response.duration1, response.duration2} :
           duration \in -IntHalf .. IntHalf - 1

(* The key that token i of an object stands under: the last one before it. *)
StandsUnder(object, i, field) ==
    \E k \in 1 .. i - 1 :
        /\ object[k].type = "key" /\ object[k].text = field
        /\ \A j \in k + 1 .. i - 1 : object[j].type # "key"

(* i is the last of the first n tokens that gives the field such a value.  *)
Decides(object, n, i, field, type) ==
    /\ object[i].type = type /\ StandsUnder(object, i, field)
    /\ \A j \in i + 1 .. n : ~(object[j].type = type /\ StandsUnder(object, j, field))

TextOf(object, n, field, text) ==
    \/ \E i \in 1 .. n : Decides(object, n, i, field, "string") /\ text = object[i].text
    \/ /\ \A i \in 1 .. n : ~Decides(object, n, i, field, "string")
       /\ text = ""

NumberOf(object, n, field, number) ==
    \/ \E i \in 1 .. n :
           /\ Decides(object, n, i, field, "integer")
           /\ number = AsInt(object[i].value)
    \/ /\ \A i \in 1 .. n : ~Decides(object, n, i, field, "integer")
       /\ number = 0

(* Reference: every field holds the last value of its type that the        *)
(* object in hand, and no earlier one, gives under the field's key, be it  *)
(* inside arrays, next to values of other types or after unknown keys; a   *)
(* field the object does not give is cleared (response-parser.c:18-63, and *)
(* 131-136, which clear the fields but not update_modes).                  *)
HoldsLastValues ==
    /\ TextOf(document, position, "mode", response.mode)
    /\ TextOf(document, position, "direction_1", response.color1)
    /\ TextOf(document, position, "direction_2", response.color2)
    /\ NumberOf(document, position, "direction_1", response.duration1)
    /\ NumberOf(document, position, "direction_2", response.duration2)
=============================================================================
