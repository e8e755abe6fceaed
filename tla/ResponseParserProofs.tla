------------------------ MODULE ResponseParserProofs ------------------------
(***************************************************************************)
(* Proofs about ResponseParser, for any documents and any width of int:    *)
(* whatever update_modes is left at by an earlier response, every field    *)
(* ends up with the last value its own document gives it.                  *)
(***************************************************************************)
EXTENDS ResponseParser, ResponseFieldsProofs

(* What the flags mean: once a token of the object has been processed, the *)
(* flag set is that of the key the next token stands under.  Before that   *)
(* they are whatever the last response left, and no token has used them.   *)
FlagsFollowKeys ==
    position > 0 =>
        flags = {field \in Fields : StandsUnder(document, position + 1, field)}

IndInv == TypeOK /\ FlagsFollowKeys /\ HoldsLastValues

(* A document in hand is a sequence of tokens that starts with a key. *)
LEMMA DocumentShape ==
    ASSUME TypeOK
    PROVE  /\ Len(document) \in Nat
           /\ \A i \in 1 .. Len(document) : document[i] \in Token
           /\ Len(document) > 0 => document[1].type = "key"
<1>1. document \in Documents \/ document = <<>>
  BY DEF TypeOK
<1>2. CASE document = <<>>
  BY <1>2
<1>3. CASE document \in Documents
  <2>1. document \in Seq(Token)
    BY <1>3, DocumentsType
  <2>2. Len(document) > 0 => document # <<>>
    BY <2>1
  <2> QED  BY <1>3, <2>1, <2>2, DocumentsType
<1> QED  BY <1>1, <1>2, <1>3

(* The key of a token is the token before it, or the key of that one. *)
LEMMA NextStandsUnder ==
    ASSUME NEW object, NEW n \in Nat, NEW field
    PROVE  StandsUnder(object, n + 2, field) <=>
               IF object[n + 1].type = "key" THEN object[n + 1].text = field
               ELSE StandsUnder(object, n + 1, field)
<1>1. CASE object[n + 1].type = "key"
  <2>1. ASSUME StandsUnder(object, n + 2, field) PROVE object[n + 1].text = field
    <3>1. PICK k \in 1 .. n + 1 :
              /\ object[k].type = "key" /\ object[k].text = field
              /\ \A j \in k + 1 .. n + 1 : object[j].type # "key"
      BY <2>1 DEF StandsUnder
    <3>2. k = n + 1
      BY <1>1, <3>1
    <3> QED  BY <3>1, <3>2
  <2>2. ASSUME object[n + 1].text = field PROVE StandsUnder(object, n + 2, field)
    BY <1>1, <2>2 DEF StandsUnder
  <2> QED  BY <1>1, <2>1, <2>2
<1>2. CASE object[n + 1].type # "key"
  <2>1. ASSUME StandsUnder(object, n + 2, field) PROVE StandsUnder(object, n + 1, field)
    BY <1>2, <2>1 DEF StandsUnder
  <2>2. ASSUME StandsUnder(object, n + 1, field) PROVE StandsUnder(object, n + 2, field)
    BY <1>2, <2>2 DEF StandsUnder
  <2> QED  BY <1>2, <2>1, <2>2
<1> QED  BY <1>1, <1>2

(* One more token: if it gives the field a value, it decides; if not, the  *)
(* token that decided still does.                                          *)
LEMMA OneMoreToken ==
    ASSUME NEW object, NEW n \in Nat, NEW field, NEW type
    PROVE  /\ object[n + 1].type = type /\ StandsUnder(object, n + 1, field)
                  => Decides(object, n + 1, n + 1, field, type)
           /\ ~(object[n + 1].type = type /\ StandsUnder(object, n + 1, field))
                  => \A i \in 1 .. n + 1 :
                        Decides(object, n + 1, i, field, type)
                            <=> i \in 1 .. n /\ Decides(object, n, i, field, type)
  BY DEF Decides

(* The text and the number of a field after one more token. *)
LEMMA NextTextOf ==
    ASSUME NEW object, NEW n \in Nat, NEW field, NEW text, NEW next,
           TextOf(object, n, field, text),
           next = IF object[n + 1].type = "string" /\ StandsUnder(object, n + 1, field)
                  THEN object[n + 1].text ELSE text
    PROVE  TextOf(object, n + 1, field, next)
<1>1. CASE object[n + 1].type = "string" /\ StandsUnder(object, n + 1, field)
  <2>1. Decides(object, n + 1, n + 1, field, "string") /\ n + 1 \in 1 .. n + 1
    BY <1>1, OneMoreToken
  <2>2. next = object[n + 1].text
    BY <1>1
  <2> QED  BY <2>1, <2>2, Zenon DEF TextOf
<1>2. CASE ~(object[n + 1].type = "string" /\ StandsUnder(object, n + 1, field))
  <2>1. \A i \in 1 .. n + 1 : Decides(object, n + 1, i, field, "string")
                                  <=> i \in 1 .. n /\ Decides(object, n, i, field, "string")
    BY <1>2, OneMoreToken
  <2>2. next = text
    BY <1>2
  <2>3. ASSUME NEW i \in 1 .. n, Decides(object, n, i, field, "string")
        PROVE  Decides(object, n + 1, i, field, "string") /\ i \in 1 .. n + 1
    BY <2>1, <2>3
  <2>4. CASE \E i \in 1 .. n : Decides(object, n, i, field, "string") /\ text = object[i].text
    BY <2>2, <2>3, <2>4, Zenon DEF TextOf
  <2>5. CASE (\A i \in 1 .. n : ~Decides(object, n, i, field, "string")) /\ text = ""
    BY <2>1, <2>2, <2>5, Zenon DEF TextOf
  <2> QED  BY <2>4, <2>5, Zenon DEF TextOf
<1> QED  BY <1>1, <1>2

LEMMA NextNumberOf ==
    ASSUME NEW object, NEW n \in Nat, NEW field, NEW number, NEW next,
           NumberOf(object, n, field, number),
           next = IF object[n + 1].type = "integer" /\ StandsUnder(object, n + 1, field)
                  THEN AsInt(object[n + 1].value) ELSE number
    PROVE  NumberOf(object, n + 1, field, next)
<1>1. CASE object[n + 1].type = "integer" /\ StandsUnder(object, n + 1, field)
  <2>1. Decides(object, n + 1, n + 1, field, "integer") /\ n + 1 \in 1 .. n + 1
    BY <1>1, OneMoreToken
  <2>2. next = AsInt(object[n + 1].value)
    BY <1>1
  <2> QED  BY <2>1, <2>2, Zenon DEF NumberOf
<1>2. CASE ~(object[n + 1].type = "integer" /\ StandsUnder(object, n + 1, field))
  <2>1. \A i \in 1 .. n + 1 : Decides(object, n + 1, i, field, "integer")
                                  <=> i \in 1 .. n /\ Decides(object, n, i, field, "integer")
    BY <1>2, OneMoreToken
  <2>2. next = number
    BY <1>2
  <2>3. ASSUME NEW i \in 1 .. n, Decides(object, n, i, field, "integer")
        PROVE  Decides(object, n + 1, i, field, "integer") /\ i \in 1 .. n + 1
    BY <2>1, <2>3
  <2>4. CASE \E i \in 1 .. n :
                 /\ Decides(object, n, i, field, "integer")
                 /\ number = AsInt(object[i].value)
    BY <2>2, <2>3, <2>4, Zenon DEF NumberOf
  <2>5. CASE (\A i \in 1 .. n : ~Decides(object, n, i, field, "integer")) /\ number = 0
    BY <2>1, <2>2, <2>5, Zenon DEF NumberOf
  <2> QED  BY <2>4, <2>5, Zenon DEF NumberOf
<1> QED  BY <1>1, <1>2
-----------------------------------------------------------------------------
(* Before the first token, cleared fields are what the object gives. *)
LEMMA ClearedFields ==
    ASSUME NEW object, NEW field
    PROVE  TextOf(object, 0, field, "") /\ NumberOf(object, 0, field, 0)
<1>1. ~ \E i \in 1 .. 0 : TRUE
  OBVIOUS
<1> QED  BY <1>1, Zenon DEF TextOf, NumberOf

LEMMA ClearedType ==
    /\ EmptyResponse \in [mode : Texts \cup {""}, color1 : Texts \cup {""},
                         color2 : Texts \cup {""}, duration1 : Int, duration2 : Int]
    /\ \A duration \in {EmptyResponse.duration1, EmptyResponse.duration2} :
           duration \in -IntHalf .. IntHalf - 1
<1>1. 0 \in -IntHalf .. IntHalf - 1
  BY IntHalfType
<1> QED  BY <1>1 DEF EmptyResponse

LEMMA Initially == Init => IndInv
<1> SUFFICES ASSUME Init PROVE IndInv
  OBVIOUS
<1>1. TypeOK
  <2>1. position \in 0 .. Len(document)
    BY DEF Init
  <2> QED  BY <2>1, ClearedType DEF Init, TypeOK
<1>2. FlagsFollowKeys
  BY DEF Init, FlagsFollowKeys
<1>3. HoldsLastValues
  BY ClearedFields DEF Init, EmptyResponse, HoldsLastValues
<1> QED  BY <1>1, <1>2, <1>3 DEF IndInv

(* A new response: the fields are cleared, and no token has been processed,*)
(* so the flags of the last response are allowed to be anything.           *)
LEMMA NextResponseKeeps == IndInv /\ NextResponse => IndInv'
<1> SUFFICES ASSUME IndInv, NextResponse PROVE IndInv'
  OBVIOUS
<1>1. TypeOK'
  <2>1. document' \in Documents /\ document' \in Seq(Token)
    BY DocumentsType DEF NextResponse
  <2>2. position' \in 0 .. Len(document')
    BY <2>1 DEF NextResponse
  <2>3. flags' \in {{}} \cup {{field} : field \in Fields}
    BY DEF IndInv, TypeOK, NextResponse
  <2>4. response' = EmptyResponse
    BY DEF NextResponse
  <2> QED  BY <2>1, <2>2, <2>3, <2>4, ClearedType DEF TypeOK
<1>2. FlagsFollowKeys'
  BY DEF NextResponse, FlagsFollowKeys
<1>3. HoldsLastValues'
  BY ClearedFields DEF NextResponse, EmptyResponse, HoldsLastValues
<1> QED  BY <1>1, <1>2, <1>3 DEF IndInv

(* While a token of the object is processed, a flag is set for a field     *)
(* exactly if the token stands under it; the first token is a key, and     *)
(* looks at no flag.                                                       *)
LEMMA FlagsAreKeys ==
    ASSUME IndInv, position < Len(document), document[position + 1].type # "key"
    PROVE  /\ position > 0
           /\ \A field \in Fields :
                  field \in flags <=> StandsUnder(document, position + 1, field)
<1>1. position \in Nat
  <2>1. position \in 0 .. Len(document) /\ Len(document) \in Nat
    BY DocumentShape DEF IndInv, TypeOK
  <2> QED  BY <2>1
<1>2. position > 0
  BY <1>1, DocumentShape DEF IndInv
<1> QED  BY <1>2 DEF IndInv, FlagsFollowKeys

LEMMA ProcessTokenKeeps == IndInv /\ ProcessToken => IndInv'
<1> SUFFICES ASSUME IndInv, ProcessToken PROVE IndInv'
  OBVIOUS
<1> DEFINE token == document[position + 1]
<1>1. /\ position \in Nat /\ position + 1 \in 1 .. Len(document)
      /\ token \in Token
      /\ position' = position + 1 /\ document' = document
      /\ TypeOK
  <2>1. TypeOK /\ Len(document) \in Nat /\ position \in 0 .. Len(document)
    BY DocumentShape DEF IndInv, TypeOK
  <2>2. position < Len(document) /\ position' = position + 1 /\ document' = document
    BY DEF ProcessToken
  <2> QED  BY <2>1, <2>2, DocumentShape
<1>2. TypeOK'
  <2>1. flags' \in {{}} \cup {{field} : field \in Fields}
    BY <1>1 DEF TypeOK, ProcessToken, FlagsAfter, UpdateModesField, Fields
  <2>2. /\ response' \in [mode : Texts \cup {""}, color1 : Texts \cup {""},
                          color2 : Texts \cup {""}, duration1 : Int, duration2 : Int]
        /\ \A duration \in {response'.duration1, response'.duration2} :
               duration \in -IntHalf .. IntHalf - 1
    <3>1. AsInt(token.value) \in -IntHalf .. IntHalf - 1
      BY <1>1, AsIntRange DEF Token
    <3>2. AsInt(token.value) \in Int
      BY <3>1, IntHalfType
    <3> HIDE DEF token
    <3>3. response' = ResponseAfter(response, flags, token)
      BY DEF ProcessToken, token
    <3> QED  BY <1>1, <3>1, <3>2, <3>3
             DEF TypeOK, Token, ResponseAfter, UpdateString, UpdateInteger
  <2>3. position' \in 0 .. Len(document')
    BY <1>1
  <2> QED  BY <1>1, <2>1, <2>2, <2>3 DEF TypeOK
<1>3. FlagsFollowKeys'
  <2>1. \A field : StandsUnder(document, position + 2, field) <=>
                       IF token.type = "key" THEN token.text = field
                       ELSE StandsUnder(document, position + 1, field)
    BY <1>1, NextStandsUnder
  <2>2. CASE token.type = "key"
    BY <1>1, <2>1, <2>2 DEF FlagsFollowKeys, ProcessToken, FlagsAfter, UpdateModesField
  <2>3. CASE token.type # "key"
    <3>1. flags' = flags /\ position > 0
      BY <1>1, <2>3, FlagsAreKeys DEF ProcessToken, FlagsAfter
    <3> QED  BY <1>1, <2>1, <2>3, <3>1 DEF IndInv, FlagsFollowKeys
  <2> QED  BY <2>2, <2>3
<1>4. HoldsLastValues'
  <2> DEFINE under(field) == StandsUnder(document, position + 1, field)
  <2>1. /\ response'.mode = IF token.type = "string" /\ under("mode")
                            THEN token.text ELSE response.mode
        /\ response'.color1 = IF token.type = "string" /\ under("direction_1")
                              THEN token.text ELSE response.color1
        /\ response'.color2 = IF token.type = "string" /\ under("direction_2")
                              THEN token.text ELSE response.color2
        /\ response'.duration1 = IF token.type = "integer" /\ under("direction_1")
                                 THEN AsInt(token.value) ELSE response.duration1
        /\ response'.duration2 = IF token.type = "integer" /\ under("direction_2")
                                 THEN AsInt(token.value) ELSE response.duration2
    <3>1. response' = ResponseAfter(response, flags, token)
      BY DEF ProcessToken
    <3>2. CASE token.type \notin {"string", "integer"}
      BY <3>1, <3>2 DEF ResponseAfter
    <3>3. CASE token.type \in {"string", "integer"}
      <4>1. \A field \in Fields : field \in flags <=> under(field)
        BY <1>1, <3>3, FlagsAreKeys DEF ProcessToken
      <4>2. /\ "mode" \in flags <=> under("mode")
            /\ "direction_1" \in flags <=> under("direction_1")
            /\ "direction_2" \in flags <=> under("direction_2")
        BY <4>1 DEF Fields
      <4>3. \A f, g : f \in flags /\ g \in flags => f = g
        BY <1>1 DEF TypeOK
      <4>4. /\ ~("mode" \in flags /\ "direction_1" \in flags)
            /\ ~("mode" \in flags /\ "direction_2" \in flags)
            /\ ~("direction_1" \in flags /\ "direction_2" \in flags)
        BY <4>3
      <4>5. response \in [mode : Texts \cup {""}, color1 : Texts \cup {""},
                          color2 : Texts \cup {""}, duration1 : Int, duration2 : Int]
        BY <1>1 DEF TypeOK
      <4> DEFINE m == under("mode")  d1 == under("direction_1")  d2 == under("direction_2")
      <4> HIDE DEF m, d1, d2, token
      <4>6. CASE token.type = "string"
        <5>1. response' = UpdateString(response, flags, token.text)
          BY <3>1, <4>6 DEF ResponseAfter
        <5>2. response' = IF m THEN [response EXCEPT !.mode = token.text]
                          ELSE IF d1 THEN [response EXCEPT !.color1 = token.text]
                          ELSE IF d2 THEN [response EXCEPT !.color2 = token.text]
                          ELSE response
          BY <4>2, <5>1 DEF UpdateString, m, d1, d2
        <5>3. ~(m /\ d1) /\ ~(m /\ d2) /\ ~(d1 /\ d2)
          BY <4>2, <4>4 DEF m, d1, d2
        <5>4. /\ response'.mode = IF m THEN token.text ELSE response.mode
              /\ response'.color1 = IF d1 THEN token.text ELSE response.color1
              /\ response'.color2 = IF d2 THEN token.text ELSE response.color2
              /\ response'.duration1 = response.duration1
              /\ response'.duration2 = response.duration2
          BY <4>5, <5>2, <5>3
        <5> QED  BY <4>6, <5>4 DEF m, d1, d2
      <4>7. CASE token.type = "integer"
        <5>1. response' = UpdateInteger(response, flags, token.value)
          BY <3>1, <4>7 DEF ResponseAfter
        <5>2. response' = IF d1 THEN [response EXCEPT !.duration1 = AsInt(token.value)]
                          ELSE IF d2 THEN [response EXCEPT !.duration2 = AsInt(token.value)]
                          ELSE response
          BY <4>2, <5>1 DEF UpdateInteger, d1, d2
        <5>3. ~(d1 /\ d2)
          BY <4>2, <4>4 DEF d1, d2
        <5>4. /\ response'.mode = response.mode
              /\ response'.color1 = response.color1
              /\ response'.color2 = response.color2
              /\ response'.duration1 = IF d1 THEN AsInt(token.value) ELSE response.duration1
              /\ response'.duration2 = IF d2 THEN AsInt(token.value) ELSE response.duration2
          BY <4>5, <5>2, <5>3
        <5> QED  BY <4>7, <5>4 DEF d1, d2
      <4> QED  BY <3>3, <4>6, <4>7
    <3> QED  BY <3>2, <3>3
  <2>2. /\ TextOf(document, position + 1, "mode", response'.mode)
        /\ TextOf(document, position + 1, "direction_1", response'.color1)
        /\ TextOf(document, position + 1, "direction_2", response'.color2)
    BY <1>1, <2>1, NextTextOf DEF IndInv, HoldsLastValues
  <2>3. /\ NumberOf(document, position + 1, "direction_1", response'.duration1)
        /\ NumberOf(document, position + 1, "direction_2", response'.duration2)
    BY <1>1, <2>1, NextNumberOf DEF IndInv, HoldsLastValues
  <2> QED  BY <1>1, <2>2, <2>3 DEF HoldsLastValues
<1> QED  BY <1>2, <1>3, <1>4 DEF IndInv

THEOREM Invariance == Spec => []IndInv
<1>1. IndInv /\ UNCHANGED vars => IndInv'
  BY DEF IndInv, TypeOK, FlagsFollowKeys, HoldsLastValues, vars
<1>2. IndInv /\ [Next]_vars => IndInv'
  BY <1>1, NextResponseKeeps, ProcessTokenKeeps DEF Next
<1> QED  BY <1>2, Initially, PTL DEF Spec

(* At most one flag of update_modes is set, and every duration is an int,  *)
(* whatever numbers the server sends (response-parser.c:27-40, 55-63).     *)
THEOREM TypeCorrect == Spec => []TypeOK
<1>1. IndInv => TypeOK
  BY DEF IndInv
<1> QED  BY <1>1, Invariance, PTL

(* Every field holds the last value the response in hand gives it, and     *)
(* nothing of an earlier response (response-parser.c:27-136).              *)
THEOREM LastValueWins == Spec => []HoldsLastValues
<1>1. IndInv => HoldsLastValues
  BY DEF IndInv
<1> QED  BY <1>1, Invariance, PTL
-----------------------------------------------------------------------------
(***************************************************************************)
(* The walk step by step and the walk at once.                             *)
(***************************************************************************)

(* The flags of an earlier response differ from the cleared ones Walk      *)
(* starts with, until the first token, a key, has set them.                *)
WalkInv ==
    /\ response = Walk(document)[position].response
    /\ position > 0 => flags = Walk(document)[position].flags

LEMMA WalkInitially == Init => WalkInv
  BY WalkUnfolds DEF Init, WalkInv, WalkStart

LEMMA NextResponseWalks == NextResponse => WalkInv'
<1> SUFFICES ASSUME NextResponse PROVE WalkInv'
  OBVIOUS
<1>1. document' \in Seq(Token) /\ position' = 0 /\ response' = EmptyResponse
  BY DocumentsType DEF NextResponse
<1> QED  BY <1>1, WalkUnfolds DEF WalkInv, WalkStart

LEMMA ProcessTokenWalks == TypeOK /\ WalkInv /\ ProcessToken => WalkInv'
<1> SUFFICES ASSUME TypeOK, WalkInv, ProcessToken PROVE WalkInv'
  OBVIOUS
<1> DEFINE token  == document[position + 1]
           before == Walk(document)[position]
<1>1. /\ Len(document) \in Nat /\ position \in 0 .. Len(document) - 1
      /\ position' = position + 1 /\ document' = document
      /\ flags' = FlagsAfter(flags, token)
      /\ response' = ResponseAfter(response, flags, token)
  <2>1. Len(document) \in Nat /\ position \in 0 .. Len(document)
    BY DocumentShape DEF TypeOK
  <2>2. position < Len(document)
    BY DEF ProcessToken
  <2> QED  BY <2>1, <2>2 DEF ProcessToken
<1>2. Walk(document)[position + 1] = AfterToken(before, token)
  BY <1>1, WalkUnfolds
<1>3. response = before.response
  BY DEF WalkInv
<1>4. CASE token.type = "key"
  <2>1. token.type \notin {"string", "integer"}
    BY <1>4
  <2>2. \A any, left : ResponseAfter(any, left, token) = any
    BY <2>1 DEF ResponseAfter
  <2>3. \A left : FlagsAfter(left, token) = UpdateModesField(left, token.text)
    BY <1>4 DEF FlagsAfter
  <2>4. \A left, right : UpdateModesField(left, token.text) = UpdateModesField(right, token.text)
    BY DEF UpdateModesField
  <2> HIDE DEF token, before
  <2> QED  BY <1>1, <1>2, <1>3, <2>2, <2>3, <2>4 DEF WalkInv, AfterToken
<1>5. CASE token.type # "key"
  <2>1. position > 0
    BY <1>1, <1>5, DocumentShape
  <2>2. flags = before.flags
    BY <2>1 DEF WalkInv
  <2> QED  BY <1>1, <1>2, <1>3, <2>2 DEF WalkInv, AfterToken
<1> QED  BY <1>4, <1>5

(* Parse, with which the Connector's model fetches a mode in one step, is  *)
(* what process_value arrives at, token by token, from whatever flags the  *)
(* response before has left (response-parser.c:65-103, 131-142).           *)
THEOREM ParseIsAlwaysWalk ==
    Spec => [](position = Len(document) => response = Parse(document))
<1>1. TypeOK /\ WalkInv /\ [Next]_vars => WalkInv'
  <2>1. WalkInv /\ UNCHANGED vars => WalkInv'
    BY DEF WalkInv, vars
  <2> QED  BY <2>1, NextResponseWalks, ProcessTokenWalks DEF Next
<1>2. WalkInv => (position = Len(document) => response = Parse(document))
  BY DEF WalkInv, Parse
<1> QED  BY <1>1, <1>2, WalkInitially, TypeCorrect, PTL DEF Spec
=============================================================================
