------------------------- MODULE ResponseFieldsProofs -----------------------
(***************************************************************************)
(* Lemmas about Walk, for documents of any length.                         *)
(***************************************************************************)
EXTENDS ResponseFields, TLAPS

WalkingFacts == INSTANCE FoldingProofs WITH Start <- WalkStart, Step <- AfterToken

(* Walk unfolds token by token. *)
LEMMA WalkUnfolds ==
    ASSUME NEW document, Len(document) \in Nat
    PROVE  /\ Walk(document)[0] = WalkStart
           /\ \A i \in 1 .. Len(document) :
                  Walk(document)[i] = AfterToken(Walk(document)[i - 1], document[i])
<1>1. Walk(document) = WalkingFacts!Fold(document)
  BY DEF Walk, Walking!Fold, WalkingFacts!Fold
<1> QED
  BY <1>1, WalkingFacts!FoldUnfolds

(* The two halves of the remainder are within the range of an int. *)
LEMMA AsIntRange ==
    ASSUME NEW value \in Int
    PROVE  AsInt(value) \in -IntHalf .. IntHalf - 1
<1> DEFINE m == 2 * IntHalf
<1>1. m \in Nat /\ m > 0
  BY IntHalfType
<1>2. (value + IntHalf) % m \in 0 .. m - 1
  <2> HIDE DEF m
  <2>1. value + IntHalf \in Int
    BY IntHalfType
  <2> QED  BY <1>1, <2>1, Z3
<1> QED  BY <1>2, IntHalfType DEF AsInt

(***************************************************************************)
(* Division.                                                               *)
(***************************************************************************)
LEMMA Divided ==
    ASSUME NEW m \in Int, m > 0, NEW a \in Int
    PROVE  a % m \in 0 .. m - 1 /\ \E q \in Int : a = m * q + (a % m)
<1>1. a % m \in 0 .. m - 1 /\ a \div m \in Int /\ a = m * (a \div m) + (a % m)
  BY Z3
<1> QED
  BY <1>1

LEMMA SameRemainder ==
    ASSUME NEW m \in Int, m > 0, NEW q \in Int, NEW p \in Int,
           NEW r \in 0 .. m - 1, NEW s \in 0 .. m - 1, m * q + r = m * p + s
    PROVE  r = s
<1>1. CASE q >= p + 1
  <2>1. m * (q - p) >= m
    BY <1>1, Z3
  <2> QED
    BY <2>1, Z3
<1>2. CASE p >= q + 1
  <2>1. m * (p - q) >= m
    BY <1>2, Z3
  <2> QED
    BY <2>1, Z3
<1>3. CASE p = q
  BY <1>3, Z3
<1> QED
  BY <1>1, <1>2, <1>3

LEMMA Shifted ==
    ASSUME NEW m \in Int, m > 0, NEW a \in Int, NEW v \in Int, NEW q \in Int,
           v = m * q + a
    PROVE  a % m = v % m
<1> DEFINE r == a % m
           s == v % m
<1>1. PICK p \in Int : a = m * p + r
  BY Divided
<1>2. PICK k \in Int : v = m * k + s
  BY Divided
<1>3. r \in 0 .. m - 1 /\ s \in 0 .. m - 1
  BY Divided
<1> HIDE DEF r, s
<1>4. m * k + s = m * (q + p) + r
  <2>1. m * (q + p) = m * q + m * p
    BY Z3
  <2>2. m * k + s = m * q + (m * p + r)
    BY <1>1, <1>2, Zenon
  <2>3. \A b, c \in Int : b + (c + r) = (b + c) + r
    BY <1>3
  <2>4. m * q \in Int /\ m * p \in Int
    OBVIOUS
  <2>5. m * q + (m * p + r) = (m * q + m * p) + r
    BY <2>3, <2>4
  <2> QED
    BY <2>1, <2>2, <2>5, Zenon
<1>5. q + p \in Int
  OBVIOUS
<1>6. s = r
  BY <1>3, <1>4, <1>5, SameRemainder
<1> QED
  BY <1>6 DEF r, s

(* A duration is cast twice, to an int in the Connector and to an unsigned *)
(* int in ControlSystem: the second cast undoes what the first has done.   *)
LEMMA CastTwice ==
    ASSUME NEW value \in Int
    PROVE  AsUInt(AsInt(value)) = AsUInt(value)
<1> DEFINE m == 2 * IntHalf
           r == (value + IntHalf) % m
<1>1. m \in Int /\ m > 0 /\ value + IntHalf \in Int /\ IntHalf \in Int
  BY IntHalfType
<1> HIDE DEF m
<1>2. PICK q \in Int : value + IntHalf = m * q + r
  BY <1>1, Divided
<1>3. r \in 0 .. m - 1
  BY <1>1, Divided
<1> HIDE DEF r
<1>4. r - IntHalf \in Int /\ value = m * q + (r - IntHalf)
  BY <1>1, <1>2, <1>3
<1>5. (r - IntHalf) % m = value % m
  BY <1>1, <1>4, Shifted
<1> QED
  BY <1>5 DEF m, r, AsInt, AsUInt

(* What a response is made of: these texts, and ints. *)
Responses(texts) ==
    [mode : texts, color1 : texts, color2 : texts,
     duration1 : -IntHalf .. IntHalf - 1, duration2 : -IntHalf .. IntHalf - 1]

LEMMA ResponseAfterType ==
    ASSUME NEW texts, NEW response \in Responses(texts), NEW flags, NEW token,
           token.text \in texts, token.value \in Int
    PROVE  ResponseAfter(response, flags, token) \in Responses(texts)
<1>1. CASE token.type = "string"
  <2>1. UpdateString(response, flags, token.text) \in Responses(texts)
    BY DEF UpdateString, Responses
  <2> QED
    BY <1>1, <2>1 DEF ResponseAfter
<1>2. CASE token.type = "integer"
  <2> DEFINE int == AsInt(token.value)
  <2>1. int \in -IntHalf .. IntHalf - 1
    BY AsIntRange
  <2> HIDE DEF int
  <2>2. UpdateInteger(response, flags, token.value) =
            IF "direction_1" \in flags THEN [response EXCEPT !.duration1 = int]
            ELSE IF "direction_2" \in flags THEN [response EXCEPT !.duration2 = int]
            ELSE response
    BY DEF UpdateInteger, int
  <2>3. UpdateInteger(response, flags, token.value) \in Responses(texts)
    BY <2>1, <2>2 DEF Responses
  <2> QED
    BY <1>2, <2>3 DEF ResponseAfter
<1>3. CASE token.type \notin {"string", "integer"}
  BY <1>3 DEF ResponseAfter
<1> QED
  BY <1>1, <1>2, <1>3

(* A response that has been parsed holds texts of its document and ints.   *)
LEMMA ParseType ==
    ASSUME NEW document, Len(document) \in Nat,
           \A i \in 1 .. Len(document) : document[i].value \in Int
    PROVE  Parse(document) \in
               Responses({""} \cup {document[i].text : i \in 1 .. Len(document)})
<1> DEFINE texts == {""} \cup {document[i].text : i \in 1 .. Len(document)}
           S == {n \in 0 .. Len(document) :
                    Walk(document)[n].response \in Responses(texts)}
<1>1. 0 \in S
  <2>1. EmptyResponse \in Responses(texts)
    BY IntHalfType DEF EmptyResponse, Responses
  <2>2. Walk(document)[0].response = EmptyResponse
    BY WalkUnfolds DEF WalkStart
  <2> HIDE DEF texts
  <2> QED
    BY <2>1, <2>2
<1>2. ASSUME NEW n \in 0 .. Len(document) - 1, n \in S
      PROVE  n + 1 \in S
  <2> DEFINE before == Walk(document)[n]
             token  == document[n + 1]
  <2>1. n + 1 \in 1 .. Len(document) /\ (n + 1) - 1 = n
    OBVIOUS
  <2>2. Walk(document)[n + 1] = AfterToken(before, token)
    BY <2>1, WalkUnfolds
  <2>3. token.text \in texts /\ token.value \in Int
    BY <2>1
  <2>4. before.response \in Responses(texts)
    BY <1>2
  <2> HIDE DEF before, token, texts
  <2>5. ResponseAfter(before.response, before.flags, token) \in Responses(texts)
    BY <2>3, <2>4, ResponseAfterType
  <2>6. Walk(document)[n + 1].response \in Responses(texts)
    BY <2>2, <2>5 DEF AfterToken
  <2> QED
    BY <2>1, <2>6
<1>3. Len(document) \in S
  <2> HIDE DEF S
  <2> QED
    BY <1>1, <1>2, WalkingFacts!UpTo
<1> QED
  BY <1>3 DEF Parse
-----------------------------------------------------------------------------
(***************************************************************************)
(* Documents whose members all have a scalar for a value, and no two the   *)
(* same key: what the walk leaves in the response is, for every field,     *)
(* what the member of that name says.                                      *)
(***************************************************************************)
IsFlat(document, n) ==
    /\ Len(document) = 2 * n
    /\ \A j \in 1 .. n : document[2 * j - 1].type = "key" /\ document[2 * j].type # "key"
    /\ \A i, j \in 1 .. n :
           document[2 * i - 1].text = document[2 * j - 1].text => i = j

Says(document, j, name, type) ==
    document[2 * j - 1].text = name /\ document[2 * j].type = type

TextShown(response, name) ==
    IF name = "mode" THEN response.mode
    ELSE IF name = "direction_1" THEN response.color1 ELSE response.color2

NumberShown(response, name) ==
    IF name = "direction_1" THEN response.duration1 ELSE response.duration2

Directions == {"direction_1", "direction_2"}

(* The response holds what the first n members say. *)
Filled(document, n, response) ==
    /\ \A name \in Fields :
           /\ \A j \in 1 .. n : Says(document, j, name, "string") =>
                  TextShown(response, name) = document[2 * j].text
           /\ (\A j \in 1 .. n : ~Says(document, j, name, "string")) =>
                  TextShown(response, name) = ""
    /\ \A name \in Directions :
           /\ \A j \in 1 .. n : Says(document, j, name, "integer") =>
                  NumberShown(response, name) = AsInt(document[2 * j].value)
           /\ (\A j \in 1 .. n : ~Says(document, j, name, "integer")) =>
                  NumberShown(response, name) = 0

IsResponse(response) ==
    response = [mode |-> response.mode, color1 |-> response.color1,
                color2 |-> response.color2, duration1 |-> response.duration1,
                duration2 |-> response.duration2]

(* A key and its scalar write the field of that name, and no other. *)
Written(after, response, key, scalar) ==
    /\ \A name \in Fields :
           TextShown(after, name) = IF key.text = name /\ scalar.type = "string"
                                    THEN scalar.text ELSE TextShown(response, name)
    /\ \A name \in Directions :
           NumberShown(after, name) =
               IF key.text = name /\ scalar.type = "integer"
               THEN AsInt(scalar.value) ELSE NumberShown(response, name)

LEMMA MemberWalked ==
    ASSUME NEW flags, NEW response, IsResponse(response),
           NEW key, key.type = "key", NEW scalar, scalar.type # "key",
           NEW after,
           after = ResponseAfter(response, UpdateModesField(flags, key.text), scalar)
    PROVE  IsResponse(after) /\ Written(after, response, key, scalar)
<1> DEFINE set == UpdateModesField(flags, key.text)
<1>1. \A name \in Fields : name \in set <=> key.text = name
  BY DEF UpdateModesField
<1>2. "mode" \in Fields /\ "direction_1" \in Fields /\ "direction_2" \in Fields
  BY DEF Fields
<1> HIDE DEF set
<1>3. CASE scalar.type = "string"
  <2>1. after = UpdateString(response, set, scalar.text)
    BY <1>3 DEF ResponseAfter, set
  <2> QED
    BY <1>1, <1>2, <1>3, <2>1
    DEF UpdateString, IsResponse, TextShown, NumberShown, Fields, Directions, Written
<1>4. CASE scalar.type = "integer"
  <2> DEFINE int == AsInt(scalar.value)
  <2>1. after = UpdateInteger(response, set, scalar.value)
    BY <1>4 DEF ResponseAfter, set
  <2>2. after = IF "direction_1" \in set THEN [response EXCEPT !.duration1 = int]
                ELSE IF "direction_2" \in set THEN [response EXCEPT !.duration2 = int]
                ELSE response
    BY <2>1 DEF UpdateInteger
  <2> HIDE DEF int
  <2>3. /\ IsResponse(after)
        /\ \A name \in Fields : TextShown(after, name) = TextShown(response, name)
        /\ \A name \in Directions :
               NumberShown(after, name) =
                   IF key.text = name THEN int ELSE NumberShown(response, name)
    BY <1>1, <1>2, <2>2 DEF IsResponse, TextShown, NumberShown, Fields, Directions
  <2> QED
    BY <1>4, <2>3 DEF int, Written
<1>5. CASE scalar.type \notin {"string", "integer"}
  <2>1. after = response
    BY <1>5 DEF ResponseAfter
  <2> QED
    BY <1>5, <2>1 DEF Written
<1> QED
  BY <1>3, <1>4, <1>5

LEMMA FilledFurther ==
    ASSUME NEW document, NEW n \in Nat, NEW i \in 0 .. n - 1, IsFlat(document, n),
           NEW flags, NEW response, IsResponse(response), Filled(document, i, response),
           NEW after,
           after = ResponseAfter(response,
                                 UpdateModesField(flags, document[2 * (i + 1) - 1].text),
                                 document[2 * (i + 1)])
    PROVE  IsResponse(after) /\ Filled(document, i + 1, after)
<1> DEFINE key    == document[2 * (i + 1) - 1]
           scalar == document[2 * (i + 1)]
<1>1. i + 1 \in 1 .. n /\ \A j \in 1 .. i + 1 : j \in 1 .. i \/ j = i + 1
  OBVIOUS
<1>2. /\ key.type = "key" /\ scalar.type # "key"
      /\ after = ResponseAfter(response, UpdateModesField(flags, key.text), scalar)
  BY <1>1 DEF IsFlat
<1> HIDE DEF key, scalar
<1>3. IsResponse(after) /\ Written(after, response, key, scalar)
  BY <1>2, MemberWalked
<1>4. \A j \in 1 .. i : j \in 1 .. i + 1 /\ document[2 * j - 1].text # key.text
  <2> SUFFICES ASSUME NEW j \in 1 .. i
               PROVE  j \in 1 .. i + 1 /\ document[2 * j - 1].text # key.text
    OBVIOUS
  <2>1. j \in 1 .. n /\ j # i + 1
    OBVIOUS
  <2>2. \A k, l \in 1 .. n : document[2 * k - 1].text = document[2 * l - 1].text => k = l
    BY DEF IsFlat
  <2>3. document[2 * j - 1].text # document[2 * (i + 1) - 1].text
    BY <1>1, <2>1, <2>2, Zenon
  <2>4. j \in 1 .. i + 1
    OBVIOUS
  <2> QED
    BY <2>3, <2>4 DEF key
<1>5. \A name, type : Says(document, i + 1, name, type) <=>
                          key.text = name /\ scalar.type = type
  BY DEF Says, key, scalar
<1>6. \A j \in 1 .. i : \A name, type : Says(document, j, name, type) => key.text # name
  BY <1>4 DEF Says
<1>7. i + 1 \in 1 .. i + 1
  OBVIOUS
<1>8. ASSUME NEW name \in Fields
      PROVE  /\ \A j \in 1 .. i + 1 : Says(document, j, name, "string") =>
                    TextShown(after, name) = document[2 * j].text
             /\ (\A j \in 1 .. i + 1 : ~Says(document, j, name, "string")) =>
                    TextShown(after, name) = ""
  <2>1. /\ \A j \in 1 .. i : Says(document, j, name, "string") =>
               TextShown(response, name) = document[2 * j].text
        /\ (\A j \in 1 .. i : ~Says(document, j, name, "string")) =>
               TextShown(response, name) = ""
    BY DEF Filled
  <2>2. TextShown(after, name) = IF key.text = name /\ scalar.type = "string"
                                 THEN scalar.text ELSE TextShown(response, name)
    BY <1>3 DEF Written
  <2>3. \A j \in 1 .. i + 1 : Says(document, j, name, "string") =>
            TextShown(after, name) = document[2 * j].text
    <3> SUFFICES ASSUME NEW j \in 1 .. i + 1, Says(document, j, name, "string")
                 PROVE  TextShown(after, name) = document[2 * j].text
      OBVIOUS
    <3>1. CASE j \in 1 .. i
      BY <1>6, <2>1, <2>2, <3>1
    <3>2. CASE j = i + 1
      BY <1>5, <2>2, <3>2 DEF scalar
    <3> QED
      BY <1>1, <3>1, <3>2
  <2>4. (\A j \in 1 .. i + 1 : ~Says(document, j, name, "string")) =>
            TextShown(after, name) = ""
    BY <1>4, <1>5, <1>7, <2>1, <2>2
  <2> QED
    BY <2>3, <2>4
<1>9. ASSUME NEW name \in Directions
      PROVE  /\ \A j \in 1 .. i + 1 : Says(document, j, name, "integer") =>
                    NumberShown(after, name) = AsInt(document[2 * j].value)
             /\ (\A j \in 1 .. i + 1 : ~Says(document, j, name, "integer")) =>
                    NumberShown(after, name) = 0
  <2>1. /\ \A j \in 1 .. i : Says(document, j, name, "integer") =>
               NumberShown(response, name) = AsInt(document[2 * j].value)
        /\ (\A j \in 1 .. i : ~Says(document, j, name, "integer")) =>
               NumberShown(response, name) = 0
    BY DEF Filled
  <2>2. NumberShown(after, name) =
            IF key.text = name /\ scalar.type = "integer"
            THEN AsInt(scalar.value) ELSE NumberShown(response, name)
    BY <1>3 DEF Written
  <2>3. \A j \in 1 .. i + 1 : Says(document, j, name, "integer") =>
            NumberShown(after, name) = AsInt(document[2 * j].value)
    <3> SUFFICES ASSUME NEW j \in 1 .. i + 1, Says(document, j, name, "integer")
                 PROVE  NumberShown(after, name) = AsInt(document[2 * j].value)
      OBVIOUS
    <3>1. CASE j \in 1 .. i
      BY <1>6, <2>1, <2>2, <3>1
    <3>2. CASE j = i + 1
      BY <1>5, <2>2, <3>2 DEF scalar
    <3> QED
      BY <1>1, <3>1, <3>2
  <2>4. (\A j \in 1 .. i + 1 : ~Says(document, j, name, "integer")) =>
            NumberShown(after, name) = 0
    BY <1>4, <1>5, <1>7, <2>1, <2>2
  <2> QED
    BY <2>3, <2>4
<1> QED
  BY <1>3, <1>8, <1>9 DEF Filled

LEMMA FlatParse ==
    ASSUME NEW document, NEW n \in Nat, IsFlat(document, n)
    PROVE  Filled(document, n, Parse(document))
<1> DEFINE S == {i \in 0 .. n : /\ IsResponse(Walk(document)[2 * i].response)
                                /\ Filled(document, i, Walk(document)[2 * i].response)}
<1>1. Len(document) \in Nat /\ Len(document) = 2 * n
  BY DEF IsFlat
<1>2. 0 \in S
  <2>1. Walk(document)[2 * 0].response = EmptyResponse
    BY <1>1, WalkUnfolds DEF WalkStart
  <2>2. IsResponse(EmptyResponse) /\ Filled(document, 0, EmptyResponse)
    BY DEF EmptyResponse, IsResponse, Filled, TextShown, NumberShown
  <2> QED
    BY <2>1, <2>2
<1>3. ASSUME NEW i \in 0 .. n - 1, i \in S
      PROVE  i + 1 \in S
  <2> DEFINE before == Walk(document)[2 * i]
             key    == document[2 * (i + 1) - 1]
             scalar == document[2 * (i + 1)]
             after  == Walk(document)[2 * (i + 1)]
  <2>1. /\ i + 1 \in 0 .. n /\ i + 1 \in 1 .. n
        /\ 2 * (i + 1) - 1 \in 1 .. Len(document) /\ 2 * (i + 1) \in 1 .. Len(document)
        /\ (2 * (i + 1) - 1) - 1 = 2 * i
    BY <1>1
  <2>2. after = AfterToken(AfterToken(before, key), scalar)
    BY <1>1, <2>1, WalkUnfolds
  <2>3. key.type = "key"
    BY <2>1 DEF IsFlat
  <2>4. IsResponse(before.response) /\ Filled(document, i, before.response)
    BY <1>3
  <2> HIDE DEF before, key, scalar, after
  <2>5. after.response = ResponseAfter(before.response,
                                       UpdateModesField(before.flags, key.text), scalar)
    BY <2>2, <2>3 DEF AfterToken, FlagsAfter, ResponseAfter
  <2>6. IsResponse(after.response) /\ Filled(document, i + 1, after.response)
    BY <2>4, <2>5, FilledFurther DEF key, scalar
  <2> QED
    BY <2>1, <2>6 DEF after
<1>4. n \in S
  <2> HIDE DEF S
  <2> QED
    BY <1>2, <1>3, WalkingFacts!UpTo
<1> QED
  BY <1>1, <1>4 DEF Parse
=============================================================================
