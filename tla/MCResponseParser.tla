-------------------------- MODULE MCResponseParser --------------------------
(***************************************************************************)
(* Instances of ResponseParser for TLC: every document of up to three      *)
(* tokens from a small vocabulary, and longer ones with two or three keys. *)
(***************************************************************************)
EXTENDS ResponseParser

Keys == {Key("mode"), Key("direction_1"), Key("direction_2"), Key("comment")}

Scalars == {Text("manual"), Text("red"), Number(1), Number(9), OtherScalar}

Tokens == Keys \cup Scalars

MCDocuments ==
    {<<>>} \cup { <<a>> : a \in Keys }
           \cup { <<a, b>> : a \in Keys, b \in Tokens }
           \cup { <<a, b, c>> : a \in Keys, b, c \in Tokens }
           \cup { <<a, b, c, d>> : a, c \in Keys, b, d \in Scalars }
           \cup { <<Key("mode"), a, Key("direction_1"), b, Key("direction_2"), c>> :
                      a, b, c \in Scalars }
=============================================================================
