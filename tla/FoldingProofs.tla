---------------------------- MODULE FoldingProofs ---------------------------
(***************************************************************************)
(* Fold unfolds, for sequences of any length: there is a function with the *)
(* recursive property that defines it, and so Fold has this property.      *)
(* The induction is over a set, so that every step of it is first-order;   *)
(* Start and Step are constants of the module, so that every instance of   *)
(* Folding has these facts.                                                *)
(***************************************************************************)
EXTENDS Folding, FiniteSetTheorems, TLAPS

(* Induction over 0 .. n, for a set instead of a predicate: if n were not  *)
(* in S, adding one would map the part of S below n into itself without 0, *)
(* and two numbers would have the same successor.                          *)
LEMMA UpTo ==
    ASSUME NEW n \in Nat, NEW S, 0 \in S,
           \A i \in 0 .. n - 1 : i \in S => i + 1 \in S
    PROVE  n \in S
<1> SUFFICES ASSUME n \notin S
             PROVE  FALSE
  OBVIOUS
<1> DEFINE Below == S \cap 0 .. n
           next  == [i \in Below |-> i + 1]
<1>1. IsFiniteSet(0 .. n)
  BY FS_Interval
<1>2. IsFiniteSet(Below)
  BY <1>1, FS_Subset
<1>3. 0 \in Below
  OBVIOUS
<1>4. /\ IsFiniteSet(Below \ {0})
      /\ Cardinality(Below \ {0}) < Cardinality(Below)
  <2>1. Cardinality(Below) \in Nat
    BY <1>2, FS_CardinalityType
  <2> HIDE DEF Below
  <2>2. /\ IsFiniteSet(Below \ {0})
        /\ Cardinality(Below \ {0}) =
              IF 0 \in Below THEN Cardinality(Below) - 1 ELSE Cardinality(Below)
    BY <1>2, FS_RemoveElement, Zenon
  <2>3. Cardinality(Below \ {0}) = Cardinality(Below) - 1
    BY <1>3, <2>2
  <2> QED
    BY <2>1, <2>2, <2>3
<1>5. next \in [Below -> Below \ {0}]
  OBVIOUS
<1>6. \E i, j \in Below : i # j /\ next[i] = next[j]
  <2> HIDE DEF Below, next
  <2> QED
    BY <1>2, <1>4, <1>5, FS_PigeonHole
<1> QED
  BY <1>6
-----------------------------------------------------------------------------
(* One entry of a fold, and a fold of the first n elements. *)
Entry(fold, seq, i) == IF i = 0 THEN Start ELSE Step(fold[i - 1], seq[i])

IsFold(fold, seq, n) == fold = [i \in 0 .. n |-> Entry(fold, seq, i)]

(* A fold of n elements goes on with the next one. *)
LEMMA LongerFold ==
    ASSUME NEW seq, NEW n \in Nat, NEW fold, IsFold(fold, seq, n)
    PROVE  \E longer : IsFold(longer, seq, n + 1)
<1> DEFINE last   == Step(fold[n], seq[n + 1])
           longer == [i \in 0 .. n + 1 |-> IF i = n + 1 THEN last ELSE fold[i]]
<1> HIDE DEF last
<1>1. longer[n + 1] = last
  OBVIOUS
<1>2. \A i \in 0 .. n : longer[i] = fold[i]
  OBVIOUS
<1>3. \A i \in 0 .. n : fold[i] = Entry(fold, seq, i)
  BY DEF IsFold
<1>4. \A i \in 0 .. n + 1 : i \in 0 .. n \/ i = n + 1
  OBVIOUS
<1>5. ASSUME NEW i \in 0 .. n + 1
      PROVE  longer[i] = Entry(longer, seq, i)
  <2>1. CASE i = 0
    BY <2>1, <1>2, <1>3 DEF Entry
  <2>2. CASE i = n + 1
    BY <2>2, <1>1, <1>2 DEF Entry, last
  <2>3. CASE i # 0 /\ i \in 0 .. n
    <3>1. longer[i] = Entry(fold, seq, i)
      BY <2>3, <1>2, <1>3
    <3>2. longer[i - 1] = fold[i - 1]
      BY <2>3, <1>2
    <3> HIDE DEF longer
    <3> QED
      BY <3>1, <3>2, <2>3 DEF Entry
  <2> QED
    BY <1>4, <2>1, <2>2, <2>3
<1>6. longer = [i \in 0 .. n + 1 |-> longer[i]]
  OBVIOUS
<1>7. longer = [i \in 0 .. n + 1 |-> Entry(longer, seq, i)]
  BY <1>5, <1>6, Zenon
<1> QED
  BY <1>7 DEF IsFold

LEMMA FoldExists ==
    ASSUME NEW seq, NEW n \in Nat
    PROVE  \E fold : IsFold(fold, seq, n)
<1> DEFINE S == {i \in 0 .. n : \E fold : IsFold(fold, seq, i)}
<1>1. 0 \in S
  <2> DEFINE fold == [i \in 0 .. 0 |-> Start]
  <2>1. IsFold(fold, seq, 0)
    BY DEF IsFold, Entry
  <2> QED
    BY <2>1
<1>2. ASSUME NEW i \in 0 .. n - 1, i \in S
      PROVE  i + 1 \in S
  BY <1>2, LongerFold
<1>3. n \in S
  <2> HIDE DEF S
  <2> QED
    BY <1>1, <1>2, UpTo
<1> QED
  BY <1>3

(* Fold(seq) is the function its definition describes. *)
THEOREM FoldUnfolds ==
    ASSUME NEW seq, Len(seq) \in Nat
    PROVE  /\ Fold(seq)[0] = Start
           /\ \A i \in 1 .. Len(seq) : Fold(seq)[i] = Step(Fold(seq)[i - 1], seq[i])
<1>1. Fold(seq) = CHOOSE fold : IsFold(fold, seq, Len(seq))
  BY DEF Fold, IsFold, Entry
<1>2. IsFold(Fold(seq), seq, Len(seq))
  BY <1>1, FoldExists
<1>3. \A i \in 0 .. Len(seq) : Fold(seq)[i] = Entry(Fold(seq), seq, i)
  BY <1>2 DEF IsFold
<1> QED
  BY <1>3 DEF Entry
=============================================================================
