------------------------------- MODULE Folding ------------------------------
(***************************************************************************)
(* A sequence taken in element by element, with everything that is known   *)
(* after each of them: Fold(seq)[n] is what the first n elements make of   *)
(* Start.  (The folds of the community modules have no theorems.)          *)
(***************************************************************************)
EXTENDS Integers, Sequences

CONSTANTS Start, Step(_, _)

Fold(seq) ==
    LET fold[n \in 0 .. Len(seq)] ==
            IF n = 0 THEN Start ELSE Step(fold[n - 1], seq[n])
    IN  fold
=============================================================================
