\* An int of four bits: the number 9 does not fit and wraps to -7.
CONSTANTS
    IntHalf = 8
    Texts = {"", "mode", "direction_1", "direction_2", "comment", "manual", "red"}
    Documents <- MCDocuments
SPECIFICATION Spec
INVARIANTS
    TypeOK
    HoldsLastValues
