\* A client that may name colours at will, and a monitor that may keep the
\* half-evaluated state of a denied request.
CONSTANTS
    DenyRollsBack = FALSE
    Messages <- MCForgedMessages
    EventCodes = {1}
SPECIFICATION Spec
INVARIANTS
    PermittedLights
    NoConflict
