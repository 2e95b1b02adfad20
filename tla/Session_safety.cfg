SPECIFICATION Spec
CONSTANTS
    Handlers = {h1, h2}
    Operations = {"use", "touch", "lock", "panic", "unlock", "settings", "destroy", "adopt"}
    Objects = {1, 2, 3}
    Edits = {e1}
    Local = local
    Remote = remote
    Timeouts = {1}
    Null = null
    MaxTime = 1
    MaxEvents = 3
INVARIANTS
    NoEditWithoutSession
PROPERTIES
    OldHandlersRespectLocks
SYMMETRY Symmetry
CHECK_DEADLOCK FALSE
