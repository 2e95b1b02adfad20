SPECIFICATION FairSpec
CONSTANTS
    Handlers = {h1, h2}
    Operations = {"use", "lock", "unlock", "hold", "arrived", "state"}
    Objects = {1, 2, 3}
    Edits = {e1}
    Local = local
    Remote = remote
    Timeouts = {0, 1}
    Null = null
    MaxTime = 1
    MaxEvents = 2
PROPERTIES
    SessionsEnd
CHECK_DEADLOCK FALSE
