\* One or two listeners; the drain pushes for one caller.
SPECIFICATION Spec
CONSTANTS
    Listeners = {l1, l2}
    Ids = {i1, i2}
    NoSession = nil
    Callers = {c1}
    OutCap = 1
    MsgCap = 1
INVARIANTS
    TypeOK
    PusherOpen
    SoleListenerPushes
PROPERTIES
    Answered
    ListenersEnd
