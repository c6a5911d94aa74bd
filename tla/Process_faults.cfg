SPECIFICATION Spec
CONSTANTS
    Command = {c1, c2}
    Target = {a, b}
    Package = {x}
    Kinds <- MCKinds
    Stored <- MCStored
    None = None
    MaxTries = 1
    MaxFaults = 1
    Notifier <- MCNotifier
    MaxWork = 3
    c1 = c1
    c2 = c2
    a = a
    b = b
    x = x
CHECK_DEADLOCK FALSE
INVARIANTS
    OneInside
    CallsInOrder
    NothingLost
PROPERTIES
    EveryoneEnds
