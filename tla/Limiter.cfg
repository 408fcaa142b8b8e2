CONSTANTS
    v4 = v4
    mapped = mapped
    v6 = v6
    name = name
    host = host
    other = other
    anon = anon
    Keys <- MCKeys
    Addrs <- MCAddrs
    Form <- MCForm
    KeyOf <- MCKeyOf
    Window = 2
    MaxHits = 2
    MaxTime = 5
CHECK_DEADLOCK FALSE
SPECIFICATION Spec
PROPERTIES
    Implements
