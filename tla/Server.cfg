CONSTANTS
    Conns = {c1, c2}
    Addrs = {a1, a2}
    Secrets = {s1, s2}
    MaxDomains = 2
    MaxReloads = 2
    None = None
CHECK_DEADLOCK FALSE
SPECIFICATION Spec
INVARIANTS
    SettingsInForce
    RegistryIsExact
PROPERTIES
    ShutdownEndsAll
