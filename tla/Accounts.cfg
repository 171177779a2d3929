SPECIFICATION Spec
CONSTANTS
    a = a
    b = b
    Ids = {a, b}
    First = a
    Rules = {"quarantine", "trash"}
    Default = "quarantine"
    Backends = {"launchd", "systemd", "windows"}
    MaxFaults = 1
    MaxClicks = 5
INVARIANTS TypeOK SeenIsTrue WindowUnlocks
PROPERTY RunsAsAgreed
CHECK_DEADLOCK FALSE
