SPECIFICATION Spec
CONSTANTS
    Clients = {a}
    NoClient = NoClient
    Layouts = {x}
    Counts = {0}
    Requests = {"block", "commit", "arm", "reboot"}
    Faults = {"receive", "restart"}
    MaxGeneration = 2
    MaxReceived = 0
INVARIANTS
    TypeOK
PROPERTIES
    DroppedForCause
    Reconnects
