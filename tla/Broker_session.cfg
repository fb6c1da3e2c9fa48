SPECIFICATION Spec
CONSTANTS
    Clients = {a, b}
    NoClient = NoClient
    Layouts = {x, y}
    Counts = {0, 1}
    Requests = {"setup", "start", "stop", "reboot"}
    Faults = {"storage"}
    MaxGeneration = 2
    MaxReceived = 1
SYMMETRY Symmetry
CONSTRAINT Focus
INVARIANTS
    RecordingFollowsSession
PROPERTIES
    SessionConfigStable
