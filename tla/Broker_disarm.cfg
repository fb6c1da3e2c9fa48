SPECIFICATION Spec
CONSTANTS
    Clients = {a}
    NoClient = NoClient
    Layouts = {x}
    Counts = {0}
    Requests = {"arm"}
    Faults = {}
    MaxGeneration = 2
    MaxReceived = 0
INVARIANTS
    ArmedIsAttended
