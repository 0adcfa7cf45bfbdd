SPECIFICATION Spec
CONSTANTS
    Clients = {c1, c2}
    MaxAttempts = 2
PROPERTIES SignalStopsBackoff
CHECK_DEADLOCK FALSE
