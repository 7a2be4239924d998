SPECIFICATION Spec
CONSTANTS
    Refs = {"r1", "r2"}
    Traces = {"t1", "t2"}
    Actors <- MCActors
    Outcomes = {"ok"}
    Unset = Unset
    MaxEvents = 1
    MaxTime = 1

CHECK_DEADLOCK FALSE
PROPERTY EventsStand
