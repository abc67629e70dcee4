SPECIFICATION FairSpec
CONSTANTS
    Endpoint = {e1}
    Request = {r1}
    Subscription <- AnyEvent
    Worker = {w1}
    MaxFaults = 0
CHECK_DEADLOCK FALSE
PROPERTIES
    EventsAreTried
