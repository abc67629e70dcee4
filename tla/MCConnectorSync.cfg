SPECIFICATION Spec
CONSTANTS
    Gmail = {g1}
    Outlook = {o1}
    Chat = {}
    Configured = {"gmail", "outlook"}
    Box <- OneOfEach
    Pushed = {}
    Kind <- AllText
    App = "slack"
    Run = {r1, r2}
    MaxResults = 2
    MaxRetries = 2
    Threshold = 1
    MaxEvents = 1
CHECK_DEADLOCK FALSE
SYMMETRY Symmetry
INVARIANTS
    TypeOK
    OneRfqPerConversation
    ReadMeansStored
PROPERTIES
    ImplementsLog
