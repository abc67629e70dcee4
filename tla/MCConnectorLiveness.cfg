SPECIFICATION FairSpec
CONSTANTS
    Gmail = {g1, g2}
    Outlook = {}
    Chat = {c1}
    Configured = {"gmail"}
    Box <- TwoMailboxes
    Pushed = {21}
    Kind <- OneUnsigned
    App = "whatsapp"
    Run = {r1}
    MaxResults = 2
    MaxRetries = 1
    Threshold = 2
    MaxEvents = 3
CHECK_DEADLOCK FALSE
PROPERTIES
    MailGetsStored
