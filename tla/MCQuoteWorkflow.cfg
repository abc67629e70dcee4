SPECIFICATION Spec
CONSTANTS
    Answer = {accepted, rejected}
    Text = {c1, c2}
    NoText = NoText
    Operator = {o1, o2}
    Visitor = {v1}
    Link = {k1}
    Announcement = {event}
    MaxFaults = 1
SYMMETRY Symmetry
INVARIANTS
    TypeOK
    StatusesAgree
    SubmittedIsWhatCounts
    ToldOnlyOnceApproved
    ApprovalIsFollowedUp
PROPERTIES
    LinksAreBinding
    ImplementsLifecycle
