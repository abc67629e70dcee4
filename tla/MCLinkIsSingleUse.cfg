SPECIFICATION Spec
CONSTANTS
    Answer = {accepted, rejected}
    Text = {c1}
    NoText = NoText
    Operator = {o1}
    Visitor = {v1, v2}
    Link = {k1}
    Announcement = {}
    MaxFaults = 1
INVARIANT
    LinkIsSingleUse
