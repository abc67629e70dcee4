\* The tab ends when the user leaves the page: the model stops there.
CHECK_DEADLOCK FALSE
SPECIFICATION Spec
CONSTANTS
  Opened <- AllPages
  Filter = {f1, f2}
  First = f1
  Text = {"", "new"}
  MaxCalls = 2
  MaxFaults = 1
INVARIANTS
  TypeOK
  ScreenKeepsUp
  SavedStands
  TypingIsKept
  DutiesApart
