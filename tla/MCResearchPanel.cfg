SPECIFICATION PanelSpec
CONSTANTS
  Text = {}
  Blank = Blank
  Plan = {p1}
  Route = {"packet", "refresh"}
  MaxPending = 2
  MaxGeneration = 3
  MaxJobs = 6
  Form = {f1, f2}
  Unreadable = Unreadable
  MaxStores = 3
SYMMETRY Forms
INVARIANTS
  PanelTypeOK
  RunIsApproved
  CountedUnlessOvertaken
  AnswerIsOfItsRun
  BusyIsCancellable
