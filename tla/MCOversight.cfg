SPECIFICATION Spec
CONSTANTS
  i1 = i1
  i2 = i2
  i3 = i3
  Items = {i1, i2, i3}
  Types = {"crm", "unmanaged"}
  TypeOf <- MCTypeOf
  Policy <- MCPolicy
  Users = {"approver", "guest"}
  Approvers = {"approver"}
  Viewers = {"viewer"}
  MaxVerdicts = 3
  MaxResets = 1
  MaxConnects = 1
INVARIANTS
  TypeOK
  TripFollowsTheWindow
  ReviewsAreOfAgentCommits
  FeedTellsWhatIsNew
SYMMETRY Symmetry
CHECK_DEADLOCK FALSE
