CONSTANTS
  u1 = u1
  u2 = u2
  u3 = u3
  i1 = i1
  d1 = d1
  t1 = t1
  t2 = t2
  t3 = t3
  Device = {d1}
  Uid = {u1, u2, u3}
  ItemId = {i1}
  Text = {t1, t2, t3}
  NoId = NoId
  Missing = Missing
  Account <- OneAccount
  WaitsFor = {"info", "me"}
  InOrder = TRUE
  InitialUsers <- SomeUsers
  MaxUnsent = 3
  MaxAsked = 5
  Searches <- SomeSearches
  NewRecord <- New
SPECIFICATION SearchSpec
INVARIANTS
  RowsMatchSearch
  FriendsAreNamedOnce
  TitleIsRight
PROPERTIES
  FollowedIsStored
