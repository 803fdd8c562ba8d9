CONSTANTS
  u1 = u1
  u2 = u2
  u3 = u3
  i1 = i1
  i2 = i2
  i3 = i3
  i4 = i4
  d1 = d1
  d2 = d2
  t1 = t1
  Device = {d1, d2}
  Viewer = {d1}
  Uid = {u1, u2, u3}
  ItemId = {i1, i2, i3, i4}
  Text = {t1}
  NoId = NoId
  Missing = Missing
  Account <- Accounts
  InitialUsers <- AnyUsers
  MaxAsked = 1
  Patient = TRUE
SPECIFICATION PageSpec
INVARIANTS
  FeedIsLatest
  PersonIsFollowed
  PersonIsShown
