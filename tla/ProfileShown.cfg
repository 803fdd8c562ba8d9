CONSTANTS
  u1 = u1
  u2 = u2
  i1 = i1
  i2 = i2
  d1 = d1
  t1 = t1
  Device = {d1}
  Uid = {u1, u2}
  ItemId = {i1, i2, i3}
  Text = {t1}
  NoId = NoId
  Missing = Missing
  Account <- OneAccount
  Patient = TRUE
  InitialUsers <- AnyUsers
  MaxAsked = 1
SPECIFICATION ProfileSpec
INVARIANTS
  ListedItemsExist
  EachItemListedOnce
  ProfileIsLatest
PROPERTIES
  ImplementsWishList
  SavedIsShown
