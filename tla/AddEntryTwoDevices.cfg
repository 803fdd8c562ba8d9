CONSTANTS
  u1 = u1
  u2 = u2
  i1 = i1
  i2 = i2
  d1 = d1
  d2 = d2
  t1 = t1
  Device = {d1, d2}
  Uid = {u1, u2}
  ItemId = {i1, i2, i3, i4}
  Text = {t1}
  NoId = NoId
  Missing = Missing
  Account <- OneAccount
  Patient = TRUE
  InitialUsers <- BothSignedUp
SPECIFICATION Spec
PROPERTY WishlistGrows
