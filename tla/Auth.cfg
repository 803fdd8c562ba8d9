CONSTANTS
  u1 = u1
  u2 = u2
  i1 = i1
  i2 = i2
  d1 = d1
  t1 = t1
  t2 = t2
  Blank = Blank
  Device = {d1}
  Uid = {u1, u2}
  ItemId = {i1, i2}
  Text = {Blank, t1, t2}
  NoId = NoId
  Missing = Missing
  Habits <- Users
SPECIFICATION Spec
INVARIANTS
  RecordsFillInOrder
  RecordsMatchForms
  HomeStaysMine
