SPECIFICATION Spec
CONSTANTS
  a = a
  mt = mt
  a1 = a1
  a2 = a2
  w1 = w1
  Undef = Undef
  None = None
  Trqs = {a, mt}
  InMain = {mt}
  Tasks = {a1, a2, w1}
  TrqOf <- MCTrqOf
  Updates <- MCUpdates
  End <- MCEnd
  Heeds = {a2}
  Stops = {a, mt}
INVARIANTS TypeOK NoDialogLeftBehind QuietShowsWork
PROPERTIES ProgressGoesForward DialogsDisappear
CHECK_DEADLOCK FALSE
