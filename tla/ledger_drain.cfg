CONSTANTS
  User = {u1, u2}
  Tun = {t1, t2}
  Slot = {f1, f2}
  BatchStmts = 4
  Interval = 2
  Quota = 1
  Given = {0, 2}
  MaxUp = 1
  MaxDown = 1
  MaxFault = 1
  MaxAnswer = 1
  MaxLost = 0
  MaxCrash = 0
  MaxAdmin = 0
SPECIFICATION FairSpec
CHECK_DEADLOCK FALSE
INVARIANTS Accounted
PROPERTIES Drains
