CONSTANTS
  User = {u1, u2}
  Tun = {t1, t2, t3}
  Slot = {f1, f2}
  BatchStmts = 2
  Interval = 1
  Quota = 1
  Given = {0, 2}
  MaxUp = 0
  MaxDown = 1
  MaxFault = 1
  MaxAnswer = 0
  MaxLost = 0
  MaxCrash = 0
  MaxAdmin = 0
SPECIFICATION Spec
CHECK_DEADLOCK FALSE
SYMMETRY Symmetric
INVARIANTS NeverOvercharged
