CONSTANTS
  User = {u1}
  Tun = {t1, t2}
  Slot = {f1, f2}
  BatchStmts = 4
  Interval = 1
  Quota = 1
  Given = {0, 2}
  MaxUp = 1
  MaxDown = 1
  MaxFault = 0
  MaxAnswer = 1
  MaxLost = 1
  MaxCrash = 1
  MaxAdmin = 2
SPECIFICATION Spec
CHECK_DEADLOCK FALSE
SYMMETRY Symmetric
INVARIANTS TypeOK Accounted PendingIsScheduled 
