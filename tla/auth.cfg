CONSTANTS
  Pw = {p1, p2}
  NoPw = NoPw
  Subject = {u1}
  Ip = {i1}
  Sess = {s1, s2}
  Req = {r1, r2}
  MaxAttempts = 1
  MaxReq <- Budget
SPECIFICATION Spec
CHECK_DEADLOCK FALSE
SYMMETRY Slots
INVARIANTS OnlyOvertakenSurvive GuessesBounded
