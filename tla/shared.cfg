CONSTANTS
  Dep = {"d1", "d2"}
  Conn = {"c1", "c2"}
  Req = {r1}
  Wf = {w1, w2}
  Site = {"d1", "d2"}
  Tenant = {"t1"}
  Zone = {"z1", "z2"}
  DepTenant <- OneDepTenant
  DepZone <- OneDepZone
  DepSite <- OwnSite
  ConnTenant <- OneConnTenant
  ConnZone <- OtherZone
  ConnLimit = 3
  Serial = FALSE
  MaxTok = 4
  MaxReq <- SharedBudget
SPECIFICATION Spec
SYMMETRY Slots
INVARIANTS RowConnectionInBoundary NoIdleCredential
