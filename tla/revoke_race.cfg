CONSTANTS
  Dep = {"d1"}
  Conn = {"c1"}
  Req = {r1}
  Wf = {w1, w2}
  Site = {"d1"}
  Tenant = {"t1"}
  Zone = {"z1"}
  DepTenant <- OneDepTenant
  DepZone <- OneDepZone
  DepSite <- OwnSite
  ConnTenant <- OneConnTenant
  ConnZone <- OneConnZone
  ConnLimit = 3
  Serial = FALSE
  MaxTok = 4
  MaxReq <- DeleteBudget
SPECIFICATION Spec
SYMMETRY Slots
INVARIANTS RevokedIsDisabled
