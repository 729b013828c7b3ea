CONSTANTS
  Dep = {"d1"}
  Conn = {"c1", "c2"}
  Req = {r1}
  Wf = {w1}
  Site = {"d1"}
  Tenant = {"t1"}
  Zone = {"z1"}
  DepTenant <- OneDepTenant
  DepZone <- OneDepZone
  DepSite <- OwnSite
  ConnTenant <- OneConnTenant
  ConnZone <- OneConnZone
  ConnLimit = 3
  Serial = TRUE
  MaxTok = 4
  MaxReq <- SerialBudget
SPECIFICATION Spec
INVARIANTS RevokedIsDisabled ReadyIsPublished
