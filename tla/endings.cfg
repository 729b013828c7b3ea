CONSTANTS
  Kinds = {"direct", "proxied", "udp"}
  FrameKinds = {"buffer", "blob"}
  MaxFrame = 4
  MaxDown = 2
  MaxRange = 2
  Waves = 2
  Chunk = 1
  Handler = {h1}
  Ticks = {t1, t2}
  MaxFault = 1
SPECIFICATION EndingsSpec
CHECK_DEADLOCK FALSE
INVARIANTS ReportedOnce StreamOrder NoSocketLeft RoundIsExact ResumedRoundCovers
PROPERTIES ClosedFinishes ScanEndsUnlessCut
