SPECIFICATION Spec
CONSTANTS
  s1 = s1
  s2 = s2
  c1 = c1
  c2 = c2
  Stages <- BothStages
  Files = {f1, f2}
  Tracked = {f2}
  Artifact = f1
  Calls <- BothCalls
  a1 = a1
  Approvals <- OneDecision
  NoFile = NoFile
  Head = Head
  Torn = Torn
  MaxClaims = 2
  MaxReplans = 2
  MaxCrashes = 1
  Limits <- AllLimits
INVARIANTS
  TypeOK
  PromotedOnce
  PromotedHasArtifact
  PromotionIsWhole
  SupersededNotPromoted
  RunningHeldUntilReplan
  ApprovalsInvalidated
PROPERTIES
  RejectedIsFinal
CHECK_DEADLOCK FALSE
