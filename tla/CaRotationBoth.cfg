SPECIFICATION FairSpec
CONSTANTS
  u1 = u1
  u2 = u2
  NPools = 1
  Cas = {"Cluster", "Clients"}
  User = {u1, u2}
  Budgets <- BothEvents
INVARIANTS TypeOK PromotionReplays 
PROPERTIES TrustedPromotion  ByoUntouched RotationCompletes
