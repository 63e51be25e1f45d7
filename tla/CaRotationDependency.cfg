SPECIFICATION Spec
CONSTANTS
  u1 = u1
  u2 = u2
  NPools = 2
  Cas = {"Cluster"}
  User = {}
  Budgets <- DependencyEvents
PROPERTIES PromoteAfterTrust
