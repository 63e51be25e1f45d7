\* Nineteen clusters of two pools, each edited while the pass, a pod, the broker or the
\* cloud misbehaves.
CONSTANTS
  NPools = 2
  Scenarios <- Lives
SPECIFICATION FairSpec
  
PROPERTIES FinalizeAfterRoll  
