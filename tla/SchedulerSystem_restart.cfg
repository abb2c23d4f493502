SPECIFICATION Spec
CONSTANTS
  VPods = {v1, v2}
  MaxPods = 2
  MinVReplicas = 1
  MaxVReplicas = 1
  Capacity = 1
  MinReplicas = 0
  AutoscalerIsLeaderAware = TRUE
  Disturbances = {"restart"}
  MaxDisturbed = 1
INVARIANT CommittedFits
