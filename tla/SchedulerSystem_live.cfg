SPECIFICATION FairSpec
CONSTANTS
  VPods = {v1}
  MaxPods = 2
  MinVReplicas = 1
  MaxVReplicas = 2
  Capacity = 2
  MinReplicas = 0
  AutoscalerIsLeaderAware = TRUE
  Disturbances = {"leader", "expiry"}
  MaxDisturbed = 1
PROPERTY PlacedAndScaled
