SPECIFICATION Spec
CONSTANTS
  VPods = {v1, v2}
  MaxPods = 2
  MinVReplicas = 1
  MaxVReplicas = 2
  Capacity = 2
  MinReplicas = 0
  AutoscalerIsLeaderAware = TRUE
  Disturbances = {"vpods", "evict", "failure", "restart", "leader"}
  MaxDisturbed = 1
INVARIANTS
  ReservedFits
  EntryIsSincePromotion
PROPERTIES
  OnlyScaleDownIfPermitted
  PlacesInOrder
SYMMETRY Symmetry
