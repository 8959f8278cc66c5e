\* The parts of the pet besides MCPetWindow.cfg: safety and liveness.
SPECIFICATION FairSpec
CONSTANTS
  Timed = {"idle", "walk_left", "sit_down", "sit_idle", "return_idle", "wave", "drag_start", "drag_loop", "drag_end"}
  Offered = {"walk_left", "sit", "wave", "read", "drag_hold", "drag_release", "fall_recovery", "production_relax", "production_motion_fallback", "idle", "blink"}
  Sessions = {1, 2}
  MaxGeneration = 5
INVARIANTS
  Track0IsConsistent
  PlaceholderIsConsistent
  PacksAreOwned
PROPERTIES
  Track0StepsAreSafe
  PetComesToRest
CHECK_DEADLOCK FALSE
