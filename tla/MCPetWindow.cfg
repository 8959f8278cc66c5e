CONSTANTS
    Timed = {"idle", "walk_left", "walk_right", "sit_idle", "sleep_loop", "wave", "happy"}
    Offered = {}
    Sessions = {}
    MaxGeneration = 4
    Requested = {"RELAX", "MOVE_LEFT", "SIT", "SPECIAL"}
    Sources = {"USER", "AGENT"}
    MaxEvents = 2
SPECIFICATION Spec
CHECK_DEADLOCK FALSE
INVARIANT PetIsConsistent
PROPERTY PlaybackEventsAreSafe
