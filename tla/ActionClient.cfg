SPECIFICATION Spec
CONSTANTS
    Goals = {g1, g2}
    Cancelling = {g1}
    Depth = 1
    MaxLists = 2
CHECK_DEADLOCK FALSE
INVARIANTS RepliesPaired BoardTracksGoals
PROPERTIES ResultStopsWaiting
