CONSTANTS
    Network <- MCNetwork
    NoTask = NoTask
    NodeLists <- MCNodeLists
    EdgeLists <- MCEdgeLists
SPECIFICATION Spec
CHECK_DEADLOCK FALSE
INVARIANTS PredecessorsFirst RefusesOnlyUnorderable
PROPERTIES Ends
