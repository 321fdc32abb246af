SPECIFICATION FairSpec
CONSTANTS Pads <- MCPads  Tiles <- MCTiles  Values = {0, 1, 2}  Hysteresis = 0
INVARIANTS WiringOK LoopsCut Settled
PROPERTIES GroupsKept Rests
