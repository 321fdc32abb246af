SPECIFICATION Spec
CONSTANTS Pads <- MCPads  Tiles <- SelTiles  Values = {0, 1, 2}  Hysteresis = 0
INVARIANT RingsReported
