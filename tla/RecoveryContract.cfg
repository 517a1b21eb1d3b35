SPECIFICATION PlacementSpec
CONSTANTS
    Providers = {p1}
    Cells = {c1, c2}
    NewCells = {}
    RegionOf <- MCRegionOf
    CellOperators = {o1, o2}
    MaxFailovers = 2
    MaxCellMigrations = 1
    MaxManual = 0
PROPERTY MoveIsFenced
CHECK_DEADLOCK FALSE
