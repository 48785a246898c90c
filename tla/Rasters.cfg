SPECIFICATION RastersSpec
CONSTANTS
    Jobs <- MCJobs
    IdealThreads = 3
    FewCells = 4
    None = None
    Grids <- MCGrids
    Far = Far
    AreaGrids <- MCAreaGrids
    Values = {0, 1}
    Nothing = Nothing
INVARIANTS
    CellOfThePixel
    ThrowsWhenThin
    TasksCoverTheRaster
    WindowsAreRight
    GroupsAreWhole
    DistancesAreRight
    AreasAreNumbered
PROPERTIES
    IsBoxWalk
