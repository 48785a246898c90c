SPECIFICATION RastersSpec
CONSTANTS
    Jobs <- MCJobs
    IdealThreads = 3
    FewCells = 4
    None = None
    Grids <- MCGrids
    Far = Far
    AreaGrids <- MCAreaGrids
    Values = {0, 1}
    Nothing = Nothing
INVARIANT PixelsInTheirCells
