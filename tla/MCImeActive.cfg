SPECIFICATION Spec
CONSTANTS
    PyMax = 4
    MaxSpl = 3
    Counts = {1, 3}
    PageSizes = {}
    FetchMax = 3
    TableSize = 2
INVARIANT
    ActiveInTable
