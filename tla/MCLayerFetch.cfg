CONSTANTS
    g1 = g1
    g2 = g2
    p1 = p1
    x1 = x1
    f1 = f1
    f2 = f2
    f3 = f3
    None = None
    ClassOf <- Classes
    Low = 1
    High = 2
    Callers <- FewCallers
    Flights <- FewFlights
    Extents <- OneExtent
SPECIFICATION LiveSpec
INVARIANTS
    OneFetchPerExtent
PROPERTIES
    GuestsReturn
