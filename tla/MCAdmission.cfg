CONSTANTS
    d1 = d1
    p1 = p1
    f1 = f1
    None = None
    Clients <- MCClients
    Serves <- MCServes
    WindowInit = 2
    WindowMin = 0
    WindowMax = 2
    AiStep = 1
    MdPercent = 50
    RisePercent = 150
    BaselineFloor = 1
    Samples <- MCSamples
SPECIFICATION LiveSpec
INVARIANTS
    IInv
PROPERTIES
    ImplementsGate
    BoundedReturns
    ScavengersServed
