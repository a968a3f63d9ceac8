SPECIFICATION FairSpec
CONSTANTS
    w1 = w1
    w2 = w2
    Worker <- MCWorker
    Undecodable <- MCUndecodable
    Unhandled <- MCUnhandled
    MaxEntry = 2
    Count = 2
    MaxAttempts = 2
    MaxFaults = 1
    MaxRestarts = 1
PROPERTIES WorkersRecover
