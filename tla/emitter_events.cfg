CONSTANTS
    Name = {"x", "on", "off"}
    Fired = {"x"}
    Callback = {"f", "g"}
    Bound = {"f"}
    Every = Every
    MaxOps = 5
SPECIFICATION FairSpec
INVARIANTS
    ActiveIsRunning
    
PROPERTIES
    Settles
