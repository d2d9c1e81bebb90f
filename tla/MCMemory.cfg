SPECIFICATION MemorySpec
CONSTANTS
    Instance <- OneInstance
    MaxGen = 2
    MaxProcess <- Processes
    Samples = 2
    EngineFaults = 2
    Models = {"a", "b"}
    Envelope <- EnvelopeDef
    Handlers = {"h1", "h2"}
    MemTotal = 5
    Reserve = 1
    MaxAge = 1
    MinStart = 2
INVARIANTS
    KillsAreJournaledOnce
    OvercommitNeedsCancel
PROPERTIES
    
    ShedStaysDownUnlessRepromoted
