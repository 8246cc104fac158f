\* Two threads, both use watchers; addresses are reused.
CONSTANTS
    main = main
    worker = worker
    Threads = {main, worker}
    MainThread = main
    Objects = {o1, o2, o3}
    Watchers = {w1, w2}
    Setups <- MCSetups
    MainName = MainName
    OtherNames = {}
    Empty = Empty
    MaxQueue = 1
    None = None
SYMMETRY Addresses
SPECIFICATION Spec
INVARIANTS
    ListIsLive
    OneConfig
    OneWatcher
