\* Two threads whose watchers end up in one address: a thread asks for a watcher and gets none.
CONSTANTS
    main = main
    worker = worker
    Threads = {main, worker}
    MainThread = main
    Objects = {o1, o2, o3}
    Watchers = {w1, w2}
    Setups <- MCSetups
    MainName = MainName
    OtherNames = {}
    Empty = Empty
    MaxQueue = 1
    None = None
SPECIFICATION Spec
INVARIANTS
    CreateGivesWatcher
    RepositoryIsOwn
