CONSTANTS
    t1 = t1 t2 = t2 p1 = p1 j1 = j1
    Threads = {t1, t2}
    Producers = {p1}
    Main = Main
    Jobs = {j1}
    Callbacks = {1, 2}
    ProcessQueue = ProcessQueue
    Delays = {1}
    MaxTime = 1
    Nothing = Nothing
SPECIFICATION FairSpec
CHECK_DEADLOCK FALSE
PROPERTIES ImplementsSerialQueue CallbacksRun DueTasksRun StopEnds
