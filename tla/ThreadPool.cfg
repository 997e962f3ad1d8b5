SPECIFICATION PoolSpec
CONSTANTS
    Main = main
    Producers = {main}
    Consumers = {w1, w2, w3, w4}
    Items = {evloop, precv, psend}
    Order <- Tasks
    Nothing = Nothing
    evloop = evloop
    precv = precv
    psend = psend
INVARIANTS TypeOK SomebodyLooks
PROPERTIES IsBlockingQueue TasksRun
