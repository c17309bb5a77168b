SPECIFICATION FairSpec
CONSTANTS
    w1 = w1
    w2 = w2
    e1 = e1
    e2 = e2
    Workers = {w1}
    Main = Main
    Dumper = Dumper
    NoThread = NoThread
    Entries = {e1}
    Null = Null
    SignalTo <- AllThreads
PROPERTY SignalEndsProcess
