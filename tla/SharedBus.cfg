SPECIFICATION FairSpec
CONSTANTS
    t1 = t1
    t2 = t2
    t3 = t3
    k1 = k1
    s1 = s1
    Subs = {s1}
    Tx = Tx
    Threads = {t1, t2, t3}
    Tasks = {k1}
    Channel <- MCChannel
    Ways <- MCWays
    TxCapacity = 1
    Pump = Pump
    Apps = {app}
    NoOne = NoOne
    MaxFrames = 2
INVARIANTS
    NoThreadForgotten
    LossesCounted
PROPERTIES
    WaitersServed
