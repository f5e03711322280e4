SPECIFICATION FairSpec
CONSTANTS
    t1 = t1
    t2 = t2
    t3 = t3
    k1 = k1
    k2 = k2
    l1 = l1
    l2 = l2
    l3 = l3
    Thread <- MCThread
    Key <- MCKey
    Lane <- MCLane
    NoLane = NoLane
    NoThread = NoThread
PROPERTIES ImplementsSessionMutex WaiterEnters
