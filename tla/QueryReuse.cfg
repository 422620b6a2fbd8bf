CONSTANTS
    r1 = r1
    r2 = r2
    n1 = n1
    n2 = n2
    Ops = {o1}
    Reqs = {r1, r2}
    Replicas = {n1, n2}
    Redis = redis
    MaxInflight = 1
    MaxRevision = 1
SPECIFICATION FairSpec
CONSTRAINT FirstByName
INVARIANT SingleFlight
PROPERTIES FreshDelivery JobsDrain
CHECK_DEADLOCK FALSE
