CONSTANTS
    TCP = {t1}
    WS = {w1}
SPECIFICATION FairSpec
INVARIANTS TableAndCount
PROPERTIES HandshakeBounded ClosedIsTold DestroyReturns
CHECK_DEADLOCK FALSE
