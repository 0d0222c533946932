SPECIFICATION FairSpec
CONSTANTS
    d1 = d1
    d2 = d2
    r1 = r1
    r2 = r2
    r3 = r3
    NoReg = NoReg
    Delivery = {d1, d2}
    Reg = {r1, r2, r3}
    Unwanted = {r3}
    MaxRetries = 2
CHECK_DEADLOCK FALSE
PROPERTIES KeptUntilDelivered EveryDeliveryEnds
