SPECIFICATION Spec
CONSTANTS
    Devices = {phone}
    Items = {ramen}
    Prices = {1, 2}
    Posts = {1, 2}
    MaxQuantity = 2
    MaxSessions = 2
    MaxCodes = 3
    MaxKeys = 2
    MaxOrders = 2
    MaxAnswers = 2
    MaxLoads = 2
    MaxLost = 1
CONSTRAINT Ordering
PROPERTY OtherTotalRefused
CHECK_DEADLOCK FALSE
