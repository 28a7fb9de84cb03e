SPECIFICATION WebSaleSpec
CONSTANTS
    SaleOrders = {o2, o3}
    NoOrder = NoOrder
    Sales = {s3, s4}
    NoSale = NoSale
    Requests = {p1, p2}
    Acceptances = {k3, k4}
    Hasty = FALSE
INVARIANTS
    SignedIsShown
CHECK_DEADLOCK FALSE
