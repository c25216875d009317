CONSTANTS
    Users = {u1, u2}
    Shoppers = {s1, s2}
    Orders = {o1, o2}
    Requests = {}
    Products = {p}
    Prices <- OnePrice
    Quantities = {1}
    Amounts <- CentsAmounts
    Limit = 5
    Trackings = {n1}
    Blank = Blank
    NULL = NULL
    Pipelines <- GuardedPipelines
    MaxAdded = 2
    MaxDeaths = 0
SPECIFICATION Spec
INVARIANTS
    NoItemLost
    PaidItemsLeaveTheCart
    CompletedMeansPaid
