CONSTANTS
    Users = {u}
    Shoppers = {s1}
    Orders = {o1}
    Requests = {r1}
    Products = {p}
    Prices <- CentsPrices
    Quantities = {1}
    Amounts <- CentsAmounts
    Limit = 5
    Trackings = {n1}
    Blank = Blank
    NULL = NULL
    Pipelines <- ExamplePipeline
    MaxAdded = 2
    MaxDeaths = 1
SPECIFICATION FairSpec
PROPERTY RejectsOverLimit
