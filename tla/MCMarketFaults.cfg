SPECIFICATION Spec
CONSTANTS
    l1 = l1
    l2 = l2
    o1 = o1
    o2 = o2
    o3 = o3
    NoListing = NoListing
    NoSnapshot = NoSnapshot
    NoOrder = NoOrder
    NoItem = NoItem
    Listings = {l1}
    Orders = {o1, o3}
    Items = {1, 2, 6, 7}
    Rows = {1, 2, 3, 4}
    Requests = {r1}
    HoldSizes = {1, 2}
    MaxHolds = 1
    NamedItems = {1}
    MaxQuantity = 2
    Faults = {"crash", "release", "restock"}
    ExternalId <- MCExternalId
    OrderOf <- MCOrderOf
    ListingOf <- MCListingOf
    Quantity <- MCQuantity
    InitialStock <- MCStock
CHECK_DEADLOCK FALSE
INVARIANTS
    TypeOK
    ReservedOnce
    ItemsFollowOrder
    AnswerSettlesOrder
PROPERTIES
    Orderly
