SPECIFICATION Spec
CONSTANTS
    l1 = l1
    l2 = l2
    o1 = o1
    o2 = o2
    o3 = o3
    NoListing = NoListing
    NoSnapshot = NoSnapshot
    NoOrder = NoOrder
    NoItem = NoItem
    Listings = {l1, l2}
    Orders = {o1, o2, o3}
    Items = {1, 2, 3, 4, 5, 6}
    Rows = {1, 2, 3, 4, 5, 6}
    Requests = {r1}
    HoldSizes = {1, 2}
    MaxHolds = 2
    NamedItems = {}
    MaxQuantity = 2
    Faults = {}
    ExternalId <- MCExternalId
    OrderOf <- MCOrderOf
    ListingOf <- MCListingOf
    Quantity <- MCQuantity
    InitialStock <- MCStock
CHECK_DEADLOCK FALSE
INVARIANTS
    NeverOversold
    SnapshotTrue
    OpenOrderBacked
PROPERTIES
    ImplementsStock
