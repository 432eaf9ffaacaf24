--------------------------- MODULE MCMarketplace ---------------------------
(* Small instances of the marketplace stock for TLC. *)
EXTENDS MarketplaceInventory

CONSTANTS l1, l2, o1, o2, o3

\* o1 is for two copies of l1, as two items; o2 for one of each listing, with an
\* item of no listing; o3 is the external order of o1 once more.
MCOrderOf == [i \in Items |-> CASE i \in {1, 2} -> o1 [] i \in {3, 4, 5} -> o2 [] OTHER -> o3]
MCListingOf == [i \in Items |-> CASE i \in {1, 2, 3, 6} -> l1 [] i = 4 -> l2 [] OTHER -> NoListing]
MCQuantity == [i \in Items |-> 1]
MCExternalId == [o \in Orders |-> IF o = o3 THEN o1 ELSE o]
MCStock == [l \in Listings |-> IF l = l1 THEN 2 ELSE 1]
=============================================================================
