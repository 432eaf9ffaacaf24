---------------------------- MODULE StockLedger -----------------------------
(***************************************************************************)
(* What the marketplace stock promises, with no snapshots, rows or         *)
(* requests: buyers hold claims on copies of a listing, a claim is given   *)
(* only when there are copies for it, it may be withdrawn until it is      *)
(* sold, and a sale is for ever.                                           *)
(***************************************************************************)
EXTENDS Naturals, FiniteSets

CONSTANTS
    Shelf,      \* [listing -> Nat]: the copies there are
    MaxUnits    \* largest number of copies a claim may be for

VARIABLE claims     \* set of [by, listing, units, sold]

UnitsTaken(l) ==
    {u \in {c \in claims : c.listing = l} \X (1..MaxUnits) : u[2] <= u[1].units}

HasRoom(c) == Cardinality(UnitsTaken(c.listing)) + c.units <= Shelf[c.listing]

Take(by, l, n) ==
    LET c == [by |-> by, listing |-> l, units |-> n, sold |-> FALSE] IN
    /\ \A d \in claims : d.by # by
    /\ HasRoom(c)
    /\ claims' = claims \cup {c}

Withdraw(cs) ==
    /\ \A c \in cs : ~c.sold
    /\ claims' = claims \ cs

Sell(cs) ==
    claims' = (claims \ cs) \cup {[c EXCEPT !.sold = TRUE] : c \in cs}

Init == claims = {}

Next ==
    \/ \E c \in claims' \ claims : Take(c.by, c.listing, c.units)
    \/ \E cs \in SUBSET claims : Withdraw(cs) \/ Sell(cs)

Spec == Init /\ [][Next]_claims
=============================================================================
