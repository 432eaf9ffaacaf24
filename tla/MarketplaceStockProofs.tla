----------------------- MODULE MarketplaceStockProofs -----------------------
(***************************************************************************)
(* Undisturbed, the marketplace sells no more than there is: what is       *)
(* reserved and sold of a listing never exceeds its quantity, an allocated *)
(* item of an open order has its reservation, and between requests the     *)
(* newest snapshot of a listing is what is available.  And it keeps the    *)
(* promises of StockLedger: every step takes, withdraws or sells claims    *)
(* there, or changes none.                                                 *)
(***************************************************************************)
EXTENDS MarketplaceSerialProofs

(***************************************************************************)
(* NeverOversold is not inductive.  A reservation is checked against the   *)
(* newest snapshot, which is what is available only when no recalculation  *)
(* is due (SnapshotsDue); the whole order is checked once, so the loop     *)
(* must leave room for the items it has still to reach (Working); and a    *)
(* fulfilment sells the items of an order whether they are reserved or     *)
(* not, so every item of an open order must be (Covered).                  *)
(***************************************************************************)
Avail == [l \in Listings |-> Available(l)]

Reserved(i, rows) == \E x \in Rows : rows[x].for = i /\ rows[x].status = "ACTIVE"

\* The items the loop of a new order has still to reserve.
Left(q) == IF q.step \in Recalculating THEN q.todo \ {q.draft.for} ELSE q.todo

InLoop(q) == q.task = "order" /\ q.step # "create"

Working(q, avail, items, rows) ==
    /\ InLoop(q) =>
        /\ \A l \in Listings : Cardinality(WantedUnits(Left(q), l)) <= avail[l]
        /\ \A i \in q.todo : items[i] = "PENDING"
        /\ \A i \in q.staged : ListingOf[i] # NoListing /\ i \notin q.todo
        /\ q.step \in Recalculating => Reserved(q.draft.for, rows)
    /\ q.task = "order" /\ q.step = "reserve" =>
        q.draft = Draft(q.draft.for, ListingOf[q.draft.for], Quantity[q.draft.for])
    /\ q.task = "order" /\ q.step \in Recalculating => ListingOf[q.draft.for] # NoListing
    /\ q.step = "reserve" =>
        q.draft.status = "ACTIVE" /\ q.draft.size \in 1..avail[q.draft.listing]
    /\ q.step = "write" => q.at \in q.stale /\ q.figure = avail[q.at]
    /\ q.step \notin Recalculating => q.stale = {}
    /\ q.step \in {"status", "sell"} => q.todo = {}
    /\ q.task = "order" /\ q.step = "done" => q.todo = {}

AllWorking == \A r \in Requests : Working(request[r], Avail, item, row)

RowShape ==
    \A x \in Rows : row[x].for \in Items =>
        /\ row[x].listing = ListingOf[row[x].for] /\ row[x].size = Quantity[row[x].for]
        /\ row[x].source = row[x].for

Covered ==
    \A i \in Items :
        ListingOf[i] # NoListing /\ order[OrderOf[i]] \in {"PENDING", "PAID", "FULFILLED"} =>
            \/ item[i] = "SOLD"
            \/ Reserved(i, row)
            \/ \E r \in Requests : InLoop(request[r]) /\ i \in Left(request[r])

AllocatedListed == \A i \in Items : item[i] = "ALLOCATED" => ListingOf[i] # NoListing

\* A recalculation of l is due.
Due(q, l, rows) ==
    \/ l \in q.stale
    \/ q.task = "fulfil" /\ \E i \in q.todo : ListingOf[i] = l /\ Reserved(i, rows)

SnapshotsDue ==
    \A l \in Listings :
        \/ snapshot[l] \in {NoSnapshot, Available(l)}
        \/ \E r \in Requests : Due(request[r], l, row)

StockInv ==
    AllWorking /\ RowShape /\ Covered /\ AllocatedListed /\ SnapshotsDue /\ NeverOversold

-----------------------------------------------------------------------------
(* Counting units                                                           *)

\* Sizes of parts and of disjoint unions.
LEMMA Sizes ==
    ASSUME NEW S, IsFiniteSet(S), NEW T, IsFiniteSet(T)
    PROVE  /\ Cardinality(S) \in Nat /\ Cardinality(T) \in Nat
           /\ S \subseteq T => Cardinality(S) <= Cardinality(T)
           /\ IsFiniteSet(S \cup T) /\ Cardinality(S \cup T) \in Nat
           /\ Cardinality(S \cup T) <= Cardinality(S) + Cardinality(T)
           /\ S \cap T = {} => Cardinality(S \cup T) = Cardinality(S) + Cardinality(T)
<1>1. Cardinality(S) \in Nat /\ Cardinality(T) \in Nat
  BY FS_CardinalityType
<1>2. S \subseteq T => Cardinality(S) <= Cardinality(T)
  BY FS_Subset
<1>3. /\ IsFiniteSet(S \cup T)
      /\ Cardinality(S \cup T) = Cardinality(S) + Cardinality(T) - Cardinality(S \cap T)
  BY FS_Union
<1>4. IsFiniteSet(S \cap T) /\ Cardinality(S \cap T) \in Nat
  <2>1. S \cap T \in SUBSET S
    OBVIOUS
  <2> QED
    BY <2>1, FS_Subset, FS_CardinalityType
<1>5. Cardinality(S \cup T) \in Nat
  BY <1>3, FS_CardinalityType
<1>6. S \cap T = {} => Cardinality(S \cap T) = 0
  BY FS_EmptySet
<1> QED
  BY <1>1, <1>2, <1>3, <1>4, <1>5, <1>6

\* The units of one row or item.
Block(k, n) == {k} \X (1..n)

\* A block has as many units as its row or item is for.
LEMMA BlockSize ==
    ASSUME NEW k, NEW n \in Nat
    PROVE  IsFiniteSet(Block(k, n)) /\ Cardinality(Block(k, n)) = n
<1>1. IsFiniteSet({k}) /\ Cardinality({k}) = 1
  BY FS_Singleton
<1>2. IsFiniteSet(1..n) /\ Cardinality(1..n) = n
  BY FS_Interval
<1> DEFINE u == 1..n
<1>3. IsFiniteSet({k} \X u) /\ Cardinality({k} \X u) = Cardinality({k}) * Cardinality(u)
  <2> HIDE DEF u
  <2> QED
    BY <1>1, <1>2, FS_Product DEF u
<1>4. 1 * n = n
  OBVIOUS
<1> QED
  BY <1>1, <1>2, <1>3, <1>4 DEF Block

\* What is available is what is left.
LEMMA AvailableIs ==
    ASSUME TypeOK, NEW l \in Listings, NEW n \in Nat
    PROVE  n <= Available(l) <=>
              n = 0 \/ n + Cardinality(ActiveUnits(l)) + Cardinality(SoldUnits(l)) <= stock[l]
<1>1. stock[l] \in Nat
  BY MarketplaceAssumption DEF TypeOK
<1>2. Cardinality(ActiveUnits(l)) \in Nat /\ Cardinality(SoldUnits(l)) \in Nat
  BY UnitsFinite
<1> DEFINE a == Cardinality(ActiveUnits(l))
           b == Cardinality(SoldUnits(l))
<1>3. Available(l) = IF stock[l] - a - b > 0 THEN stock[l] - a - b ELSE 0
  BY DEF Available
<1> HIDE DEF a, b
<1>4. a \in Nat /\ b \in Nat
  BY <1>2 DEF a, b
<1>5. n <= Available(l) <=> n = 0 \/ n + a + b <= stock[l]
  BY <1>1, <1>3, <1>4
<1> QED
  BY <1>5 DEF a, b

\* The next figure is a natural too.
LEMMA AvailableNext == TypeOK' => (\A l \in Listings : Available(l) \in Nat)'
<1>1. TypeOK => \A l \in Listings : Available(l) \in Nat
  BY AvailableType
<1> QED
  BY <1>1, PTL

\* Live units are among the active ones.
LEMMA LiveUnitsFinite ==
    ASSUME NEW l
    PROVE  /\ LiveUnits(l) \subseteq ActiveUnits(l)
           /\ IsFiniteSet(LiveUnits(l)) /\ Cardinality(LiveUnits(l)) \in Nat
           /\ Cardinality(LiveUnits(l)) <= Cardinality(ActiveUnits(l))
<1>1. LiveUnits(l) \in SUBSET ActiveUnits(l)
  BY DEF LiveUnits
<1> QED
  BY <1>1, UnitsFinite, FS_Subset, FS_CardinalityType

\* The units an item wants are those it takes out of what the loop wants.
LEMMA WantedWithout ==
    ASSUME NEW todo \in SUBSET Items, NEW i \in todo, NEW l
    PROVE  /\ Cardinality(WantedUnits(todo \ {i}, l)) <= Cardinality(WantedUnits(todo, l))
           /\ ListingOf[i] = l =>
                 Cardinality(WantedUnits(todo \ {i}, l)) + Quantity[i]
                     <= Cardinality(WantedUnits(todo, l))
<1> DEFINE rest == WantedUnits(todo \ {i}, l)
           all == WantedUnits(todo, l)
           block == Block(i, Quantity[i])
<1>1. /\ IsFiniteSet(rest) /\ IsFiniteSet(all)
      /\ Cardinality(rest) \in Nat /\ Cardinality(all) \in Nat
  <2>1. todo \ {i} \in SUBSET Items
    OBVIOUS
  <2> QED
    BY <2>1, UnitsFinite
<1>2. Quantity[i] \in Units /\ Quantity[i] \in Nat
  BY MarketplaceAssumption DEF Units
<1>3. IsFiniteSet(block) /\ Cardinality(block) = Quantity[i]
  BY <1>2, BlockSize
<1>4. rest \subseteq all
  BY DEF WantedUnits
<1>5. ListingOf[i] = l => block \subseteq all /\ rest \cap block = {}
  BY <1>2, MarketplaceAssumption DEF WantedUnits, Block, Units
<1> HIDE DEF rest, all, block
<1>6. Cardinality(rest) <= Cardinality(all)
  BY <1>1, <1>4, Sizes
<1>7. ListingOf[i] = l => Cardinality(rest) + Quantity[i] <= Cardinality(all)
  <2> SUFFICES ASSUME ListingOf[i] = l
               PROVE  Cardinality(rest) + Quantity[i] <= Cardinality(all)
    OBVIOUS
  <2>1. /\ IsFiniteSet(rest \cup block) /\ rest \cup block \subseteq all
        /\ Cardinality(rest \cup block) = Cardinality(rest) + Quantity[i]
    BY <1>1, <1>3, <1>4, <1>5, Sizes
  <2>2. Cardinality(rest \cup block) <= Cardinality(all)
    BY <1>1, <2>1, Sizes
  <2> QED
    BY <2>1, <2>2
<1> QED
  BY <1>6, <1>7 DEF rest, all

\* Where rows are only released, what is available of a listing only grows,
\* and not at all where none of its rows is.
LEMMA FewerRows ==
    ASSUME TypeOK, TypeOK', stock' = stock, NEW l \in Listings,
           \A i \in Items : item'[i] = "SOLD" <=> item[i] = "SOLD",
           \A x \in Rows : row'[x].status = "ACTIVE" => row'[x] = row[x]
    PROVE  /\ Available(l) <= Available(l)'
           /\ (\A x \in Rows : row[x].status = "ACTIVE" /\ row[x].listing = l
                                => row'[x].status = "ACTIVE")
                 => Available(l)' = Available(l)
           /\ Cardinality(LiveUnits(l)) + Cardinality(SoldUnits(l)) <= stock[l]
                 => (Cardinality(LiveUnits(l)) + Cardinality(SoldUnits(l)) <= stock[l])'
<1>1. SoldUnits(l)' = SoldUnits(l)
  BY DEF SoldUnits
<1>2. ActiveUnits(l)' \subseteq ActiveUnits(l)
  BY DEF ActiveUnits
<1>3. LiveUnits(l)' \subseteq LiveUnits(l)
  <2>1. ASSUME NEW u \in LiveUnits(l)'
        PROVE  u \in LiveUnits(l)
    <3>1. u \in ActiveUnits(l) /\ row'[u[1]] = row[u[1]] /\ u[1] \in Rows
      BY <1>2, <2>1 DEF LiveUnits, ActiveUnits
    <3>2. row[u[1]].for \in Items \cup {NoItem}
      BY <3>1 DEF TypeOK, Reservation
    <3> QED
      BY <2>1, <3>1, <3>2 DEF LiveUnits
  <2> QED
    BY <2>1
<1>4. /\ IsFiniteSet(ActiveUnits(l)) /\ IsFiniteSet(ActiveUnits(l)')
      /\ IsFiniteSet(LiveUnits(l)) /\ IsFiniteSet(LiveUnits(l)')
      /\ Cardinality(SoldUnits(l)) \in Nat /\ stock[l] \in Nat
  <2>1. IsFiniteSet(ActiveUnits(l)') /\ IsFiniteSet(LiveUnits(l)')
    BY <1>2, <1>3, UnitsFinite, LiveUnitsFinite, FS_Subset
  <2> QED
    BY <2>1, UnitsFinite, LiveUnitsFinite, MarketplaceAssumption DEF TypeOK
<1>5. /\ Cardinality(ActiveUnits(l)') <= Cardinality(ActiveUnits(l))
      /\ Cardinality(LiveUnits(l)') <= Cardinality(LiveUnits(l))
      /\ Cardinality(ActiveUnits(l)) \in Nat /\ Cardinality(ActiveUnits(l)') \in Nat
      /\ Cardinality(LiveUnits(l)) \in Nat /\ Cardinality(LiveUnits(l)') \in Nat
  BY <1>2, <1>3, <1>4, Sizes
<1>6. Available(l) <= Available(l)'
  <2> DEFINE a == Cardinality(ActiveUnits(l))
             c == Cardinality(ActiveUnits(l)')
             b == Cardinality(SoldUnits(l))
  <2>1. /\ Available(l) = IF stock[l] - a - b > 0 THEN stock[l] - a - b ELSE 0
        /\ Available(l)' = IF stock[l] - c - b > 0 THEN stock[l] - c - b ELSE 0
    BY <1>1 DEF Available
  <2>2. c <= a /\ a \in Nat /\ b \in Nat /\ c \in Nat /\ stock[l] \in Nat
    BY <1>4, <1>5
  <2> HIDE DEF a, b, c
  <2> QED
    BY <2>1, <2>2
<1>7. ASSUME \A x \in Rows : row[x].status = "ACTIVE" /\ row[x].listing = l
                                => row'[x].status = "ACTIVE"
      PROVE  Available(l)' = Available(l)
  <2>1. ActiveUnits(l)' = ActiveUnits(l)
    BY <1>7 DEF ActiveUnits
  <2> QED
    BY <1>1, <2>1 DEF Available
<1> QED
  BY <1>1, <1>4, <1>5, <1>6, <1>7

\* A new row takes its units from what is available of its listing, only.
LEMMA NewRow ==
    ASSUME TypeOK, TypeOK', stock' = stock, NEW l \in Listings,
           \A i \in Items : item'[i] = "SOLD" <=> item[i] = "SOLD",
           NEW x \in Rows, NEW d \in Reservation,
           row[x] = NoRow, row' = [row EXCEPT ![x] = d], d.status = "ACTIVE",
           d.listing = l => d.size \in 1..Available(l)
    PROVE  /\ d.listing # l => Available(l)' = Available(l)
           /\ d.listing = l => \A n \in Nat : n + d.size <= Available(l) => n <= Available(l)'
           /\ Cardinality(LiveUnits(l)) + Cardinality(SoldUnits(l)) <= stock[l]
                 => (Cardinality(LiveUnits(l)) + Cardinality(SoldUnits(l)) <= stock[l])'
<1> DEFINE block == Block(x, d.size)
<1>1. SoldUnits(l)' = SoldUnits(l)
  BY DEF SoldUnits
<1>2. /\ \A y \in Rows : row'[y] = IF y = x THEN d ELSE row[y]
      /\ NoRow.status = "ABSENT"
  BY DEF TypeOK, NoRow
<1>3. /\ d.size \in Nat /\ \A n \in 1..d.size : n \in Units
      /\ \A n \in Units : n <= d.size => n \in 1..d.size
  BY MarketplaceAssumption DEF Reservation, Units
<1>4. IsFiniteSet(block) /\ Cardinality(block) = d.size
  BY <1>3, BlockSize
<1>5. /\ IsFiniteSet(ActiveUnits(l)) /\ IsFiniteSet(LiveUnits(l))
      /\ Cardinality(ActiveUnits(l)) \in Nat /\ Cardinality(SoldUnits(l)) \in Nat
      /\ Cardinality(LiveUnits(l)) <= Cardinality(ActiveUnits(l))
      /\ Cardinality(LiveUnits(l)) \in Nat /\ stock[l] \in Nat
  BY UnitsFinite, LiveUnitsFinite, MarketplaceAssumption DEF TypeOK
<1>6. CASE d.listing # l
  <2>1. ActiveUnits(l)' = ActiveUnits(l)
    BY <1>2, <1>6 DEF ActiveUnits
  <2>2. LiveUnits(l)' = LiveUnits(l)
    <3>1. \A u \in ActiveUnits(l) : u[1] \in Rows /\ u[1] # x
      BY <1>2 DEF ActiveUnits
    <3>2. \A u \in ActiveUnits(l) : row[u[1]].for \in Items \cup {NoItem}
      BY <3>1 DEF TypeOK, Reservation
    <3> QED
      BY <1>2, <2>1, <3>1, <3>2 DEF LiveUnits
  <2> QED
    BY <1>1, <1>6, <2>1, <2>2 DEF Available
<1>7. CASE d.listing = l
  <2>1. ActiveUnits(l)' \subseteq ActiveUnits(l) \cup block
    BY <1>2, <1>3, <1>7 DEF ActiveUnits, Block
  <2>2. LiveUnits(l)' \subseteq LiveUnits(l) \cup block
    <3>1. ASSUME NEW u \in LiveUnits(l)', u \notin block
          PROVE  u \in LiveUnits(l)
      <4>1. u \in ActiveUnits(l) /\ u[1] \in Rows /\ u[1] # x
        BY <1>2, <2>1, <3>1 DEF LiveUnits, ActiveUnits
      <4>2. row'[u[1]] = row[u[1]] /\ row[u[1]].for \in Items \cup {NoItem}
        BY <1>2, <4>1 DEF TypeOK, Reservation
      <4> QED
        BY <3>1, <4>1, <4>2 DEF LiveUnits
    <3> QED
      BY <3>1
  <2>3. /\ Cardinality(ActiveUnits(l)') <= Cardinality(ActiveUnits(l)) + d.size
        /\ Cardinality(ActiveUnits(l)') \in Nat
    <3>1. /\ IsFiniteSet(ActiveUnits(l) \cup block)
          /\ Cardinality(ActiveUnits(l) \cup block) <= Cardinality(ActiveUnits(l)) + d.size
          /\ Cardinality(ActiveUnits(l) \cup block) \in Nat
      BY <1>4, <1>5, Sizes
    <3>2. /\ Cardinality(ActiveUnits(l)') <= Cardinality(ActiveUnits(l) \cup block)
          /\ Cardinality(ActiveUnits(l)') \in Nat
      BY <2>1, <3>1, FS_Subset, FS_CardinalityType
    <3> HIDE DEF block
    <3> QED
      BY <1>3, <1>5, <3>1, <3>2
  <2>4. /\ Cardinality(LiveUnits(l)') <= Cardinality(LiveUnits(l)) + d.size
        /\ Cardinality(LiveUnits(l)') \in Nat
    <3>1. /\ IsFiniteSet(LiveUnits(l) \cup block)
          /\ Cardinality(LiveUnits(l) \cup block) <= Cardinality(LiveUnits(l)) + d.size
          /\ Cardinality(LiveUnits(l) \cup block) \in Nat
      BY <1>4, <1>5, Sizes
    <3>2. /\ Cardinality(LiveUnits(l)') <= Cardinality(LiveUnits(l) \cup block)
          /\ Cardinality(LiveUnits(l)') \in Nat
      BY <2>2, <3>1, FS_Subset, FS_CardinalityType
    <3> HIDE DEF block
    <3> QED
      BY <1>3, <1>5, <3>1, <3>2
  <2>5. /\ d.size + Cardinality(ActiveUnits(l)) + Cardinality(SoldUnits(l)) <= stock[l]
        /\ d.size >= 1 /\ Available(l) \in Nat
    BY <1>3, <1>7, AvailableIs, AvailableType
  <2>6. ASSUME NEW n \in Nat, n + d.size <= Available(l)
        PROVE  n <= Available(l)'
    <3>1. n + d.size \in Nat /\ n + d.size # 0
      BY <1>3, <2>5
    <3>2. n + d.size + Cardinality(ActiveUnits(l)) + Cardinality(SoldUnits(l)) <= stock[l]
      BY <2>6, <3>1, AvailableIs
    <3>3. n <= stock[l] - Cardinality(ActiveUnits(l)') - Cardinality(SoldUnits(l))
      BY <1>3, <1>5, <2>3, <3>2
    <3>4. Available(l)' = LET left == stock[l] - Cardinality(ActiveUnits(l)')
                                                - Cardinality(SoldUnits(l))
                          IN  IF left > 0 THEN left ELSE 0
      BY <1>1 DEF Available
    <3> DEFINE c == Cardinality(ActiveUnits(l)')
               b == Cardinality(SoldUnits(l))
    <3>5. c \in Nat /\ b \in Nat
      BY <1>5, <2>3
    <3> HIDE DEF b, c
    <3>6. n <= stock[l] - c - b /\ Available(l)' = IF stock[l] - c - b > 0 THEN stock[l] - c - b ELSE 0
      BY <3>3, <3>4 DEF b, c
    <3> QED
      BY <1>5, <3>5, <3>6
  <2>7. Cardinality(LiveUnits(l)') + Cardinality(SoldUnits(l)') <= stock'[l]
    BY <1>1, <1>3, <1>5, <2>4, <2>5
  <2> QED
    BY <1>7, <2>6, <2>7
<1> QED
  BY <1>6, <1>7

\* Items that are reserved may be sold: each takes the place of its reservation.
LEMMA SoldReserved ==
    ASSUME TypeOK, TypeOK', RowShape, stock' = stock, row' = row,
           NEW l \in Listings, NEW o,
           \A i \in Items : item'[i] = IF i \in ItemsOf(o) THEN "SOLD" ELSE item[i],
           \A i \in ItemsOf(o) : ListingOf[i] = l => item[i] = "SOLD" \/ Reserved(i, row)
    PROVE  /\ Cardinality(LiveUnits(l)) + Cardinality(SoldUnits(l)) <= stock[l]
                 => (Cardinality(LiveUnits(l)) + Cardinality(SoldUnits(l)) <= stock[l])'
           /\ (\A i \in ItemsOf(o) : ListingOf[i] = l => item[i] = "SOLD")
                 => Available(l)' = Available(l)
<1> DEFINE N == SoldUnits(l)' \ SoldUnits(l)
           D == LiveUnits(l) \ LiveUnits(l)'
           Of(i) == CHOOSE x \in Rows : row[x].for = i /\ row[x].status = "ACTIVE"
           f == [u \in N |-> <<Of(u[1]), u[2]>>]
<1>1. ActiveUnits(l)' = ActiveUnits(l)
  BY DEF ActiveUnits
<1>2. SoldUnits(l) \subseteq SoldUnits(l)' /\ LiveUnits(l)' \subseteq LiveUnits(l)
  <2>1. \A i \in Items : item[i] = "SOLD" => item'[i] = "SOLD"
    OBVIOUS
  <2>2. SoldUnits(l) \subseteq SoldUnits(l)'
    BY <2>1 DEF SoldUnits
  <2>3. \A u \in ActiveUnits(l) : row[u[1]].for \in Items \cup {NoItem}
    BY DEF ActiveUnits, TypeOK, Reservation
  <2> QED
    BY <1>1, <2>1, <2>2, <2>3 DEF LiveUnits
<1>3. ASSUME NEW u \in N
      PROVE  /\ u = <<u[1], u[2]>> /\ u[2] \in Units
             /\ Of(u[1]) \in Rows /\ row[Of(u[1])].for = u[1]
             /\ <<Of(u[1]), u[2]>> \in D
  <2>1. /\ u \in Items \X Units /\ u[1] \in ItemsOf(o) /\ item[u[1]] # "SOLD"
        /\ ListingOf[u[1]] = l /\ u[2] <= Quantity[u[1]] /\ item'[u[1]] = "SOLD"
    BY DEF SoldUnits
  <2>2. /\ Of(u[1]) \in Rows /\ row[Of(u[1])].for = u[1]
        /\ row[Of(u[1])].status = "ACTIVE"
    <3>1. Reserved(u[1], row)
      BY <2>1
    <3> QED
      BY <3>1 DEF Reserved
  <2>3. row[Of(u[1])].listing = l /\ row[Of(u[1])].size = Quantity[u[1]]
    BY <2>1, <2>2 DEF RowShape
  <2> DEFINE v == <<Of(u[1]), u[2]>>
  <2>4. v \in Rows \X Units /\ v[1] = Of(u[1]) /\ v[2] = u[2]
    BY <2>1, <2>2
  <2> HIDE DEF v, Of, N
  <2>5. v \in ActiveUnits(l)
    BY <2>1, <2>2, <2>3, <2>4 DEF ActiveUnits
  <2>6. v \in LiveUnits(l) /\ v \notin LiveUnits(l)'
    BY <2>1, <2>2, <2>4, <2>5, MarketplaceAssumption DEF LiveUnits
  <2> QED
    BY <2>1, <2>2, <2>6 DEF v
<1>4. /\ IsFiniteSet(LiveUnits(l)) /\ IsFiniteSet(LiveUnits(l)') /\ IsFiniteSet(D)
      /\ IsFiniteSet(SoldUnits(l)) /\ stock[l] \in Nat
  <2>1. D \in SUBSET LiveUnits(l) /\ LiveUnits(l)' \in SUBSET LiveUnits(l)
    BY <1>2
  <2> QED
    BY <2>1, UnitsFinite, LiveUnitsFinite, FS_Subset, MarketplaceAssumption DEF TypeOK
<1>5. IsFiniteSet(N) /\ Cardinality(N) <= Cardinality(D)
  <2>1. f \in [N -> D]
    BY <1>3
  <2>2. ASSUME NEW u \in N, NEW v \in N, f[u] = f[v]
        PROVE  u = v
    <3> HIDE DEF N, Of
    <3>1. Of(u[1]) = Of(v[1]) /\ u[2] = v[2]
      BY <2>2
    <3>2. row[Of(u[1])].for = u[1] /\ u = <<u[1], u[2]>>
      BY <1>3
    <3>3. row[Of(v[1])].for = v[1] /\ v = <<v[1], v[2]>>
      BY <1>3
    <3> HIDE DEF f
    <3> QED
      BY <3>1, <3>2, <3>3
  <2> HIDE DEF N, D, f, Of
  <2>3. f \in Injection(N, D)
    BY <2>1, <2>2 DEF Injection, IsInjective
  <2> QED
    BY <1>4, <2>3, FS_Injection
<1>6. /\ SoldUnits(l)' = SoldUnits(l) \cup N /\ SoldUnits(l) \cap N = {}
      /\ LiveUnits(l) = LiveUnits(l)' \cup D /\ LiveUnits(l)' \cap D = {}
  BY <1>2
<1> HIDE DEF N, D
<1>7. /\ Cardinality(SoldUnits(l)') = Cardinality(SoldUnits(l)) + Cardinality(N)
      /\ Cardinality(LiveUnits(l)) = Cardinality(LiveUnits(l)') + Cardinality(D)
      /\ Cardinality(SoldUnits(l)) \in Nat /\ Cardinality(N) \in Nat
      /\ Cardinality(LiveUnits(l)') \in Nat /\ Cardinality(D) \in Nat
  BY <1>4, <1>5, <1>6, Sizes
<1>8. ASSUME Cardinality(LiveUnits(l)) + Cardinality(SoldUnits(l)) <= stock[l]
      PROVE  Cardinality(LiveUnits(l)') + Cardinality(SoldUnits(l)') <= stock'[l]
  BY <1>4, <1>5, <1>7, <1>8
<1>9. ASSUME \A i \in ItemsOf(o) : ListingOf[i] = l => item[i] = "SOLD"
      PROVE  Available(l)' = Available(l)
  <2>1. SoldUnits(l)' = SoldUnits(l)
    BY <1>9 DEF SoldUnits
  <2> QED
    BY <1>1, <2>1 DEF Available
<1> QED
  BY <1>8, <1>9

-----------------------------------------------------------------------------
(* The steps                                                                *)

\* A step keeps requests in order if it leaves the only one so.
LEMMA OneWorking ==
    ASSUME Base, NEW r \in Requests, NEW q,
           \A p \in Requests : p # r => request[p] = Idle,
           request' = [request EXCEPT ![r] = q],
           Working(q, Avail', item', row')
    PROVE  AllWorking'
<1>1. \A p \in Requests : request'[p] = IF p = r THEN q ELSE Idle
  BY DEF Base, TypeInv, TypeOK
<1>2. Working(Idle, Avail', item', row')
  BY DEF Working, InLoop, Idle, Recalculating
<1> QED
  BY <1>1, <1>2 DEF AllWorking

\* Where the only request has nothing to recalculate, what is known is available.
LEMMA KnownIsAvailable ==
    ASSUME Base, StockInv, NEW r \in Requests, NEW l \in Listings,
           \A p \in Requests : p # r => request[p] = Idle,
           ~Due(request[r], l, row)
    PROVE  snapshot[l] \in {NoSnapshot, Available(l)} /\ Known(l) = Available(l)
<1>1. ~Due(Idle, l, row)
  BY DEF Due, Idle
<1>2. snapshot[l] \in {NoSnapshot, Available(l)}
  BY <1>1 DEF StockInv, SnapshotsDue
<1> QED
  BY <1>2 DEF Known

\* Steps that change no row and sell no item.
LEMMA SameUnits ==
    ASSUME Base, Base', StockInv, NEW r \in Requests, NEW q,
           \A p \in Requests : p # r => request[p] = Idle,
           request' = [request EXCEPT ![r] = q],
           stock' = stock, row' = row,
           \A i \in Items : item'[i] = "SOLD" <=> item[i] = "SOLD",
           \A i \in Items : item'[i] = "ALLOCATED" => ListingOf[i] # NoListing,
           Working(q, Avail, item', row),
           \A i \in Items : order'[OrderOf[i]] \in {"PENDING", "PAID", "FULFILLED"} =>
               \/ order[OrderOf[i]] \in {"PENDING", "PAID", "FULFILLED"}
               \/ InLoop(q) /\ i \in Left(q),
           \A i \in Items : InLoop(request[r]) /\ i \in Left(request[r]) =>
               ListingOf[i] = NoListing \/ (InLoop(q) /\ i \in Left(q)),
           \A l \in Listings : snapshot'[l] \in {snapshot[l], Available(l)},
           \A l \in Listings : Due(request[r], l, row) =>
               snapshot'[l] = Available(l) \/ Due(q, l, row)
    PROVE  StockInv'
<1>1. TypeOK /\ TypeOK'
  BY DEF Base, TypeInv
<1>2. \A l \in Listings : Available(l)' = Available(l)
  BY <1>1, FewerRows
<1>3. Avail' = Avail
  BY <1>2 DEF Avail
<1>4. AllWorking'
  BY <1>3, OneWorking
<1>5. RowShape'
  BY DEF StockInv, RowShape
<1>6. \A p \in Requests : /\ request'[p] = IF p = r THEN q ELSE Idle
                          /\ p # r => request[p] = Idle
  BY DEF Base, TypeInv, TypeOK
<1>7. ~InLoop(Idle) /\ \A l \in Listings : ~Due(Idle, l, row)
  BY DEF InLoop, Idle, Due
<1>8. Covered'
  <2> SUFFICES ASSUME NEW i \in Items, ListingOf[i] # NoListing,
                      order'[OrderOf[i]] \in {"PENDING", "PAID", "FULFILLED"},
                      item'[i] # "SOLD", ~Reserved(i, row)
               PROVE  InLoop(q) /\ i \in Left(q)
    BY <1>6 DEF Covered
  <2>1. CASE order[OrderOf[i]] \in {"PENDING", "PAID", "FULFILLED"}
    <3>1. PICK p \in Requests : InLoop(request[p]) /\ i \in Left(request[p])
      BY <2>1 DEF StockInv, Covered
    <3>2. p = r
      BY <1>6, <1>7, <3>1
    <3> QED
      BY <3>1, <3>2
  <2> QED
    BY <2>1
<1>9. AllocatedListed'
  BY DEF AllocatedListed
<1>10. SnapshotsDue'
  <2> SUFFICES ASSUME NEW l \in Listings, snapshot'[l] \notin {NoSnapshot, Available(l)}
               PROVE  Due(q, l, row)
    BY <1>2, <1>6 DEF SnapshotsDue
  <2>1. PICK p \in Requests : Due(request[p], l, row)
    BY DEF StockInv, SnapshotsDue
  <2>2. p = r
    BY <1>6, <1>7, <2>1
  <2> QED
    BY <2>1, <2>2
<1>11. NeverOversold'
  BY <1>1, FewerRows DEF StockInv, NeverOversold
<1> QED
  BY <1>4, <1>5, <1>8, <1>9, <1>10, <1>11 DEF StockInv

\* Requests begin with nothing to recalculate, and a hold fits.
LEMMA BeginStock ==
    ASSUME Faults = {}, Base, Base', StockInv, NEW r \in Requests, Begin(r)
    PROVE  StockInv'
<1>1. /\ Idle = [task |-> "none", step |-> "idle", order |-> NoOrder, todo |-> {},
                  staged |-> {}, draft |-> NoRow, stale |-> {}, at |-> NoListing, figure |-> 0]
      /\ row \in [Rows -> Reservation] /\ TypeOK /\ TypeOK'
  BY DEF Idle, Base, TypeInv, TypeOK
<1>2. \A p \in Requests : request[p] = Idle
  BY BeginsAlone DEF Begin, ImportOrder, PostOrder, RequestHold, ReleaseReservation,
                     ExpireReservations, RequestStatus
<1>3. \A l \in Listings : /\ snapshot[l] \in {NoSnapshot, Available(l)} /\ Known(l) = Available(l)
                          /\ ~Due(request[r], l, row)
  <2>1. \A l \in Listings : ~Due(request[r], l, row)
    BY <1>1, <1>2 DEF Due
  <2> QED
    BY <1>2, <2>1, KnownIsAvailable
<1>4. ~InLoop(request[r])
  BY <1>1, <1>2 DEF InLoop
<1>5. ASSUME NEW q, request' = [request EXCEPT ![r] = q],
             UNCHANGED <<stock, order, item, row>>,
             \A l \in Listings : snapshot'[l] \in {snapshot[l], Available(l)},
             Working(q, Avail, item, row)
      PROVE  StockInv'
  <2>1. \A i \in Items : item[i] = "ALLOCATED" => ListingOf[i] # NoListing
    BY DEF StockInv, AllocatedListed
  <2> QED
    BY <1>2, <1>3, <1>4, <1>5, <2>1, SameUnits
<1>6. ASSUME NEW o \in Orders, ImportOrder(r, o) \/ PostOrder(r, o)
      PROVE  StockInv'
  <2> DEFINE q == [[Idle EXCEPT !.task = "order", !.order = o] EXCEPT !.step = "create"]
  <2>1. q.step = "create" /\ q.task = "order" /\ q.stale = {}
    BY <1>1
  <2>2. request' = [request EXCEPT ![r] = q]
    BY <1>6 DEF ImportOrder, PostOrder, Continue
  <2> HIDE DEF q
  <2>3. Working(q, Avail, item, row)
    BY <2>1 DEF Working, InLoop, Recalculating
  <2> QED
    BY <1>5, <1>6, <2>2, <2>3 DEF ImportOrder, PostOrder
<1>7. ASSUME NEW l \in Listings, NEW n \in HoldSizes, NEW i \in NamedItems \cup {NoItem},
             RequestHold(r, l, n, i)
      PROVE  StockInv'
  <2> DEFINE q == [[Idle EXCEPT !.task = "hold", !.draft = ClientDraft(i, l, n)]
                      EXCEPT !.step = "reserve"]
  <2>1. /\ q.step = "reserve" /\ q.task = "hold" /\ q.stale = {}
        /\ q.draft.status = "ACTIVE" /\ q.draft.listing = l /\ q.draft.size = n
    BY <1>1 DEF ClientDraft, Draft
  <2>2. request' = [request EXCEPT ![r] = q]
    BY <1>7 DEF RequestHold, Continue
  <2>3. n \in 1..Avail[l]
    BY <1>1, <1>3, <1>7, AvailableType, MarketplaceAssumption DEF RequestHold, Avail, Units
  <2>4. \A k \in Listings : snapshot'[k] \in {snapshot[k], Available(k)}
    BY <1>3, <1>7 DEF RequestHold, KnownIn
  <2> HIDE DEF q
  <2>5. Working(q, Avail, item, row)
    BY <2>1, <2>3 DEF Working, InLoop, Recalculating
  <2> QED
    BY <1>5, <1>7, <2>2, <2>4, <2>5 DEF RequestHold
<1>8. ASSUME NEW xs \in SUBSET Rows, NEW status \in {"RELEASED", "EXPIRED"}, NEW q,
             \A x \in xs : row[x].for = NoItem,
             row' = [x \in Rows |-> IF x \in xs THEN [row[x] EXCEPT !.status = status] ELSE row[x]],
             q.task \in {"release", "expire"}, q.step = "recalculate",
             q.stale = {row[x].listing : x \in xs},
             request' = [request EXCEPT ![r] = q],
             UNCHANGED <<stock, snapshot, order, item>>
      PROVE  StockInv'
  <2>1. \A x \in Rows : /\ row'[x].for = row[x].for /\ row'[x].listing = row[x].listing
                        /\ row'[x].size = row[x].size /\ row'[x].source = row[x].source
                        /\ x \notin xs => row'[x] = row[x]
                        /\ x \in xs => row'[x].status # "ACTIVE"
    BY <1>1, <1>8 DEF Reservation
  <2>2. Working(q, Avail', item', row')
    BY <1>8 DEF Working, InLoop, Recalculating
  <2>3. \A x \in Rows : row'[x].status = "ACTIVE" => row'[x] = row[x]
    BY <2>1
  <2>4. AllWorking' /\ AllocatedListed' /\ RowShape' /\ NeverOversold'
    <3>1. AllWorking'
      BY <1>2, <1>8, <2>2, OneWorking
    <3>2. AllocatedListed' /\ RowShape'
      BY <1>8, <2>1 DEF StockInv, AllocatedListed, RowShape
    <3>3. NeverOversold'
      BY <1>1, <1>8, <2>3, FewerRows DEF StockInv, NeverOversold
    <3> QED
      BY <3>1, <3>2, <3>3
  <2>5. Covered'
    <3>1. \A i \in Items : Reserved(i, row) => Reserved(i, row')
      BY <1>8, <2>1, MarketplaceAssumption DEF Reserved
    <3>2. \A p \in Requests : ~InLoop(request[p])
      BY <1>1, <1>2 DEF InLoop
    <3> QED
      BY <1>8, <3>1, <3>2 DEF StockInv, Covered
  <2>6. SnapshotsDue'
    <3> SUFFICES ASSUME NEW l \in Listings, l \notin q.stale
                 PROVE  snapshot'[l] \in {NoSnapshot, Available(l)'}
      BY <1>1, <1>8 DEF SnapshotsDue, Due, TypeOK
    <3>1. \A x \in Rows : row[x].status = "ACTIVE" /\ row[x].listing = l
                                => row'[x].status = "ACTIVE"
      BY <1>8, <2>1
    <3>2. Available(l)' = Available(l)
      BY <1>1, <1>8, <2>3, <3>1, FewerRows
    <3> QED
      BY <1>3, <1>8, <3>2
  <2> QED
    BY <2>4, <2>5, <2>6 DEF StockInv
<1>9. ASSUME NEW x \in Rows, ReleaseReservation(r, x)
      PROVE  StockInv'
  <2> DEFINE q == [[Idle EXCEPT !.task = "release", !.stale = {row[x].listing}]
                      EXCEPT !.step = "recalculate"]
  <2>1. q.step = "recalculate" /\ q.task = "release" /\ q.stale = {row[y].listing : y \in {x}}
    BY <1>1
  <2>2. request' = [request EXCEPT ![r] = q]
    BY <1>9 DEF ReleaseReservation, Continue
  <2>3. /\ row' = [y \in Rows |-> IF y \in {x} THEN [row[y] EXCEPT !.status = "RELEASED"] ELSE row[y]]
        /\ row[x].for = NoItem
    BY <1>1, <1>9 DEF ReleaseReservation
  <2> HIDE DEF q
  <2> QED
    BY <1>8, <1>9, <2>1, <2>2, <2>3 DEF ReleaseReservation
<1>10. ASSUME NEW xs \in SUBSET Rows, ExpireReservations(r, xs)
      PROVE  StockInv'
  <2> DEFINE q == [[Idle EXCEPT !.task = "expire", !.stale = {row[x].listing : x \in xs}]
                      EXCEPT !.step = "recalculate"]
  <2>1. q.step = "recalculate" /\ q.task = "expire" /\ q.stale = {row[x].listing : x \in xs}
    BY <1>1
  <2>2. request' = [request EXCEPT ![r] = q]
    BY <1>10 DEF ExpireReservations, Continue
  <2> HIDE DEF q
  <2> QED
    BY <1>8, <1>10, <2>1, <2>2 DEF ExpireReservations
<1>11. ASSUME NEW o \in Orders, NEW t \in {"paid", "cancel", "fulfil"}, RequestStatus(r, o, t)
      PROVE  StockInv'
  <2> DEFINE p == [Idle EXCEPT !.task = t, !.order = o, !.step = "status"]
  <2>1. /\ p.task = t /\ p.step = "status" /\ p.stale = {} /\ p.todo = {} /\ p \in Request
    BY <1>1, IdleType DEF Request, Tasks, Steps
  <2> HIDE DEF p
  <2>2. /\ AfterStatus(p).task = t /\ AfterStatus(p).stale = {}
        /\ AfterStatus(p).step \in {"done", "release", "sell"}
        /\ AfterStatus(p).step = "sell" => AfterStatus(p).todo = {}
    BY <2>1 DEF AfterStatus, Request
  <2>3. PICK q \in {p, AfterStatus(p)} : request' = [request EXCEPT ![r] = q]
    BY <1>11 DEF RequestStatus, p
  <2>4. Working(q, Avail, item, row)
    BY <2>1, <2>2, <2>3 DEF Working, InLoop, Recalculating
  <2> QED
    BY <1>5, <1>11, <2>3, <2>4 DEF RequestStatus
<1> QED
  BY <1>6, <1>7, <1>9, <1>10, <1>11 DEF Begin

\* An order is inserted when there is room for all its items.
LEMMA CreateStock ==
    ASSUME Base, Base', StockInv, NEW r \in Requests, CreateOrder(r)
    PROVE  StockInv'
<1> DEFINE o == request[r].order
           q == [[request[r] EXCEPT !.todo = ItemsOf(o)] EXCEPT !.step = "allocate"]
<1>1. /\ request[r] \in Request /\ request[r].step = "create" /\ request[r].task \in Tasks
      /\ request[r].step \in StepsOf(request[r].task) /\ TypeOK
      /\ Alone(request[r], order, item, row) /\ Sound(request[r], order, row)
      /\ Working(request[r], Avail, item, row)
  BY DEF CreateOrder, Base, TypeInv, TypeOK, TaskSteps, Request, SerialInv, AllAlone,
         ReservedInv, AllSound, StockInv, AllWorking
<1>2. request[r].task = "order"
  BY <1>1 DEF StepsOf, Recalculating, Tasks
<1>3. /\ o \in Orders /\ order[o] = "ABSENT" /\ request[r].staged = {} /\ request[r].stale = {}
  BY <1>1, <1>2 DEF Alone, Sound, Working, Recalculating
<1>4. /\ q.task = "order" /\ q.step = "allocate" /\ q.todo = ItemsOf(o) /\ q.order = o
      /\ q.staged = {} /\ q.stale = {}
  BY <1>1, <1>2, <1>3 DEF Request
<1>5. request' = [request EXCEPT ![r] = q] /\ stock' = stock /\ row' = row
  BY DEF CreateOrder, Continue
<1>6. /\ order'[o] = "PENDING" /\ \A p \in Orders : p # o => order'[p] = order[p]
      /\ \A i \in Items : item'[i] = IF OrderOf[i] = o THEN "PENDING" ELSE item[i]
  BY <1>1, <1>3 DEF CreateOrder, TypeOK
<1>7. \A p \in Requests : p # r => request[p] = Idle
  BY <1>1, OthersIdle
<1>8. \A l \in Listings : ~Due(request[r], l, row)
  BY <1>2, <1>3 DEF Due
<1>9. \A l \in Listings : Known(l) = Available(l)
  BY <1>7, <1>8, KnownIsAvailable
<1>10. \A i \in Items : item[i] = "SOLD" => OrderOf[i] # o
  BY <1>3 DEF Base, SerialInv, ItemsFollowOrder
<1>11. \A l \in Listings : Cardinality(WantedUnits(ItemsOf(o), l)) <= Avail[l]
  <2> TAKE l \in Listings
  <2>1. Available(l) \in Nat
    BY <1>1, AvailableType
  <2>2. CASE l \in ListingsIn(o)
    BY <1>9, <2>2 DEF CreateOrder, Fits, Avail
  <2>3. CASE l \notin ListingsIn(o)
    <3>1. WantedUnits(ItemsOf(o), l) = {}
      BY <2>3, MarketplaceAssumption DEF WantedUnits, ListingsIn, ItemsOf
    <3> QED
      BY <2>1, <3>1, FS_EmptySet DEF Avail
  <2> QED
    BY <2>2, <2>3
<1>12. \A l \in Listings : snapshot'[l] \in {snapshot[l], Available(l)}
  BY <1>9 DEF CreateOrder, KnownIn
<1> HIDE DEF q, o
<1>13. Working(q, Avail, item', row)
  BY <1>4, <1>6, <1>11 DEF Working, InLoop, Recalculating, Left, ItemsOf
<1>14. ~InLoop(request[r])
  BY <1>1 DEF InLoop
<1>15. /\ \A i \in Items : item'[i] = "SOLD" <=> item[i] = "SOLD"
       /\ \A i \in Items : item'[i] = "ALLOCATED" => ListingOf[i] # NoListing
  BY <1>6, <1>10 DEF StockInv, AllocatedListed
<1>16. \A i \in Items : order'[OrderOf[i]] \in {"PENDING", "PAID", "FULFILLED"} =>
          \/ order[OrderOf[i]] \in {"PENDING", "PAID", "FULFILLED"}
          \/ InLoop(q) /\ i \in Left(q)
  BY <1>4, <1>6, MarketplaceAssumption DEF InLoop, Left, ItemsOf, Recalculating
<1> QED
  BY <1>5, <1>7, <1>8, <1>12, <1>13, <1>14, <1>15, <1>16, SameUnits

\* No item of an order that was inserted is refused.
LEMMA AllocateStock ==
    ASSUME Base, Base', StockInv, NEW r \in Requests, AllocateItem(r)
    PROVE  StockInv'
<1>1. /\ request[r] \in Request /\ request[r].step = "allocate" /\ request[r].task \in Tasks
      /\ request[r].step \in StepsOf(request[r].task) /\ TypeOK
      /\ Sound(request[r], order, row) /\ Working(request[r], Avail, item, row)
      /\ UNCHANGED <<stock, snapshot, order, item, row>>
  BY DEF AllocateItem, Base, TypeInv, TypeOK, TaskSteps, Request,
         ReservedInv, AllSound, StockInv, AllWorking
<1>2. request[r].task = "order"
  BY <1>1 DEF StepsOf, Recalculating, Tasks
<1>3. /\ request[r].todo \in SUBSET Items /\ Left(request[r]) = request[r].todo
      /\ InLoop(request[r])
      /\ \A l \in Listings : Cardinality(WantedUnits(request[r].todo, l)) <= Avail[l]
      /\ \A i \in request[r].todo : item[i] = "PENDING"
      /\ \A i \in request[r].staged : ListingOf[i] # NoListing /\ i \notin request[r].todo
      /\ request[r].stale = {}
  BY <1>1, <1>2 DEF Working, InLoop, Left, Recalculating, Request
<1>4. \A p \in Requests : p # r => request[p] = Idle
  BY <1>1, OthersIdle
<1>5. \A l \in Listings : ~Due(request[r], l, row)
  BY <1>2, <1>3 DEF Due
<1>6. \A l \in Listings : Known(l) = Available(l) /\ Avail[l] = Available(l) /\ Avail[l] \in Nat
  BY <1>1, <1>4, <1>5, KnownIsAvailable, AvailableType DEF Avail
<1>7. \A i \in Items : item[i] = "ALLOCATED" => ListingOf[i] # NoListing
  BY DEF StockInv, AllocatedListed
<1>8. ASSUME NEW q, request' = [request EXCEPT ![r] = q], Working(q, Avail, item, row), InLoop(q),
             \A i \in Items : i \in Left(request[r]) => ListingOf[i] = NoListing \/ i \in Left(q)
      PROVE  StockInv'
  <2>1. /\ \A l \in Listings : snapshot'[l] \in {snapshot[l], Available(l)}
        /\ \A i \in Items : order'[OrderOf[i]] = order[OrderOf[i]] /\ item'[i] = item[i]
        /\ stock' = stock /\ row' = row /\ Working(q, Avail, item', row)
    BY <1>1, <1>8
  <2>2. /\ \A i \in Items : item'[i] = "SOLD" <=> item[i] = "SOLD"
        /\ \A i \in Items : item'[i] = "ALLOCATED" => ListingOf[i] # NoListing
        /\ \A i \in Items : order'[OrderOf[i]] \in {"PENDING", "PAID", "FULFILLED"} =>
              \/ order[OrderOf[i]] \in {"PENDING", "PAID", "FULFILLED"}
              \/ InLoop(q) /\ i \in Left(q)
    BY <1>7, <2>1
  <2>3. /\ \A i \in Items : InLoop(request[r]) /\ i \in Left(request[r]) =>
              ListingOf[i] = NoListing \/ (InLoop(q) /\ i \in Left(q))
        /\ \A l \in Listings : Due(request[r], l, row) =>
              snapshot'[l] = Available(l) \/ Due(q, l, row)
    BY <1>5, <1>8
  <2> QED
    BY <1>4, <1>8, <2>1, <2>2, <2>3, SameUnits
<1>9. PICK i \in Items :
          /\ First(i, request[r].todo)
          /\ \/ /\ item[i] = "PENDING" /\ ListingOf[i] # NoListing
                /\ Quantity[i] <= Known(ListingOf[i])
                /\ Continue(r, "reserve", [request[r] EXCEPT
                       !.draft = Draft(i, ListingOf[i], Quantity[i])])
             \/ /\ item[i] = "PENDING" /\ ListingOf[i] # NoListing
                /\ Quantity[i] > Known(ListingOf[i])
                /\ Abandon(r)
             \/ /\ item[i] # "PENDING" \/ ListingOf[i] = NoListing
                /\ Continue(r, "allocate", [request[r] EXCEPT !.todo = @ \ {i}])
  BY DEF AllocateItem
<1>10. i \in request[r].todo /\ item[i] = "PENDING" /\ Quantity[i] \in Nat \ {0}
  BY <1>3, <1>9, MarketplaceAssumption DEF First, Units
<1>11. ASSUME ListingOf[i] # NoListing
       PROVE  ListingOf[i] \in Listings /\ Quantity[i] <= Avail[ListingOf[i]]
  <2> DEFINE l == ListingOf[i]
  <2>1. l \in Listings
    BY <1>11, MarketplaceAssumption
  <2> HIDE DEF l
  <2>2. /\ Cardinality(WantedUnits(request[r].todo \ {i}, l)) + Quantity[i]
               <= Cardinality(WantedUnits(request[r].todo, l))
        /\ Cardinality(WantedUnits(request[r].todo \ {i}, l)) \in Nat
        /\ Cardinality(WantedUnits(request[r].todo, l)) \in Nat
    <3>1. request[r].todo \ {i} \in SUBSET Items
      BY <1>3
    <3> QED
      BY <1>3, <1>10, <3>1, WantedWithout, UnitsFinite DEF l
  <2>3. Quantity[i] <= Avail[l]
    BY <1>3, <1>6, <1>10, <2>1, <2>2
  <2> QED
    BY <2>1, <2>3 DEF l
<1>12. CASE ListingOf[i] # NoListing /\ Continue(r, "reserve", [request[r] EXCEPT
                                      !.draft = Draft(i, ListingOf[i], Quantity[i])])
  <2> DEFINE q == [[request[r] EXCEPT !.draft = Draft(i, ListingOf[i], Quantity[i])]
                      EXCEPT !.step = "reserve"]
  <2>1. /\ q.task = "order" /\ q.step = "reserve" /\ q.todo = request[r].todo
        /\ q.staged = request[r].staged /\ q.stale = request[r].stale
        /\ q.draft = Draft(i, ListingOf[i], Quantity[i])
    BY <1>1, <1>2 DEF Request
  <2>2. /\ q.draft.for = i /\ q.draft.listing = ListingOf[i] /\ q.draft.size = Quantity[i]
        /\ q.draft.status = "ACTIVE"
    BY <2>1 DEF Draft
  <2>3. request' = [request EXCEPT ![r] = q]
    BY <1>12 DEF Continue
  <2> HIDE DEF q
  <2>4. InLoop(q) /\ Left(q) = request[r].todo
    BY <2>1 DEF InLoop, Left, Recalculating
  <2>5. q.draft.size \in 1..Avail[q.draft.listing]
    BY <1>6, <1>10, <1>11, <1>12, <2>2
  <2>6. Working(q, Avail, item, row)
    BY <1>3, <2>1, <2>2, <2>4, <2>5 DEF Working, Recalculating
  <2> QED
    BY <1>3, <1>8, <2>3, <2>4, <2>6
<1>13. ~(ListingOf[i] # NoListing /\ Quantity[i] > Known(ListingOf[i]))
  BY <1>6, <1>10, <1>11
<1>14. CASE ListingOf[i] = NoListing /\ Continue(r, "allocate", [request[r] EXCEPT !.todo = @ \ {i}])
  <2> DEFINE todo == request[r].todo \ {i}
             q == [[request[r] EXCEPT !.todo = @ \ {i}] EXCEPT !.step = "allocate"]
  <2>1. /\ q.task = "order" /\ q.step = "allocate" /\ q.todo = todo
        /\ q.staged = request[r].staged /\ q.stale = request[r].stale
    BY <1>1, <1>2 DEF Request
  <2>2. request' = [request EXCEPT ![r] = q]
    BY <1>14 DEF Continue
  <2>3. \A l \in Listings : Cardinality(WantedUnits(todo, l)) <= Avail[l]
    <3> TAKE l \in Listings
    <3>1. /\ Cardinality(WantedUnits(todo, l)) <= Cardinality(WantedUnits(request[r].todo, l))
          /\ Cardinality(WantedUnits(todo, l)) \in Nat
          /\ Cardinality(WantedUnits(request[r].todo, l)) \in Nat
      <4>1. todo \in SUBSET Items
        BY <1>3
      <4> QED
        BY <1>3, <1>10, <4>1, WantedWithout, UnitsFinite
    <3> HIDE DEF todo
    <3> QED
      BY <1>3, <1>6, <3>1
  <2> HIDE DEF q
  <2>4. InLoop(q) /\ Left(q) = todo
    BY <2>1 DEF InLoop, Left, Recalculating
  <2>5. Working(q, Avail, item, row)
    BY <1>3, <2>1, <2>3, <2>4 DEF Working, Recalculating
  <2> QED
    BY <1>3, <1>8, <1>14, <2>2, <2>4, <2>5
<1> QED
  BY <1>9, <1>10, <1>12, <1>13, <1>14

\* A reservation takes what its listing had, and what the loop keeps fits in the rest.
LEMMA ReserveStock ==
    ASSUME Base, Base', StockInv, NEW r \in Requests, Reserve(r)
    PROVE  StockInv'
<1> DEFINE d == request[r].draft
           q == [[request[r] EXCEPT !.staged = {}, !.stale = {d.listing}]
                    EXCEPT !.step = "recalculate"]
<1>1. /\ request[r] \in Request /\ request[r].step = "reserve" /\ request[r].task \in Tasks
      /\ request[r].step \in StepsOf(request[r].task) /\ TypeOK /\ TypeOK'
      /\ Alone(request[r], order, item, row) /\ Sound(request[r], order, row)
      /\ Working(request[r], Avail, item, row) /\ d \in Reservation
      /\ d.listing \in Listings
  BY DEF Reserve, Base, TypeInv, TypeOK, TaskSteps, Request, SerialInv, AllAlone,
         ReservedInv, AllSound, StockInv, AllWorking, RowsListed
<1>2. request[r].task \in {"order", "hold"}
  BY <1>1 DEF StepsOf, Recalculating, Tasks
<1>3. PICK x \in Rows : row[x] = NoRow /\ row' = [row EXCEPT ![x] = d]
  BY DEF Reserve, First
<1>4. \A p \in Requests : p # r => request[p] = Idle
  BY <1>1, OthersIdle
<1>5. /\ request' = [request EXCEPT ![r] = q]
      /\ \A p \in Requests : request'[p] = IF p = r THEN q ELSE Idle
      /\ stock' = stock /\ snapshot' = snapshot /\ order' = order /\ item' = Flushed(r)
  BY <1>1, <1>4 DEF Reserve, Continue, TypeOK
<1>6. /\ q.step = "recalculate" /\ q.task = request[r].task /\ q.todo = request[r].todo
      /\ q.draft = d /\ q.stale = {d.listing} /\ q.staged = {}
  BY <1>1 DEF Request
<1>7. /\ d.status = "ACTIVE" /\ d.size \in 1..Avail[d.listing]
      /\ request[r].stale = {}
      /\ request[r].task = "order" =>
            /\ \A l \in Listings : Cardinality(WantedUnits(request[r].todo, l)) <= Avail[l]
            /\ \A i \in request[r].todo : item[i] = "PENDING"
            /\ \A i \in request[r].staged : ListingOf[i] # NoListing /\ i \notin request[r].todo
            /\ d = Draft(d.for, ListingOf[d.for], Quantity[d.for])
            /\ d.for \in request[r].todo /\ request[r].todo \in SUBSET Items
      /\ request[r].task = "hold" => d.for = NoItem /\ request[r].staged = {}
  BY <1>1 DEF Working, InLoop, Left, Recalculating, Sound, Alone, Request
<1>8. request[r].task = "order" =>
         /\ d.listing = ListingOf[d.for] /\ d.size = Quantity[d.for]
         /\ d.for \in Items /\ d.source = d.for
  <2> SUFFICES ASSUME request[r].task = "order"
               PROVE  /\ d.listing = ListingOf[d.for] /\ d.size = Quantity[d.for]
                      /\ d.for \in Items /\ d.source = d.for
    OBVIOUS
  <2> DEFINE s == d.for
  <2>1. d = Draft(s, ListingOf[s], Quantity[s]) /\ s \in Items
    BY <1>7
  <2> HIDE DEF d, s
  <2>2. d.listing = ListingOf[s] /\ d.size = Quantity[s] /\ d.source = s
    BY <2>1 DEF Draft
  <2> QED
    BY <2>1, <2>2 DEF s
<1> HIDE DEF q, d
<1>9. /\ \A y \in Rows : row'[y] = IF y = x THEN d ELSE row[y]
      /\ NoRow.status = "ABSENT" /\ NoRow.for = NoItem
  BY <1>1, <1>3 DEF TypeOK, NoRow
<1>10. /\ \A i \in Items : item'[i] = "SOLD" <=> item[i] = "SOLD"
       /\ \A i \in Items : item'[i] = "ALLOCATED" => ListingOf[i] # NoListing
       /\ \A i \in Items : i \notin request[r].staged => item'[i] = item[i]
  <2>1. \A i \in Items : item[i] = "SOLD" => item'[i] = "SOLD"
    BY <1>1, <1>5, FlushFollows
  <2>2. \A i \in Items : item'[i] = IF i \in request[r].staged THEN StagedStatus(request[r].task)
                                                            ELSE item[i]
    BY <1>5 DEF Flushed
  <2>3. StagedStatus(request[r].task) # "SOLD"
    BY DEF StagedStatus
  <2> QED
    BY <1>2, <1>7, <2>1, <2>2, <2>3 DEF StockInv, AllocatedListed
<1>11. ASSUME NEW l \in Listings
       PROVE  /\ d.listing # l => Available(l)' = Available(l)
              /\ d.listing = l => \A n \in Nat : n + d.size <= Available(l) => n <= Available(l)'
              /\ (Cardinality(LiveUnits(l)) + Cardinality(SoldUnits(l)) <= stock[l])'
              /\ Avail[l] = Available(l) /\ Avail'[l] = Available(l)'
              /\ Available(l) \in Nat /\ Available(l)' \in Nat
  <2>1. Avail[l] = Available(l) /\ Avail'[l] = Available(l)'
    BY DEF Avail
  <2>2. d.listing = l => d.size \in 1..Available(l)
    BY <1>7, <2>1
  <2>3. Available(l) \in Nat
    BY <1>1, AvailableType
  <2>4. Available(l)' \in Nat
    BY <1>1, AvailableNext
  <2> QED
    BY <1>1, <1>3, <1>5, <1>7, <1>10, <2>1, <2>2, <2>3, <2>4, NewRow
       DEF StockInv, NeverOversold, d
<1>12. NeverOversold'
  BY <1>11 DEF NeverOversold
<1>13. RowShape'
  <2>1. ASSUME NEW y \in Rows, row'[y].for \in Items
        PROVE  /\ row'[y].listing = ListingOf[row'[y].for]
               /\ row'[y].size = Quantity[row'[y].for] /\ row'[y].source = row'[y].for
    <3>1. CASE y = x
      BY <1>2, <1>7, <1>8, <1>9, <2>1, <3>1, MarketplaceAssumption
    <3>2. CASE y # x
      BY <1>9, <2>1, <3>2 DEF StockInv, RowShape
    <3> QED
      BY <3>1, <3>2
  <2> QED
    BY <2>1 DEF RowShape
<1>14. /\ \A i \in Items : Reserved(i, row) => Reserved(i, row')
       /\ Reserved(d.for, row')
  <2>1. ASSUME NEW i \in Items, Reserved(i, row)
        PROVE  Reserved(i, row')
    BY <1>3, <1>9, <2>1 DEF Reserved
  <2>2. row'[x].for = d.for /\ row'[x].status = "ACTIVE"
    BY <1>7, <1>9
  <2> QED
    BY <2>1, <2>2 DEF Reserved
<1>15. request[r].task = "order" =>
          \A l \in Listings : Cardinality(WantedUnits(Left(q), l)) <= Avail'[l]
  <2> SUFFICES ASSUME request[r].task = "order", NEW l \in Listings
               PROVE  Cardinality(WantedUnits(Left(q), l)) <= Avail'[l]
    OBVIOUS
  <2> DEFINE todo == request[r].todo
             rest == todo \ {d.for}
  <2>1. Left(q) = rest
    BY <1>6 DEF Left, Recalculating
  <2>2. todo \in SUBSET Items /\ rest \in SUBSET Items /\ d.for \in todo
    BY <1>7
  <2> HIDE DEF todo
  <2>3. /\ Cardinality(WantedUnits(rest, l)) <= Cardinality(WantedUnits(todo, l))
        /\ ListingOf[d.for] = l =>
              Cardinality(WantedUnits(rest, l)) + Quantity[d.for]
                  <= Cardinality(WantedUnits(todo, l))
        /\ Cardinality(WantedUnits(rest, l)) \in Nat
        /\ Cardinality(WantedUnits(todo, l)) \in Nat
    BY <2>2, WantedWithout, UnitsFinite
  <2> HIDE DEF rest
  <2>4. Cardinality(WantedUnits(todo, l)) <= Available(l)
    BY <1>7, <1>11 DEF todo
  <2>5. CASE d.listing # l
    BY <1>11, <2>1, <2>3, <2>4, <2>5
  <2>6. CASE d.listing = l
    <3>1. Cardinality(WantedUnits(rest, l)) + d.size <= Cardinality(WantedUnits(todo, l))
      BY <1>8, <2>3, <2>6
    <3>2. d.size \in Nat /\ Available(l) \in Nat
      BY <1>7, <1>11, <2>6
    <3>3. Cardinality(WantedUnits(rest, l)) + d.size <= Available(l)
      BY <2>3, <2>4, <3>1, <3>2
    <3> QED
      BY <1>11, <2>1, <2>3, <2>6, <3>3
  <2> QED
    BY <2>5, <2>6
<1>16. Working(q, Avail', item', row')
  <2>1. request[r].task = "order" => \A i \in q.todo : item'[i] = "PENDING"
    BY <1>6, <1>7, <1>10
  <2>2. request[r].task = "order" => ListingOf[d.for] # NoListing
    BY <1>1, <1>8, MarketplaceAssumption DEF d
  <2> QED
    BY <1>6, <1>14, <1>15, <2>1, <2>2 DEF Working, InLoop, Recalculating
<1>17. AllWorking'
  BY <1>4, <1>5, <1>16, OneWorking
<1>18. Covered'
  <2> SUFFICES ASSUME NEW i \in Items, ListingOf[i] # NoListing,
                      order[OrderOf[i]] \in {"PENDING", "PAID", "FULFILLED"},
                      item[i] # "SOLD", ~Reserved(i, row')
               PROVE  InLoop(q) /\ i \in Left(q)
    BY <1>5, <1>10 DEF Covered
  <2>1. ~Reserved(i, row) /\ i # d.for
    BY <1>14
  <2>2. PICK p \in Requests : InLoop(request[p]) /\ i \in Left(request[p])
    BY <2>1 DEF StockInv, Covered
  <2>3. p = r
    BY <1>4, <2>2 DEF InLoop, Idle
  <2> QED
    BY <1>1, <1>6, <2>1, <2>2, <2>3 DEF InLoop, Left, Recalculating
<1>19. AllocatedListed'
  BY <1>10 DEF AllocatedListed
<1>20. SnapshotsDue'
  <2> SUFFICES ASSUME NEW l \in Listings, l # d.listing
               PROVE  snapshot[l] \in {NoSnapshot, Available(l)'}
    BY <1>5, <1>6 DEF SnapshotsDue, Due
  <2>1. ~Due(request[r], l, row)
    BY <1>2, <1>7 DEF Due
  <2>2. snapshot[l] \in {NoSnapshot, Available(l)}
    BY <1>4, <2>1, KnownIsAvailable
  <2> QED
    BY <1>11, <2>2
<1> QED
  BY <1>12, <1>13, <1>17, <1>18, <1>19, <1>20 DEF StockInv

\* A recalculation writes what is available, and nobody reserves meanwhile.
LEMMA RecalculateStock ==
    ASSUME Base, Base', StockInv, NEW r \in Requests, ReadFigures(r) \/ WriteSnapshot(r)
    PROVE  StockInv'
<1>1. /\ request[r] \in Request /\ request[r].step \in Recalculating
      /\ request[r].step \in StepsOf(request[r].task) /\ TypeOK
      /\ Working(request[r], Avail, item, row)
      /\ request[r].task = "order" => request[r].draft.for \in Items
      /\ UNCHANGED <<stock, order, item, row>>
  BY DEF ReadFigures, WriteSnapshot, Base, TypeInv, TypeOK, TaskSteps, Recalculating,
         DraftNamesItem, StockInv, AllWorking
<1>2. \A p \in Requests : p # r => request[p] = Idle
  BY <1>1, OthersIdle DEF Recalculating
<1>3. \A i \in Items : item[i] = "ALLOCATED" => ListingOf[i] # NoListing
  BY DEF StockInv, AllocatedListed
<1>4. \A l \in Listings : Avail[l] = Available(l)
  BY DEF Avail
<1>5. ASSUME NEW q, request' = [request EXCEPT ![r] = q], Working(q, Avail, item, row),
             \A i \in Items : InLoop(request[r]) /\ i \in Left(request[r]) =>
                 InLoop(q) /\ i \in Left(q),
             \A l \in Listings : snapshot'[l] \in {snapshot[l], Available(l)},
             \A l \in Listings : Due(request[r], l, row) =>
                 snapshot'[l] = Available(l) \/ Due(q, l, row)
      PROVE  StockInv'
  <2>1. /\ \A i \in Items : item'[i] = "SOLD" <=> item[i] = "SOLD"
        /\ \A i \in Items : item'[i] = "ALLOCATED" => ListingOf[i] # NoListing
        /\ \A i \in Items : order'[OrderOf[i]] \in {"PENDING", "PAID", "FULFILLED"} =>
              \/ order[OrderOf[i]] \in {"PENDING", "PAID", "FULFILLED"}
              \/ InLoop(q) /\ i \in Left(q)
        /\ stock' = stock /\ row' = row /\ Working(q, Avail, item', row)
    BY <1>1, <1>3, <1>5
  <2>2. \A i \in Items : InLoop(request[r]) /\ i \in Left(request[r]) =>
              ListingOf[i] = NoListing \/ (InLoop(q) /\ i \in Left(q))
    BY <1>5
  <2> QED
    BY <1>2, <1>5, <2>1, <2>2, SameUnits
<1>6. CASE ReadFigures(r)
  <2>1. PICK l \in request[r].stale :
            Continue(r, "write", [request[r] EXCEPT !.at = l, !.figure = Available(l)])
    BY <1>6 DEF ReadFigures
  <2> DEFINE q == [[request[r] EXCEPT !.at = l, !.figure = Available(l)] EXCEPT !.step = "write"]
  <2>2. /\ q.step = "write" /\ q.task = request[r].task /\ q.todo = request[r].todo
        /\ q.staged = request[r].staged /\ q.stale = request[r].stale
        /\ q.draft = request[r].draft /\ q.at = l /\ q.figure = Available(l)
        /\ l \in Listings
    BY <1>1 DEF Request
  <2>3. request' = [request EXCEPT ![r] = q]
    BY <2>1 DEF Continue
  <2> HIDE DEF q
  <2>4. InLoop(q) = InLoop(request[r]) /\ Left(q) = Left(request[r])
    <3>1. CASE request[r].task = "order"
      BY <1>1, <2>2, <3>1 DEF InLoop, Left, Recalculating
    <3>2. CASE request[r].task # "order"
      BY <1>1, <2>2, <3>2 DEF InLoop, Left, Recalculating
    <3> QED
      BY <3>1, <3>2
  <2>5. Working(q, Avail, item, row)
    BY <1>1, <1>4, <2>1, <2>2, <2>4 DEF Working, Recalculating
  <2>6. /\ snapshot' = snapshot
        /\ \A k \in Listings : Due(request[r], k, row) => Due(q, k, row)
    BY <1>6, <2>2 DEF ReadFigures, Due
  <2> QED
    BY <1>5, <2>3, <2>4, <2>5, <2>6
<1>7. CASE WriteSnapshot(r)
  <2> DEFINE q == AfterWrite(request[r])
             rest == request[r].stale \ {request[r].at}
  <2>1. /\ request[r].step = "write" /\ request' = [request EXCEPT ![r] = q]
        /\ snapshot' = [snapshot EXCEPT ![request[r].at] = request[r].figure]
    BY <1>7 DEF WriteSnapshot
  <2>2. /\ request[r].at \in request[r].stale /\ request[r].figure = Available(request[r].at)
        /\ request[r].stale \subseteq Listings
    BY <1>1, <1>4, <2>1 DEF Working, Request
  <2>3. \A l \in Listings : /\ snapshot'[l] \in {snapshot[l], Available(l)}
                            /\ l = request[r].at => snapshot'[l] = Available(l)
    BY <1>1, <2>1, <2>2 DEF TypeOK
  <2>4. /\ q.task = request[r].task /\ q.stale = rest
        /\ q.step \in {"recalculate", "allocate", "release", "done"}
        /\ q.step # "recalculate" => rest = {}
        /\ q.step = "recalculate" =>
              /\ q.todo = request[r].todo /\ q.staged = request[r].staged
              /\ q.draft = request[r].draft
        /\ request[r].task = "order" /\ q.step # "recalculate" =>
              /\ q.step = "allocate" /\ q.todo = request[r].todo \ {request[r].draft.for}
              /\ q.staged = request[r].staged \cup {request[r].draft.for}
        /\ request[r].task # "order" => q.todo = request[r].todo
    BY <1>1 DEF AfterWrite, Request
  <2> HIDE DEF q, rest
  <2>5. request[r].task = "order" =>
          InLoop(q) /\ InLoop(request[r]) /\ Left(q) = Left(request[r])
    BY <1>1, <2>1, <2>4 DEF InLoop, Left, Recalculating
  <2>6. Working(q, Avail, item, row)
    <3>1. CASE request[r].task = "order"
      BY <1>1, <2>1, <2>4, <2>5, <3>1 DEF Working, Recalculating
    <3>2. CASE request[r].task # "order"
      BY <1>1, <2>1, <2>4, <3>2 DEF Working, InLoop, Recalculating
    <3> QED
      BY <3>1, <3>2
  <2>7. \A l \in Listings : Due(request[r], l, row) => snapshot'[l] = Available(l) \/ Due(q, l, row)
    <3> SUFFICES ASSUME NEW l \in Listings, Due(request[r], l, row), l # request[r].at
                 PROVE  Due(q, l, row)
      BY <2>3
    <3> QED
      BY <2>4 DEF Due, rest
  <2> QED
    BY <1>5, <2>1, <2>3, <2>5, <2>6, <2>7 DEF InLoop
<1> QED
  BY <1>6, <1>7

\* A change of status changes no units.
LEMMA StatusStock ==
    ASSUME Base, Base', StockInv, NEW r \in Requests, CommitStatus(r)
    PROVE  StockInv'
<1> DEFINE o == request[r].order
           t == request[r].task
           q == AfterStatus(request[r])
<1>1. /\ request[r] \in Request /\ request[r].step = "status" /\ TypeOK
      /\ request[r].step \in StepsOf(t) /\ t \in Tasks
      /\ Alone(request[r], order, item, row) /\ Sound(request[r], order, row)
      /\ Working(request[r], Avail, item, row)
      /\ UNCHANGED <<stock, snapshot, item, row>>
  BY DEF CommitStatus, Base, TypeInv, TypeOK, TaskSteps, Request, SerialInv, AllAlone,
         ReservedInv, AllSound, StockInv, AllWorking
<1>2. t \in {"paid", "cancel", "fulfil"}
  BY <1>1 DEF StepsOf, Recalculating, Tasks
<1>3. /\ <<order[o], Target(t)>> \in AllowedOrderTransitions /\ o \in Orders
      /\ request[r].stale = {} /\ request[r].todo = {}
  BY <1>1, <1>2 DEF Alone, Sound, Working, Recalculating
<1>4. /\ \A p \in Orders : p # o => order'[p] = order[p]
      /\ request' = [request EXCEPT ![r] = q]
  BY <1>1, <1>3 DEF CommitStatus, TypeOK
<1>5. /\ q.task = t /\ q.stale = {} /\ q.step \in {"done", "release", "sell"}
      /\ q.step = "sell" => q.todo = {}
  BY <1>1, <1>2, <1>3 DEF AfterStatus, Request
<1>6. ~InLoop(request[r]) /\ \A l \in Listings : ~Due(request[r], l, row)
  BY <1>2, <1>3 DEF InLoop, Due
<1>7. order[o] \in {"PENDING", "PAID"}
  BY <1>3 DEF AllowedOrderTransitions
<1>8. \A p \in Requests : p # r => request[p] = Idle
  BY <1>1, OthersIdle
<1> HIDE DEF q, o, t
<1>9. Working(q, Avail, item', row)
  BY <1>2, <1>5 DEF Working, InLoop, Recalculating
<1>10. /\ \A i \in Items : item'[i] = "SOLD" <=> item[i] = "SOLD"
       /\ \A i \in Items : item'[i] = "ALLOCATED" => ListingOf[i] # NoListing
       /\ \A i \in Items : order'[OrderOf[i]] \in {"PENDING", "PAID", "FULFILLED"} =>
              order[OrderOf[i]] \in {"PENDING", "PAID", "FULFILLED"}
  BY <1>1, <1>4, <1>7, MarketplaceAssumption DEF StockInv, AllocatedListed
<1> QED
  BY <1>1, <1>4, <1>6, <1>8, <1>9, <1>10, SameUnits

\* A sale takes the place of the reservations of its order.
LEMMA SellStock ==
    ASSUME Base, Base', StockInv, NEW r \in Requests, SellItems(r)
    PROVE  StockInv'
<1> DEFINE o == request[r].order
           q == [[request[r] EXCEPT !.todo = ItemsOf(o)] EXCEPT !.step = "release"]
<1>1. /\ request[r] \in Request /\ request[r].step = "sell" /\ request[r].task \in Tasks
      /\ request[r].step \in StepsOf(request[r].task) /\ TypeOK /\ TypeOK'
      /\ Alone(request[r], order, item, row) /\ Working(request[r], Avail, item, row)
      /\ UNCHANGED <<stock, snapshot, order, row>>
  BY DEF SellItems, Base, TypeInv, TypeOK, TaskSteps, Request, SerialInv, AllAlone,
         StockInv, AllWorking
<1>2. request[r].task = "fulfil"
  BY <1>1 DEF StepsOf, Recalculating, Tasks
<1>3. order[o] = "FULFILLED" /\ request[r].stale = {} /\ request[r].todo = {}
  BY <1>1, <1>2 DEF Alone, Working, Recalculating
<1>4. /\ q.task = "fulfil" /\ q.step = "release" /\ q.stale = {} /\ q.todo = ItemsOf(o)
  BY <1>1, <1>2, <1>3 DEF Request
<1>5. \A p \in Requests : p # r => request[p] = Idle
  BY <1>1, OthersIdle
<1>6. /\ request' = [request EXCEPT ![r] = q]
      /\ \A p \in Requests : request'[p] = IF p = r THEN q ELSE Idle
      /\ \A i \in Items : item'[i] = IF i \in ItemsOf(o) THEN "SOLD" ELSE item[i]
  BY <1>1, <1>5 DEF SellItems, Continue, TypeOK
<1> HIDE DEF q, o
<1>7. \A p \in Requests : ~InLoop(request[p])
  BY <1>2, <1>5 DEF InLoop, Idle
<1>8. \A i \in ItemsOf(o) : /\ i \in Items
                            /\ ListingOf[i] \in Listings => item[i] = "SOLD" \/ Reserved(i, row)
  BY <1>3, <1>7, MarketplaceAssumption DEF StockInv, Covered, ItemsOf
<1>9. ASSUME NEW l \in Listings
      PROVE  /\ (Cardinality(LiveUnits(l)) + Cardinality(SoldUnits(l)) <= stock[l])'
             /\ (\A i \in ItemsOf(o) : ListingOf[i] = l => item[i] = "SOLD")
                    => Available(l)' = Available(l)
  <2>1. \A i \in ItemsOf(o) : ListingOf[i] = l => item[i] = "SOLD" \/ Reserved(i, row)
    BY <1>8
  <2> QED
    BY <1>1, <1>6, <2>1, SoldReserved DEF StockInv, NeverOversold
<1>10. AllWorking'
  <2>1. Working(q, Avail', item', row')
    BY <1>4 DEF Working, InLoop, Recalculating
  <2> QED
    BY <1>5, <1>6, <2>1, OneWorking
<1>11. RowShape' /\ AllocatedListed' /\ NeverOversold'
  BY <1>1, <1>6, <1>9 DEF StockInv, RowShape, AllocatedListed, NeverOversold
<1>12. Covered'
  BY <1>1, <1>6, <1>7 DEF StockInv, Covered
<1>13. SnapshotsDue'
  <2> SUFFICES ASSUME NEW l \in Listings, ~Due(q, l, row)
               PROVE  snapshot[l] \in {NoSnapshot, Available(l)'}
    BY <1>1, <1>6 DEF SnapshotsDue
  <2>1. \A i \in ItemsOf(o) : ListingOf[i] = l => item[i] = "SOLD"
    BY <1>4, <1>8 DEF Due
  <2>2. ~Due(request[r], l, row)
    BY <1>3 DEF Due
  <2>3. snapshot[l] \in {NoSnapshot, Available(l)}
    BY <1>5, <2>2, KnownIsAvailable
  <2> QED
    BY <1>9, <2>1, <2>3
<1> QED
  BY <1>10, <1>11, <1>12, <1>13 DEF StockInv

\* A released row names an item that is sold or cancelled, and its listing is recalculated.
LEMMA ReleaseStock ==
    ASSUME Base, Base', StockInv, NEW r \in Requests, ReleaseRow(r)
    PROVE  StockInv'
<1>1. /\ request[r] \in Request /\ request[r].step = "release" /\ request[r].task \in Tasks
      /\ request[r].step \in StepsOf(request[r].task) /\ TypeOK /\ TypeOK'
      /\ Alone(request[r], order, item, row) /\ Working(request[r], Avail, item, row)
      /\ row \in [Rows -> Reservation]
      /\ UNCHANGED <<stock, snapshot, order>> /\ item' = Flushed(r)
  BY DEF ReleaseRow, Base, TypeInv, TypeOK, TaskSteps, Request, SerialInv, AllAlone,
         StockInv, AllWorking
<1>2. request[r].task \in {"cancel", "fulfil"}
  BY <1>1 DEF StepsOf, Recalculating, Tasks
<1>3. PICK i \in Items, x \in Rows :
          /\ First(i, request[r].todo)
          /\ row[x].status = "ACTIVE" /\ row[x].source = i
          /\ row' = [row EXCEPT ![x].status = "RELEASED"]
          /\ Continue(r, "recalculate", [request[r] EXCEPT
                 !.staged = {}, !.stale = {row[x].listing}])
  BY DEF ReleaseRow
<1> DEFINE q == [[request[r] EXCEPT !.staged = {}, !.stale = {row[x].listing}]
                    EXCEPT !.step = "recalculate"]
<1>4. /\ q.step = "recalculate" /\ q.task = request[r].task /\ q.todo = request[r].todo
      /\ q.stale = {row[x].listing}
  BY <1>1 DEF Request
<1>5. \A p \in Requests : p # r => request[p] = Idle
  BY <1>1, OthersIdle
<1>6. /\ request' = [request EXCEPT ![r] = q]
      /\ \A p \in Requests : request'[p] = IF p = r THEN q ELSE Idle
  BY <1>1, <1>3, <1>5 DEF Continue, TypeOK
<1> HIDE DEF q
<1>7. \A y \in Rows : /\ row'[y].for = row[y].for /\ row'[y].listing = row[y].listing
                      /\ row'[y].size = row[y].size /\ row'[y].source = row[y].source
                      /\ y # x => row'[y] = row[y]
                      /\ y = x => row'[y].status # "ACTIVE"
  BY <1>1, <1>3 DEF Reservation
<1>8. \A y \in Rows : row'[y].status = "ACTIVE" => row'[y] = row[y]
  BY <1>7
<1>9. /\ \A j \in Items : item'[j] = "SOLD" <=> item[j] = "SOLD"
      /\ \A j \in Items : item'[j] = "ALLOCATED" => ListingOf[j] # NoListing
  <2>1. \A j \in Items : item[j] = "SOLD" => item'[j] = "SOLD"
    BY <1>1, FlushFollows
  <2>2. \A j \in Items : item'[j] \in {item[j], StagedStatus(request[r].task)}
    BY <1>1 DEF Flushed
  <2>3. StagedStatus(request[r].task) = "RELEASED"
    BY <1>2 DEF StagedStatus
  <2> QED
    BY <2>1, <2>2, <2>3 DEF StockInv, AllocatedListed
<1>10. /\ i \in request[r].todo
       /\ row[x].for \in Items => row[x].for = i /\ row[x].listing = ListingOf[i]
  BY <1>3 DEF First, StockInv, RowShape
<1>11. item[i] = "SOLD" \/ order[OrderOf[i]] = "CANCELLED"
  BY <1>1, <1>2, <1>10 DEF Alone, Settling, ItemsOf
<1>12. \A j \in Items : Reserved(j, row) =>
          Reserved(j, row') \/ (j = i /\ row[x].listing = ListingOf[j])
  BY <1>7, <1>10 DEF Reserved
<1>13. AllWorking'
  <2>1. Working(q, Avail', item', row')
    BY <1>2, <1>4 DEF Working, InLoop, Recalculating
  <2> QED
    BY <1>5, <1>6, <2>1, OneWorking
<1>14. RowShape' /\ AllocatedListed'
  BY <1>7, <1>9 DEF StockInv, RowShape, AllocatedListed
<1>15. NeverOversold'
  BY <1>1, <1>8, <1>9, FewerRows DEF StockInv, NeverOversold
<1>16. Covered'
  <2>1. \A p \in Requests : ~InLoop(request[p])
    BY <1>2, <1>5 DEF InLoop, Idle
  <2> QED
    BY <1>1, <1>9, <1>11, <1>12, <2>1 DEF StockInv, Covered
<1>17. SnapshotsDue'
  <2> SUFFICES ASSUME NEW l \in Listings, ~Due(q, l, row')
               PROVE  snapshot[l] \in {NoSnapshot, Available(l)'}
    BY <1>1, <1>6 DEF SnapshotsDue
  <2>1. l # row[x].listing
    BY <1>4 DEF Due
  <2>2. ~Due(request[r], l, row)
    BY <1>1, <1>4, <1>12, <2>1 DEF Due, Working, Recalculating, Request
  <2>3. snapshot[l] \in {NoSnapshot, Available(l)}
    BY <1>5, <2>2, KnownIsAvailable
  <2>4. \A y \in Rows : row[y].status = "ACTIVE" /\ row[y].listing = l => row'[y].status = "ACTIVE"
    BY <1>7, <2>1
  <2>5. Available(l)' = Available(l)
    BY <1>1, <1>8, <1>9, <2>4, FewerRows
  <2> QED
    BY <2>3, <2>5
<1> QED
  BY <1>13, <1>14, <1>15, <1>16, <1>17 DEF StockInv

\* A loop ends, or passes an item, with no row of it left.
LEMMA SettleStock ==
    ASSUME Base, Base', StockInv, NEW r \in Requests, ReleaseItem(r) \/ FinishItems(r)
    PROVE  StockInv'
<1>1. /\ request[r] \in Request /\ request[r].step \in {"allocate", "release"}
      /\ request[r].step \in StepsOf(request[r].task) /\ request[r].task \in Tasks /\ TypeOK
      /\ Alone(request[r], order, item, row) /\ Working(request[r], Avail, item, row)
      /\ UNCHANGED <<stock, snapshot, order, row>>
  BY DEF ReleaseItem, FinishItems, Base, TypeInv, TypeOK, TaskSteps, Request, SerialInv, AllAlone,
         StockInv, AllWorking
<1>2. \A p \in Requests : p # r => request[p] = Idle
  BY <1>1, OthersIdle
<1>3. ASSUME NEW q, request' = [request EXCEPT ![r] = q], Working(q, Avail, item', row),
             \A i \in Items : item'[i] = "SOLD" <=> item[i] = "SOLD",
             \A i \in Items : item'[i] = "ALLOCATED" => ListingOf[i] # NoListing,
             \A i \in Items : ~(InLoop(request[r]) /\ i \in Left(request[r])),
             \A l \in Listings : Due(request[r], l, row) => Due(q, l, row)
      PROVE  StockInv'
  <2>1. /\ \A i \in Items : order'[OrderOf[i]] \in {"PENDING", "PAID", "FULFILLED"} =>
              order[OrderOf[i]] \in {"PENDING", "PAID", "FULFILLED"}
        /\ stock' = stock /\ row' = row
        /\ \A l \in Listings : snapshot'[l] \in {snapshot[l], Available(l)}
    BY <1>1
  <2> QED
    BY <1>2, <1>3, <2>1, SameUnits
<1>4. CASE ReleaseItem(r)
  <2>1. PICK i \in Items :
            /\ \A x \in Rows : row[x].source = i => row[x].status # "ACTIVE"
            /\ Continue(r, "release", [request[r] EXCEPT
                 !.todo = @ \ {i},
                 !.staged = IF item[i] \in {"SOLD", "RELEASED"} THEN @ ELSE @ \cup {i}])
    BY <1>4 DEF ReleaseItem
  <2> DEFINE q == [[request[r] EXCEPT
                 !.todo = @ \ {i},
                 !.staged = IF item[i] \in {"SOLD", "RELEASED"} THEN @ ELSE @ \cup {i}]
                      EXCEPT !.step = "release"]
  <2>2. request[r].task \in {"cancel", "fulfil"} /\ request[r].step = "release"
    BY <1>1, <1>4 DEF ReleaseItem, StepsOf, Recalculating, Tasks
  <2>3. /\ q.task = request[r].task /\ q.step = "release" /\ q.stale = request[r].stale
        /\ q.todo = request[r].todo \ {i}
    BY <1>1 DEF Request
  <2>4. request' = [request EXCEPT ![r] = q] /\ item' = item
    BY <1>4, <2>1 DEF ReleaseItem, Continue
  <2> HIDE DEF q
  <2>5. Working(q, Avail, item', row)
    BY <1>1, <2>2, <2>3 DEF Working, InLoop, Recalculating
  <2>6. ~Reserved(i, row)
    BY <2>1 DEF Reserved, StockInv, RowShape
  <2>7. \A l \in Listings : Due(request[r], l, row) => Due(q, l, row)
    BY <2>3, <2>6 DEF Due
  <2> QED
    BY <1>3, <2>2, <2>4, <2>5, <2>7 DEF InLoop, StockInv, AllocatedListed
<1>5. CASE FinishItems(r)
  <2> DEFINE q == [[request[r] EXCEPT !.staged = {}] EXCEPT !.step = "done"]
  <2>1. /\ q.task = request[r].task /\ q.step = "done" /\ q.stale = request[r].stale
        /\ q.staged = {} /\ q.todo = {} /\ request[r].todo = {}
    BY <1>1, <1>5 DEF FinishItems, Request
  <2>2. request' = [request EXCEPT ![r] = q] /\ item' = Flushed(r)
    BY <1>5 DEF FinishItems, Continue
  <2> HIDE DEF q
  <2>3. request[r].task \in {"order", "cancel", "fulfil"} /\ request[r].stale = {}
    BY <1>1 DEF StepsOf, Recalculating, Tasks, Working
  <2>4. request[r].task = "order" => request[r].step = "allocate"
    BY <1>1 DEF StepsOf, Recalculating
  <2>5. Left(q) = {} /\ Left(request[r]) = {}
    BY <1>1, <2>1 DEF Left, Recalculating
  <2>6. Working(q, Avail, item', row)
    BY <1>1, <2>1, <2>3, <2>4, <2>5 DEF Working, InLoop, Recalculating
  <2>7. /\ \A i \in Items : item'[i] = "SOLD" <=> item[i] = "SOLD"
        /\ \A i \in Items : item'[i] = "ALLOCATED" => ListingOf[i] # NoListing
    <3>1. \A i \in Items : item[i] = "SOLD" => item'[i] = "SOLD"
      BY <1>1, <2>2, FlushFollows
    <3>2. \A i \in Items : item'[i] = IF i \in request[r].staged THEN StagedStatus(request[r].task)
                                                              ELSE item[i]
      BY <2>2 DEF Flushed
    <3>3. /\ StagedStatus(request[r].task) # "SOLD"
          /\ StagedStatus(request[r].task) = "ALLOCATED" => request[r].task = "order"
      BY DEF StagedStatus
    <3>4. request[r].task = "order" => \A i \in request[r].staged : ListingOf[i] # NoListing
      BY <1>1, <2>4 DEF Working, InLoop
    <3> QED
      BY <3>1, <3>2, <3>3, <3>4 DEF StockInv, AllocatedListed
  <2>8. \A l \in Listings : ~Due(request[r], l, row)
    BY <2>1, <2>3 DEF Due
  <2> QED
    BY <1>3, <2>2, <2>5, <2>6, <2>7, <2>8
<1> QED
  BY <1>4, <1>5

\* A request ends with nothing to do.
LEMMA EndStock ==
    ASSUME Base, Base', StockInv, NEW r \in Requests, RefuseOrder(r) \/ Answer(r)
    PROVE  StockInv'
<1>1. /\ request[r] \in Request /\ request[r].step \in {"create", "done"}
      /\ request[r].step \in StepsOf(request[r].task) /\ request[r].task \in Tasks
      /\ Alone(request[r], order, item, row) /\ Working(request[r], Avail, item, row)
      /\ UNCHANGED <<stock, order, item, row>> /\ request' = [request EXCEPT ![r] = Idle]
  BY DEF RefuseOrder, Answer, Abandon, Base, TypeInv, TypeOK, TaskSteps, Request,
         SerialInv, AllAlone, StockInv, AllWorking
<1>2. /\ request[r].stale = {}
      /\ request[r].step = "create" => request[r].task = "order"
      /\ request[r].task \in {"order", "fulfil"} /\ request[r].step = "done" => request[r].todo = {}
  BY <1>1 DEF Working, Alone, StepsOf, Recalculating, Tasks
<1>3. /\ \A l \in Listings : ~Due(request[r], l, row)
      /\ \A i \in Items : ~(InLoop(request[r]) /\ i \in Left(request[r]))
  BY <1>1, <1>2 DEF Due, InLoop, Left, Recalculating
<1>4. \A p \in Requests : p # r => request[p] = Idle
  BY <1>1, OthersIdle
<1>5. \A l \in Listings : Known(l) = Available(l)
  BY <1>3, <1>4, KnownIsAvailable
<1>6. \A l \in Listings : snapshot'[l] \in {snapshot[l], Available(l)}
  BY <1>5 DEF RefuseOrder, Answer, KnownIn
<1>7. Working(Idle, Avail, item', row)
  BY DEF Working, InLoop, Idle, Recalculating
<1>8. /\ \A i \in Items : item'[i] = "SOLD" <=> item[i] = "SOLD"
      /\ \A i \in Items : item'[i] = "ALLOCATED" => ListingOf[i] # NoListing
      /\ \A i \in Items : order'[OrderOf[i]] \in {"PENDING", "PAID", "FULFILLED"} =>
             order[OrderOf[i]] \in {"PENDING", "PAID", "FULFILLED"}
  BY <1>1 DEF StockInv, AllocatedListed
<1> QED
  BY <1>1, <1>3, <1>4, <1>6, <1>7, <1>8, SameUnits

-----------------------------------------------------------------------------
(* The theorems                                                             *)

\* Every step keeps the invariant.
LEMMA StockStep ==
    ASSUME Faults = {}, Base, Base', StockInv, [Next]_vars
    PROVE  StockInv'
<1>1. ASSUME NEW r \in Requests, Begin(r) \/ Advance(r)
      PROVE  StockInv'
  BY <1>1, BeginStock, CreateStock, AllocateStock, ReserveStock, RecalculateStock,
     StatusStock, SellStock, ReleaseStock, SettleStock, EndStock DEF Advance
<1>2. ASSUME UNCHANGED <<stock, order, item, row, request>>,
             \A l \in Listings : snapshot'[l] \in {snapshot[l], Available(l)}
      PROVE  StockInv'
  <2>1. /\ \A l \in Listings : Available(l)' = Available(l)
        /\ \A l : LiveUnits(l)' = LiveUnits(l) /\ SoldUnits(l)' = SoldUnits(l)
    BY <1>2 DEF Available, ActiveUnits, SoldUnits, LiveUnits
  <2>2. Avail' = Avail
    BY <2>1 DEF Avail
  <2> QED
    BY <1>2, <2>1, <2>2 DEF StockInv, AllWorking, RowShape, Covered, AllocatedListed,
                            SnapshotsDue, NeverOversold
<1>3. ASSUME NEW l \in Listings, ReadAvailability(l)
      PROVE  StockInv'
  <2>1. \A k \in Listings : snapshot'[k] \in {snapshot[k], Available(k)}
    BY <1>3 DEF ReadAvailability, KnownIn, Known
  <2> QED
    BY <1>2, <1>3, <2>1 DEF ReadAvailability
<1>4. CASE UNCHANGED vars
  BY <1>2, <1>4 DEF vars
<1> QED
  BY <1>1, <1>3, <1>4 DEF Next, Crash, Restock

\* The invariant holds at first.
LEMMA InitStock == Init => StockInv
<1> SUFFICES ASSUME Init PROVE StockInv
  OBVIOUS
<1>1. \A r \in Requests : Working(request[r], Avail, item, row)
  BY DEF Init, Working, InLoop, Idle, Recalculating
<1>2. RowShape /\ Covered /\ AllocatedListed /\ SnapshotsDue
  BY MarketplaceAssumption
     DEF Init, RowShape, Covered, AllocatedListed, SnapshotsDue, NoRow
<1>3. NeverOversold
  <2> SUFFICES ASSUME NEW l \in Listings
               PROVE  Cardinality(LiveUnits(l)) + Cardinality(SoldUnits(l)) <= stock[l]
    BY DEF NeverOversold
  <2>1. LiveUnits(l) = {} /\ SoldUnits(l) = {}
    BY DEF Init, LiveUnits, ActiveUnits, SoldUnits, NoRow
  <2>2. stock[l] \in Nat
    BY MarketplaceAssumption DEF Init
  <2> QED
    BY <2>1, <2>2, FS_EmptySet
<1> QED
  BY <1>1, <1>2, <1>3 DEF StockInv, AllWorking

\* Every undisturbed behaviour keeps the invariant.
LEMMA StockInvariant ==
    ASSUME Faults = {}
    PROVE  Spec => [](Base /\ StockInv)
<1>1. "overlap" \notin Faults
  OBVIOUS
<1>2. Spec => []Base
  BY <1>1, SerialInvariant, PTL
<1>3. Base /\ Base' /\ StockInv /\ [Next]_vars => StockInv'
  BY StockStep
<1> QED
  BY <1>2, <1>3, InitStock, PTL DEF Spec

\* Undisturbed, no more of a listing is reserved and sold than there is.
THEOREM NeverOversoldUndisturbed ==
    ASSUME Faults = {}
    PROVE  Spec => []NeverOversold
<1>1. StockInv => NeverOversold
  BY DEF StockInv
<1> QED
  BY <1>1, StockInvariant, PTL

\* Undisturbed, the newest snapshot says between requests what is available.
THEOREM SnapshotTrueUndisturbed ==
    ASSUME Faults = {}
    PROVE  Spec => []SnapshotTrue
<1>1. StockInv => SnapshotTrue
  BY DEF StockInv, SnapshotsDue, SnapshotTrue, Quiet, Due, Idle
<1> QED
  BY <1>1, StockInvariant, PTL

\* Undisturbed, an allocated item of an open order has its reservation.
THEOREM OpenOrderBackedUndisturbed ==
    ASSUME Faults = {}
    PROVE  Spec => []OpenOrderBacked
<1>1. TypeOK /\ StockInv => OpenOrderBacked
  <2> SUFFICES ASSUME TypeOK, StockInv, NEW i \in Items, item[i] = "ALLOCATED",
                      order[OrderOf[i]] \in {"PENDING", "PAID"}
               PROVE  \E x \in Rows : Backs(x, i)
    BY DEF OpenOrderBacked
  <2>1. Reserved(i, row)
    <3>1. ASSUME NEW p \in Requests, InLoop(request[p])
          PROVE  i \notin Left(request[p])
      BY <3>1 DEF StockInv, AllWorking, Working, Left
    <3> QED
      BY <3>1 DEF StockInv, Covered, AllocatedListed
  <2>2. PICK x \in Rows : row[x].for = i /\ row[x].status = "ACTIVE"
    BY <2>1 DEF Reserved
  <2>3. /\ row[x].listing = ListingOf[i] /\ row[x].size = Quantity[i] /\ row[x].source = i
        /\ row[x] \in Reservation
    BY <2>2 DEF StockInv, RowShape, TypeOK
  <2>4. row[x] = Draft(i, ListingOf[i], Quantity[i])
    BY <2>2, <2>3 DEF Reservation, Draft
  <2> QED
    BY <2>4 DEF Backs
<1>2. Base => TypeOK
  BY DEF Base, TypeInv
<1> QED
  BY <1>1, <1>2, StockInvariant, PTL

-----------------------------------------------------------------------------
(* The claims of the buyers                                                 *)

ItemClaim(i) == [by |-> <<"item", i>>, listing |-> ListingOf[i], units |-> Quantity[i],
                 sold |-> item[i] = "SOLD"]

HoldClaim(x) == [by |-> <<"hold", x>>, listing |-> row[x].listing, units |-> row[x].size,
                 sold |-> FALSE]

Claimed(i) == ListingOf[i] # NoListing /\ (item[i] = "SOLD" \/ Reserved(i, row))

Held(x) == row[x].for = NoItem /\ row[x].status = "ACTIVE"

\* The claims are those of the items and those of the direct reservations.
LEMMA ClaimsAre ==
    Claims = {ItemClaim(i) : i \in {j \in Items : Claimed(j)}}
                 \cup {HoldClaim(x) : x \in {y \in Rows : Held(y)}}
  BY DEF Claims, ItemClaim, HoldClaim, Claimed, Held, Reserved

\* So are those after a step.
LEMMA ClaimsNext ==
    Claims' = {ItemClaim(i)' : i \in {j \in Items : Claimed(j)'}}
                  \cup {HoldClaim(x)' : x \in {y \in Rows : Held(y)'}}
  BY DEF Claims, ItemClaim, HoldClaim, Claimed, Held, Reserved

\* The ledger counts as this module does.
LEMMA CountsAlike == \A S : Stock!Cardinality(S) = Cardinality(S)
  BY DEF Stock!Cardinality, Cardinality

\* A function has no more values than arguments.
LEMMA ImageSize ==
    ASSUME NEW S, IsFiniteSet(S), NEW f, f = [u \in S |-> f[u]]
    PROVE  /\ IsFiniteSet({f[u] : u \in S})
           /\ Cardinality({f[u] : u \in S}) <= Cardinality(S)
<1> DEFINE T == {f[u] : u \in S}
<1>1. f \in Surjection(S, T)
  BY DEF Surjection
<1> QED
  BY <1>1, FS_Surjection

\* A claim that is not sold stands for an active reservation and a sold one
\* for a sold item, so the claims on a listing take no more units than the
\* availability counts.
LEMMA ClaimedUnits ==
    ASSUME TypeOK, RowShape, NEW l \in Listings
    PROVE  /\ Cardinality(Stock!UnitsTaken(l)) \in Nat
           /\ Cardinality(Stock!UnitsTaken(l))
                <= Cardinality(ActiveUnits(l)) + Cardinality(SoldUnits(l))
<1> DEFINE ClaimOf(x) == IF row[x].for = NoItem THEN HoldClaim(x)
                                                     ELSE ItemClaim(row[x].for)
           f == [u \in ActiveUnits(l) |-> <<ClaimOf(u[1]), u[2]>>]
           g == [u \in SoldUnits(l) |-> <<ItemClaim(u[1]), u[2]>>]
           F == {f[u] : u \in ActiveUnits(l)}
           G == {g[u] : u \in SoldUnits(l)}
<1>1. /\ IsFiniteSet(ActiveUnits(l)) /\ IsFiniteSet(SoldUnits(l))
      /\ Cardinality(ActiveUnits(l)) \in Nat /\ Cardinality(SoldUnits(l)) \in Nat
  BY UnitsFinite
<1>2. /\ IsFiniteSet(F) /\ Cardinality(F) <= Cardinality(ActiveUnits(l))
      /\ IsFiniteSet(G) /\ Cardinality(G) <= Cardinality(SoldUnits(l))
  <2>1. f = [u \in ActiveUnits(l) |-> f[u]] /\ g = [u \in SoldUnits(l) |-> g[u]]
    OBVIOUS
  <2> HIDE DEF f, g
  <2> QED
    BY <1>1, <2>1, ImageSize
<1>3. Stock!UnitsTaken(l) \subseteq F \cup G
  <2>1. ASSUME NEW c \in Claims, NEW n \in Units, c.listing = l, n <= c.units
        PROVE  <<c, n>> \in F \cup G
    <3>1. CASE \E i \in Items : Claimed(i) /\ c = ItemClaim(i)
      <4>1. PICK i \in Items : Claimed(i) /\ c = ItemClaim(i)
        BY <3>1
      <4>2. ListingOf[i] = l /\ n <= Quantity[i]
        BY <2>1, <4>1 DEF ItemClaim
      <4>3. CASE item[i] = "SOLD"
        <5>1. <<i, n>> \in SoldUnits(l)
          BY <4>2, <4>3 DEF SoldUnits
        <5>2. g[<<i, n>>] = <<c, n>>
          BY <4>1, <5>1
        <5> QED
          BY <5>1, <5>2
      <4>4. CASE item[i] # "SOLD"
        <5>1. PICK x \in Rows : row[x].for = i /\ row[x].status = "ACTIVE"
          BY <4>1, <4>4 DEF Claimed, Reserved
        <5>2. row[x].listing = l /\ row[x].size = Quantity[i]
          BY <4>2, <5>1 DEF RowShape
        <5>3. <<x, n>> \in ActiveUnits(l)
          BY <4>2, <5>1, <5>2 DEF ActiveUnits
        <5>4. ClaimOf(x) = c
          BY <4>1, <5>1, MarketplaceAssumption
        <5>5. f[<<x, n>>] = <<c, n>>
          BY <5>3, <5>4
        <5> QED
          BY <5>3, <5>5
      <4> QED
        BY <4>3, <4>4
    <3>2. CASE \E x \in Rows : Held(x) /\ c = HoldClaim(x)
      <4>1. PICK x \in Rows : Held(x) /\ c = HoldClaim(x)
        BY <3>2
      <4>2. row[x].listing = l /\ n <= row[x].size
        BY <2>1, <4>1 DEF HoldClaim
      <4>3. <<x, n>> \in ActiveUnits(l)
        BY <4>1, <4>2 DEF ActiveUnits, Held
      <4>4. f[<<x, n>>] = <<c, n>>
        BY <4>1, <4>3 DEF Held
      <4> QED
        BY <4>3, <4>4
    <3> QED
      BY <2>1, <3>1, <3>2, ClaimsAre
  <2>2. ASSUME NEW u \in Stock!UnitsTaken(l)
        PROVE  u \in F \cup G
    <3>1. PICK c \in Claims, n \in Units : u = <<c, n>> /\ c.listing = l /\ n <= c.units
      BY <2>2 DEF Stock!UnitsTaken, Units
    <3> QED
      BY <2>1, <3>1
  <2> QED
    BY <2>2
<1> HIDE DEF F, G
<1>4. /\ IsFiniteSet(F \cup G) /\ Cardinality(F \cup G) \in Nat
      /\ Cardinality(F \cup G) <= Cardinality(F) + Cardinality(G)
      /\ Cardinality(F) \in Nat /\ Cardinality(G) \in Nat
  BY <1>2, Sizes
<1>5. /\ Cardinality(Stock!UnitsTaken(l)) \in Nat
      /\ Cardinality(Stock!UnitsTaken(l)) <= Cardinality(F \cup G)
  BY <1>3, <1>4, FS_Subset, FS_CardinalityType
<1> QED
  BY <1>1, <1>2, <1>4, <1>5

\* Where no item is sold and rows only end, claims are withdrawn or stay.
LEMMA ClaimsWithdrawn ==
    ASSUME TypeOK, \A i \in Items : item'[i] = "SOLD" <=> item[i] = "SOLD",
           \A x \in Rows : row'[x].status = "ACTIVE" => row'[x] = row[x]
    PROVE  \E cs \in SUBSET Claims : Stock!Withdraw(cs)
<1>1. ASSUME NEW i \in Items
      PROVE  /\ ItemClaim(i)' = ItemClaim(i)
             /\ Claimed(i)' => Claimed(i)
             /\ item[i] = "SOLD" => (Claimed(i) => Claimed(i)')
  <2>1. Reserved(i, row') => Reserved(i, row)
    BY DEF Reserved
  <2> QED
    BY <2>1 DEF ItemClaim, Claimed
<1>2. ASSUME NEW x \in Rows, Held(x)'
      PROVE  HoldClaim(x)' = HoldClaim(x) /\ Held(x)
  BY <1>2 DEF Held, HoldClaim
<1>3. Claims' = {ItemClaim(i)' : i \in {j \in Items : Claimed(j)'}}
                    \cup {HoldClaim(x)' : x \in {y \in Rows : Held(y)'}}
  BY ClaimsNext
<1>4. Claims' \subseteq Claims
  BY <1>1, <1>2, <1>3, ClaimsAre
<1>5. ASSUME NEW c \in Claims, c.sold
      PROVE  c \in Claims'
  <2>1. PICK i \in Items : Claimed(i) /\ c = ItemClaim(i)
    BY <1>5, ClaimsAre DEF HoldClaim
  <2>2. item[i] = "SOLD"
    BY <1>5, <2>1 DEF ItemClaim
  <2> QED
    BY <1>1, <1>3, <2>1, <2>2
<1> DEFINE cs == Claims \ Claims'
<1>6. \A c \in cs : ~c.sold
  BY <1>5
<1>7. Claims' = Claims \ cs
  BY <1>4
<1>8. cs \in SUBSET Claims
  OBVIOUS
<1> HIDE DEF cs
<1>9. Stock!Withdraw(cs)
  BY <1>6, <1>7 DEF Stock!Withdraw
<1> QED
  BY <1>8, <1>9

\* A reservation takes a claim nobody has, with room for it.
LEMMA ReserveTakes ==
    ASSUME Base, Base', StockInv, stock = InitialStock, NEW r \in Requests, Reserve(r)
    PROVE  \E c \in Claims' \ Claims : Stock!Take(c.by, c.listing, c.units)
<1> DEFINE d == request[r].draft
           s == d.for
<1>1. /\ request[r] \in Request /\ request[r].step = "reserve" /\ request[r].task \in Tasks
      /\ request[r].step \in StepsOf(request[r].task) /\ TypeOK
      /\ Alone(request[r], order, item, row) /\ Sound(request[r], order, row)
      /\ Working(request[r], Avail, item, row) /\ d \in Reservation
      /\ d.listing \in Listings /\ RowShape
  BY DEF Reserve, Base, TypeInv, TypeOK, TaskSteps, Request, SerialInv, AllAlone,
         ReservedInv, AllSound, StockInv, AllWorking, RowsListed
<1>2. request[r].task \in {"order", "hold"}
  BY <1>1 DEF StepsOf, Recalculating, Tasks
<1>3. PICK x \in Rows : row[x] = NoRow /\ row' = [row EXCEPT ![x] = d]
  BY DEF Reserve, First
<1>4. /\ d.status = "ACTIVE" /\ d.size \in 1..Avail[d.listing]
      /\ request[r].task = "order" =>
            /\ d = Draft(s, ListingOf[s], Quantity[s]) /\ s \in Items
            /\ item[s] = "PENDING" /\ ~Reserved(s, row)
      /\ request[r].task = "hold" => s = NoItem
  BY <1>1 DEF Working, InLoop, Left, Recalculating, Sound, Request, Reserved
<1> HIDE DEF d
<1>5. request[r].task = "order" =>
        ListingOf[s] = d.listing /\ Quantity[s] = d.size /\ s # NoItem
  <2> SUFFICES ASSUME request[r].task = "order"
               PROVE  ListingOf[s] = d.listing /\ Quantity[s] = d.size /\ s # NoItem
    OBVIOUS
  <2> HIDE DEF s
  <2>1. d = Draft(s, ListingOf[s], Quantity[s]) /\ s \in Items
    BY <1>4 DEF s
  <2> QED
    BY <2>1, MarketplaceAssumption DEF Draft
<1>6. \A y \in Rows : row'[y] = IF y = x THEN d ELSE row[y]
  BY <1>1, <1>3 DEF TypeOK
<1>7. \A i \in Items : item'[i] = "SOLD" <=> item[i] = "SOLD"
  <2>1. \A i \in Items : item[i] = "SOLD" => item'[i] = "SOLD"
    BY <1>1, FlushFollows DEF Reserve
  <2>2. StagedStatus(request[r].task) # "SOLD"
    BY DEF StagedStatus
  <2> QED
    BY <2>1, <2>2 DEF Reserve, Flushed
<1>8. NoRow.status # "ACTIVE"
  BY DEF NoRow
<1>9. \A i \in Items : /\ ItemClaim(i)' = ItemClaim(i)
                       /\ Claimed(i)' <=> Claimed(i) \/ (i = s /\ d.listing = ListingOf[i])
  <2> TAKE i \in Items
  <2>1. Reserved(i, row') <=> Reserved(i, row) \/ i = s
    BY <1>3, <1>4, <1>6, <1>8 DEF Reserved
  <2>2. i = s => request[r].task = "order" /\ ListingOf[i] = d.listing
    BY <1>2, <1>4, <1>5, MarketplaceAssumption
  <2>3. ListingOf[i] = d.listing => ListingOf[i] # NoListing
    BY <1>1, MarketplaceAssumption
  <2> QED
    BY <1>7, <2>1, <2>2, <2>3 DEF ItemClaim, Claimed
<1>10. \A y \in Rows : /\ Held(y)' <=> Held(y) \/ (y = x /\ s = NoItem)
                       /\ Held(y) => HoldClaim(y)' = HoldClaim(y)
  BY <1>3, <1>4, <1>6, <1>8 DEF Held, HoldClaim
<1>11. Claims' = {ItemClaim(i)' : i \in {j \in Items : Claimed(j)'}}
                    \cup {HoldClaim(y)' : y \in {z \in Rows : Held(z)'}}
  BY ClaimsNext
<1>12. ASSUME NEW c, Claims' = Claims \cup {c},
              c = [by |-> c.by, listing |-> d.listing, units |-> d.size, sold |-> FALSE],
              \A b \in Claims : b.by # c.by
       PROVE  \E b \in Claims' \ Claims : Stock!Take(b.by, b.listing, b.units)
  <2>1. /\ d.size \in Nat /\ Avail[d.listing] = Available(d.listing)
        /\ d.size # 0 /\ d.size <= Available(d.listing)
    BY <1>1, <1>4, AvailableType DEF Avail
  <2>2. /\ Cardinality(ActiveUnits(d.listing)) \in Nat
        /\ Cardinality(SoldUnits(d.listing)) \in Nat
        /\ InitialStock[d.listing] \in Nat
    BY <1>1, UnitsFinite, MarketplaceAssumption
  <2>3. d.size + Cardinality(ActiveUnits(d.listing)) + Cardinality(SoldUnits(d.listing))
           <= InitialStock[d.listing]
    BY <1>1, <2>1, AvailableIs
  <2>4. Cardinality(Stock!UnitsTaken(d.listing)) + d.size <= InitialStock[d.listing]
    BY <1>1, <2>1, <2>2, <2>3, ClaimedUnits
  <2>5. c.listing = d.listing /\ c.units = d.size
    BY <1>12
  <2>6. Stock!HasRoom(c)
    BY <2>4, <2>5, CountsAlike DEF Stock!HasRoom
  <2>7. c \in Claims' \ Claims
    BY <1>12
  <2>8. Stock!Take(c.by, c.listing, c.units)
    BY <1>12, <2>5, <2>6 DEF Stock!Take
  <2> QED
    BY <2>7, <2>8
<1>13. CASE request[r].task = "order"
  <2> DEFINE c == ItemClaim(s)
  <2>1. s \in Items /\ ~Claimed(s) /\ s # NoItem
    BY <1>4, <1>5, <1>13 DEF Claimed
  <2>2. Claims' = Claims \cup {c}
    <3>1. {j \in Items : Claimed(j)'} = {j \in Items : Claimed(j)} \cup {s}
      BY <1>5, <1>9, <1>13, <2>1
    <3>2. {z \in Rows : Held(z)'} = {z \in Rows : Held(z)}
      BY <1>10, <2>1
    <3> QED
      BY <1>9, <1>10, <1>11, <3>1, <3>2, ClaimsAre
  <2>3. c = [by |-> c.by, listing |-> d.listing, units |-> d.size, sold |-> FALSE]
    BY <1>4, <1>5, <1>13 DEF ItemClaim
  <2>4. \A b \in Claims : b.by # c.by
    BY <2>1, ClaimsAre DEF ItemClaim, HoldClaim
  <2> HIDE DEF c
  <2> QED
    BY <1>12, <2>2, <2>3, <2>4
<1>14. CASE request[r].task = "hold"
  <2> DEFINE c == HoldClaim(x)'
  <2>1. s = NoItem /\ ~Held(x)
    BY <1>3, <1>4, <1>8, <1>14 DEF Held
  <2>2. Claims' = Claims \cup {c}
    <3>1. {j \in Items : Claimed(j)'} = {j \in Items : Claimed(j)}
      BY <1>9, <2>1, MarketplaceAssumption
    <3>2. {z \in Rows : Held(z)'} = {z \in Rows : Held(z)} \cup {x}
      BY <1>10, <2>1
    <3> QED
      BY <1>9, <1>10, <1>11, <3>1, <3>2, ClaimsAre
  <2>3. c = [by |-> c.by, listing |-> d.listing, units |-> d.size, sold |-> FALSE]
    BY <1>6 DEF HoldClaim
  <2>4. c.by = <<"hold", x>>
    BY DEF HoldClaim
  <2>5. \A b \in Claims : b.by # <<"hold", x>>
    BY <2>1, ClaimsAre DEF ItemClaim, HoldClaim
  <2> HIDE DEF c
  <2> QED
    BY <1>12, <2>2, <2>3, <2>4, <2>5
<1> QED
  BY <1>2, <1>13, <1>14

\* A fulfilment sells the claims of its order, and every item of it has one.
LEMMA SaleSells ==
    ASSUME Base, StockInv, NEW r \in Requests, SellItems(r)
    PROVE  \E cs \in SUBSET Claims : Stock!Sell(cs)
<1> DEFINE o == request[r].order
           cs == {ItemClaim(i) : i \in {j \in ItemsOf(o) : Claimed(j)}}
<1>1. /\ request[r] \in Request /\ request[r].step = "sell" /\ request[r].task \in Tasks
      /\ request[r].step \in StepsOf(request[r].task) /\ TypeOK
      /\ Alone(request[r], order, item, row) /\ row' = row
  BY DEF SellItems, Base, TypeInv, TypeOK, TaskSteps, Request, SerialInv, AllAlone
<1>2. request[r].task = "fulfil" /\ order[o] = "FULFILLED"
  BY <1>1 DEF StepsOf, Recalculating, Tasks, Alone
<1>3. \A p \in Requests : ~InLoop(request[p])
  BY <1>1, <1>2, OthersIdle DEF InLoop, Idle
<1>4. \A i \in Items : item'[i] = IF i \in ItemsOf(o) THEN "SOLD" ELSE item[i]
  BY DEF SellItems
<1> HIDE DEF o
<1>5. ItemsOf(o) \subseteq Items
        /\ \A i \in ItemsOf(o) : ListingOf[i] # NoListing => Claimed(i)
  BY <1>2, <1>3 DEF StockInv, Covered, ItemsOf, Claimed
<1>6. \A i \in Items : Claimed(i)' <=> Claimed(i)
  BY <1>1, <1>4, <1>5 DEF Claimed
<1>7. \A i \in Items : ItemClaim(i)' = IF i \in ItemsOf(o) THEN [ItemClaim(i) EXCEPT !.sold = TRUE]
                                                         ELSE ItemClaim(i)
  BY <1>4 DEF ItemClaim
<1>8. \A x \in Rows : HoldClaim(x)' = HoldClaim(x) /\ (Held(x)' <=> Held(x))
  BY <1>1 DEF HoldClaim, Held
<1>9. Claims' = {ItemClaim(i)' : i \in {j \in Items : Claimed(j)'}}
                    \cup {HoldClaim(y)' : y \in {z \in Rows : Held(z)'}}
  BY ClaimsNext
<1>10. /\ \A i, j \in Items : ItemClaim(i) = ItemClaim(j) => i = j
       /\ \A i \in Items, x \in Rows : ItemClaim(i) # HoldClaim(x)
  BY DEF ItemClaim, HoldClaim
<1>11. cs \in SUBSET Claims
  BY <1>5, ClaimsAre
<1>12. Claims \ cs = {ItemClaim(i) : i \in {j \in Items \ ItemsOf(o) : Claimed(j)}}
                        \cup {HoldClaim(x) : x \in {y \in Rows : Held(y)}}
  BY <1>5, <1>10, ClaimsAre
<1>13. {[c EXCEPT !.sold = TRUE] : c \in cs}
           = {ItemClaim(i)' : i \in {j \in ItemsOf(o) : Claimed(j)}}
  BY <1>5, <1>7
<1>14. Claims' = (Claims \ cs) \cup {[c EXCEPT !.sold = TRUE] : c \in cs}
  <2> DEFINE rest == {ItemClaim(i) : i \in {j \in Items \ ItemsOf(o) : Claimed(j)}}
             sold == {ItemClaim(i)' : i \in {j \in ItemsOf(o) : Claimed(j)}}
  <2>1. {ItemClaim(i)' : i \in {j \in Items : Claimed(j)'}} = rest \cup sold
    BY <1>5, <1>6, <1>7
  <2>2. {HoldClaim(y)' : y \in {z \in Rows : Held(z)'}}
            = {HoldClaim(x) : x \in {y \in Rows : Held(y)}}
    BY <1>8
  <2> QED
    BY <1>9, <1>12, <1>13, <2>1, <2>2
<1> HIDE DEF cs
<1>15. Stock!Sell(cs)
  BY <1>14 DEF Stock!Sell
<1> QED
  BY <1>11, <1>15

\* Every other step of an undisturbed request only ends rows.
LEMMA OtherSteps ==
    ASSUME Faults = {}, Base, [Next]_vars, \A r \in Requests : ~Reserve(r) /\ ~SellItems(r)
    PROVE  /\ \A i \in Items : item'[i] = "SOLD" <=> item[i] = "SOLD"
           /\ \A x \in Rows : row'[x].status = "ACTIVE" => row'[x] = row[x]
<1>1. row \in [Rows -> Reservation]
  BY DEF Base, TypeInv, TypeOK
<1>2. \A i \in Items : item[i] = "SOLD" => item'[i] = "SOLD"
  <2>1. [OrderlyStep]_vars
    BY SerialStep
  <2> QED
    BY <2>1 DEF OrderlyStep, vars
<1>3. \A r \in Requests, i \in Items : Flushed(r)[i] = "SOLD" => item[i] = "SOLD"
  BY DEF Flushed, StagedStatus
<1>4. ASSUME NEW r \in Requests, Begin(r) \/ Advance(r) \/ Crash(r)
      PROVE  /\ \A i \in Items : item'[i] = "SOLD" => item[i] = "SOLD"
             /\ \A x \in Rows : row'[x].status = "ACTIVE" => row'[x] = row[x]
  <2>1. CASE item' = item /\ row' = row
    BY <2>1
  <2>2. ASSUME NEW x \in Rows, ReleaseReservation(r, x)
        PROVE  \A y \in Rows : row'[y].status = "ACTIVE" => row'[y] = row[y]
    BY <1>1, <2>2 DEF ReleaseReservation, Reservation
  <2>3. ASSUME NEW xs \in SUBSET Rows, ExpireReservations(r, xs)
        PROVE  \A y \in Rows : row'[y].status = "ACTIVE" => row'[y] = row[y]
    BY <1>1, <2>3 DEF ExpireReservations, Reservation
  <2>4. ASSUME ReleaseRow(r)
        PROVE  \A y \in Rows : row'[y].status = "ACTIVE" => row'[y] = row[y]
    BY <1>1, <2>4 DEF ReleaseRow, Reservation
  <2>5. CASE Begin(r)
    BY <2>1, <2>2, <2>3, <2>5
       DEF Begin, ImportOrder, PostOrder, RequestHold, ReleaseReservation, ExpireReservations,
           RequestStatus
  <2>6. CASE CreateOrder(r)
    <3>1. \A i \in Items : item'[i] \in {"PENDING", item[i]}
      BY <2>6 DEF CreateOrder
    <3> QED
      BY <2>6, <3>1 DEF CreateOrder
  <2>7. CASE ReleaseRow(r) \/ FinishItems(r)
    BY <1>3, <2>4, <2>7 DEF ReleaseRow, FinishItems
  <2>8. CASE Advance(r) /\ ~CreateOrder(r) /\ ~ReleaseRow(r) /\ ~FinishItems(r)
    BY <2>1, <2>8 DEF Advance, RefuseOrder, AllocateItem, ReadFigures, WriteSnapshot,
                      CommitStatus, ReleaseItem, Answer
  <2>9. CASE Crash(r)
    BY <2>1, <2>9 DEF Crash
  <2> QED
    BY <1>4, <2>5, <2>6, <2>7, <2>8, <2>9
<1>5. CASE UNCHANGED <<item, row>>
  BY <1>5
<1> QED
  BY <1>2, <1>4, <1>5 DEF Next, ReadAvailability, Restock, vars

\* Undisturbed, the service keeps the promises of the stock ledger: a claim is
\* given only where there are copies for it and to who has none, withdrawn
\* only before it is sold, and a sale is for ever.
THEOREM ImplementsStockUndisturbed ==
    ASSUME Faults = {}
    PROVE  Spec => ImplementsStock
<1>1. Init => Stock!Init /\ stock = InitialStock
  BY MarketplaceAssumption DEF Init, Stock!Init, Claims, NoRow
<1>2. stock = InitialStock /\ [Next]_vars => (stock = InitialStock)'
  <2>1. [Next]_vars => stock' = stock
    BY DEF Next, vars, Begin, Advance, Crash, ImportOrder, PostOrder, RequestHold,
           ReleaseReservation, ExpireReservations, RequestStatus, CreateOrder, RefuseOrder, AllocateItem, Reserve,
           ReadFigures, WriteSnapshot, CommitStatus, SellItems, ReleaseRow, ReleaseItem,
           FinishItems, Answer, ReadAvailability, Restock
  <2> QED
    BY <2>1
<1>3. Base /\ Base' /\ StockInv /\ stock = InitialStock /\ [Next]_vars
        => [Stock!Next]_Claims
  <2> SUFFICES ASSUME Base, Base', StockInv, stock = InitialStock, [Next]_vars
               PROVE  Stock!Next
    OBVIOUS
  <2>1. CASE \E r \in Requests : Reserve(r)
    BY <2>1, ReserveTakes DEF Stock!Next
  <2>2. CASE \E r \in Requests : SellItems(r)
    BY <2>2, SaleSells DEF Stock!Next
  <2>3. CASE \A r \in Requests : ~Reserve(r) /\ ~SellItems(r)
    <3>1. TypeOK
      BY DEF Base, TypeInv
    <3>2. \E cs \in SUBSET Claims : Stock!Withdraw(cs)
      BY <2>3, <3>1, OtherSteps, ClaimsWithdrawn
    <3> QED
      BY <3>2 DEF Stock!Next
  <2> QED
    BY <2>1, <2>2, <2>3
<1> QED
  BY <1>1, <1>2, <1>3, StockInvariant, PTL DEF Spec, ImplementsStock, Stock!Spec
=============================================================================
