------------------------ MODULE MarketplaceInventory ------------------------
(***************************************************************************)
(* Marketplace stock: listings, the availability snapshots computed from   *)
(* them, reservations, and the orders that reserve, release and sell       *)
(* (marketplace_inventory_*.py, marketplace_orders.py, the two order       *)
(* imports and the orders route).  Every service function commits several  *)
(* times, so a request is a little process: one action takes it from one   *)
(* commit, or from one read that a later commit depends on, to the next.   *)
(* Requests run in a thread pool, each with its own database session.      *)
(*                                                                         *)
(* A definition marked SLIP is not the code's: it is a plausible mistake   *)
(* in the definition after it, and a run shows that a property catches it. *)
(***************************************************************************)
EXTENDS Integers, FiniteSets

CONSTANTS
    Listings,       \* marketplace_listing rows
    Orders,         \* the marketplace_order rows that may ever be inserted
    Items,          \* marketplace_order_item ids, numbers in creation order
    Rows,           \* marketplace_inventory_reservation ids, likewise
    Requests,       \* request threads
    ExternalId,     \* [Orders -> ...]: external_order_id of the order
    OrderOf,        \* [Items -> Orders]
    ListingOf,      \* [Items -> Listings \cup {NoListing}]
    NoListing,      \* item.listing_id IS NULL
    Quantity,       \* [Items -> 1..MaxQuantity]: quantity of the item
    HoldSizes,      \* quantities of the reservations made directly
    MaxHolds,       \* bound: how many reservations are made directly
    NamedItems,     \* the items a client names in the source of one of those
    MaxQuantity,    \* largest quantity of a listing, an item or a reservation
    InitialStock,   \* [Listings -> 0..MaxQuantity]
    NoSnapshot,     \* no availability row yet
    NoOrder, NoItem,
    Faults          \* what may happen, a subset of Disturbances

\* "crash": a request dies between two commits.  "overlap": a request starts
\* while another runs.  "release": a client releases the reservation of an
\* order item through the reservation route.  "restock": the owner edits the
\* quantity of a listing.
Disturbances == {"crash", "overlap", "release", "restock"}

Units == 1..MaxQuantity

ASSUME MarketplaceAssumption ==
    /\ IsFiniteSet(Items) /\ Items \subseteq Nat
    /\ IsFiniteSet(Rows) /\ Rows \subseteq Nat
    /\ OrderOf \in [Items -> Orders]
    /\ ListingOf \in [Items -> Listings \cup {NoListing}]
    /\ NoListing \notin Listings
    /\ MaxQuantity \in Nat
    /\ Quantity \in [Items -> Units]
    /\ HoldSizes \subseteq Units
    /\ MaxHolds \in Nat
    /\ NamedItems \subseteq Items
    /\ InitialStock \in [Listings -> 0..MaxQuantity]
    /\ NoSnapshot \notin Nat
    /\ NoOrder \notin Orders
    /\ NoItem \notin Items
    /\ Faults \subseteq Disturbances

VARIABLES
    stock,      \* [Listings -> 0..MaxQuantity]: listing.quantity
    snapshot,   \* [Listings -> Nat \cup {NoSnapshot}]: available_quantity of
                \* the newest availability row
    order,      \* [Orders -> OrderStatus]
    item,       \* [Items -> ItemStatus]
    row,        \* [Rows -> Reservation]
    request     \* [Requests -> Request]: what each thread is doing

vars == <<stock, snapshot, order, item, row, request>>

-----------------------------------------------------------------------------
(* Rows                                                                     *)

OrderStatus == {"ABSENT", "PENDING", "PAID", "FULFILLED", "CANCELLED"}

ItemStatus == {"ABSENT", "PENDING", "ALLOCATED", "RELEASED", "SOLD"}

RowStatus == {"ABSENT", "ACTIVE", "RELEASED", "EXPIRED"}

\* for is the order item the service made a reservation for, or NoItem when a
\* client made it directly.  source is the item its source text names: that of
\* the service names the item, and a client writes what it likes.
Reservation == [status  : RowStatus,
                for     : Items \cup {NoItem},
                source  : Items \cup {NoItem},
                listing : Listings \cup {NoListing},
                size    : 0..MaxQuantity]

NoRow == [status |-> "ABSENT", for |-> NoItem, source |-> NoItem,
          listing |-> NoListing, size |-> 0]

Draft(i, l, n) ==
    [status |-> "ACTIVE", for |-> i, source |-> i, listing |-> l, size |-> n]

ClientDraft(i, l, n) == [Draft(NoItem, l, n) EXCEPT !.source = i]

-----------------------------------------------------------------------------
(* Requests                                                                 *)

Tasks == {"none", "order", "hold", "release", "expire",
          "paid", "cancel", "fulfil"}

Steps == {"idle", "create", "allocate", "reserve", "recalculate", "write",
          "status", "sell", "release", "done"}

\* todo: the items the loop of the request has not reached.  staged: the items
\* whose new status is in the session and not committed.  draft: the
\* reservation that passed the availability check.  stale: the listings it has
\* to recalculate.  figure: the availability of listing "at", computed and not
\* yet written.
Request == [task   : Tasks,
            step   : Steps,
            order  : Orders \cup {NoOrder},
            todo   : SUBSET Items,
            staged : SUBSET Items,
            draft  : Reservation,
            stale  : SUBSET Listings,
            at     : Listings \cup {NoListing},
            figure : Nat]

Idle == [task |-> "none", step |-> "idle", order |-> NoOrder, todo |-> {},
         staged |-> {}, draft |-> NoRow, stale |-> {}, at |-> NoListing,
         figure |-> 0]

Quiet == \A r \in Requests : request[r] = Idle

CanBegin(r) ==
    /\ request[r] = Idle
    /\ "overlap" \in Faults \/ Quiet

\* The request goes on with some of its fields changed.
Continue(r, step, changed) ==
    request' = [request EXCEPT ![r] = [changed EXCEPT !.step = step]]

\* An HTTPException or a dead thread: the session is closed and what was not
\* committed is lost.
Abandon(r) == request' = [request EXCEPT ![r] = Idle]

First(i, ids) == i \in ids /\ \A j \in ids : i <= j

ItemsOf(o) == {i \in Items : OrderOf[i] = o}

StagedStatus(task) == IF task = "order" THEN "ALLOCATED" ELSE "RELEASED"

\* What a commit of request r does to the items.
Flushed(r) ==
    [i \in Items |-> IF i \in request[r].staged
                     THEN StagedStatus(request[r].task) ELSE item[i]]

-----------------------------------------------------------------------------
(* Availability                                                             *)

ActiveUnits(l) ==
    {u \in Rows \X Units : /\ row[u[1]].status = "ACTIVE"
                           /\ row[u[1]].listing = l
                           /\ u[2] <= row[u[1]].size}

SoldUnits(l) ==
    {u \in Items \X Units : /\ item[u[1]] = "SOLD"
                            /\ ListingOf[u[1]] = l
                            /\ u[2] <= Quantity[u[1]]}

\* SLIP: nothing keeps the difference from going below zero.
SlipNotClamped(l) ==
    stock[l] - Cardinality(ActiveUnits(l)) - Cardinality(SoldUnits(l))

\* calculate_availability.  A sum of quantities is the size of a set of units.
Available(l) ==
    LET left == stock[l] - Cardinality(ActiveUnits(l)) - Cardinality(SoldUnits(l))
    IN  IF left > 0 THEN left ELSE 0

\* get_availability: the newest snapshot, computed now if there is none.
Known(l) == IF snapshot[l] = NoSnapshot THEN Available(l) ELSE snapshot[l]

KnownIn(ls) == [l \in Listings |-> IF l \in ls THEN Known(l) ELSE snapshot[l]]


-----------------------------------------------------------------------------
(* Orders                                                                   *)

WantedUnits(todo, l) ==
    {u \in todo \X Units : ListingOf[u[1]] = l /\ u[2] <= Quantity[u[1]]}

\* SLIP: every item is compared by itself, not the sum of the listing.
SlipFitsOneByOne(o, l) ==
    \A i \in ItemsOf(o) : ListingOf[i] = l => Quantity[i] <= Known(l)

Fits(o, l) == Cardinality(WantedUnits(ItemsOf(o), l)) <= Known(l)

ListingsIn(o) == {ListingOf[i] : i \in ItemsOf(o)} \ {NoListing}

\* _validate_item_availability goes through the listings in the order of the
\* items and stops at the first that is short.
Validated(o) ==
    {l \in ListingsIn(o) :
        \A i \in ItemsOf(o) :
            /\ ListingOf[i] \in ListingsIn(o)
            /\ \A j \in ItemsOf(o) : ListingOf[j] = l => i < j
            => Fits(o, ListingOf[i])}

\* import_orders: an external order that has a row already is skipped.  Row o
\* is the one the insert of this request will make.
ImportOrder(r, o) ==
    /\ CanBegin(r)
    /\ \A p \in Orders : ExternalId[p] = ExternalId[o] => order[p] = "ABSENT"
    /\ \A q \in Requests : request[q].order # o
    /\ Continue(r, "create", [Idle EXCEPT !.task = "order", !.order = o])
    /\ UNCHANGED <<stock, snapshot, order, item, row>>

\* The orders route: create_order with the client's external_order_id, which
\* nothing looks up.
PostOrder(r, o) ==
    /\ CanBegin(r)
    /\ order[o] = "ABSENT"
    /\ \A q \in Requests : request[q].order # o
    /\ Continue(r, "create", [Idle EXCEPT !.task = "order", !.order = o])
    /\ UNCHANGED <<stock, snapshot, order, item, row>>

\* create_order up to its commit: the order and its items are there, and
\* nothing is reserved yet.  The snapshots its validation commits, one listing
\* after the other, are in the same step; the allocation checks again.
CreateOrder(r) ==
    LET o == request[r].order IN
    /\ request[r].step = "create"
    /\ \A l \in ListingsIn(o) : Fits(o, l)
    /\ snapshot' = KnownIn(ListingsIn(o))
    /\ order' = [order EXCEPT ![o] = "PENDING"]
    /\ item' = [i \in Items |-> IF OrderOf[i] = o THEN "PENDING" ELSE item[i]]
    /\ Continue(r, "allocate", [request[r] EXCEPT !.todo = ItemsOf(o)])
    /\ UNCHANGED <<stock, row>>

RefuseOrder(r) ==
    LET o == request[r].order IN
    /\ request[r].step = "create"
    /\ \E l \in ListingsIn(o) : ~Fits(o, l)
    /\ snapshot' = KnownIn(Validated(o))
    /\ Abandon(r)
    /\ UNCHANGED <<stock, order, item, row>>

\* allocate_order_inventory, the next item, up to the availability check in
\* create_reservation.  The validation has taken the first snapshots.
AllocateItem(r) ==
    /\ request[r].step = "allocate"
    /\ \E i \in Items :
        /\ First(i, request[r].todo)
        /\ \/ /\ item[i] = "PENDING" /\ ListingOf[i] # NoListing
              /\ Quantity[i] <= Known(ListingOf[i])
              /\ Continue(r, "reserve", [request[r] EXCEPT
                     !.draft = Draft(i, ListingOf[i], Quantity[i])])
           \/ /\ item[i] = "PENDING" /\ ListingOf[i] # NoListing
              /\ Quantity[i] > Known(ListingOf[i])
              /\ Abandon(r)
           \/ /\ item[i] # "PENDING" \/ ListingOf[i] = NoListing
              /\ Continue(r, "allocate", [request[r] EXCEPT !.todo = @ \ {i}])
    /\ UNCHANGED <<stock, snapshot, order, item, row>>

-----------------------------------------------------------------------------
(* Reservations                                                             *)

\* Rows made directly, or about to be.
Holds == {x \in Rows : row[x] # NoRow /\ row[x].for = NoItem}
             \cup {r \in Requests : request[r].task = "hold" /\ request[r].step = "reserve"}

\* The reservation route: create_reservation up to its availability check.  One
\* that is refused there leaves what ReadAvailability leaves.
RequestHold(r, l, n, i) ==
    /\ CanBegin(r)
    /\ Cardinality(Holds) < MaxHolds
    /\ n <= Known(l)
    /\ snapshot' = KnownIn({l})
    /\ Continue(r, "reserve", [Idle EXCEPT !.task = "hold",
                                           !.draft = ClientDraft(i, l, n)])
    /\ UNCHANGED <<stock, order, item, row>>

\* create_reservation: the row is inserted and committed, with what the
\* allocation loop has staged.
Reserve(r) ==
    /\ request[r].step = "reserve"
    /\ \E x \in Rows :
        /\ First(x, {y \in Rows : row[y] = NoRow})
        /\ row' = [row EXCEPT ![x] = request[r].draft]
    /\ item' = Flushed(r)
    /\ Continue(r, "recalculate", [request[r] EXCEPT
           !.staged = {}, !.stale = {request[r].draft.listing}])
    /\ UNCHANGED <<stock, snapshot, order>>

\* release_reservation, which also releases what has expired.
ReleaseReservation(r, x) ==
    /\ CanBegin(r)
    /\ row[x].status \in {"ACTIVE", "EXPIRED"}
    /\ row[x].for = NoItem \/ "release" \in Faults
    /\ row' = [row EXCEPT ![x].status = "RELEASED"]
    /\ Continue(r, "recalculate", [Idle EXCEPT !.task = "release",
                                               !.stale = {row[x].listing}])
    /\ UNCHANGED <<stock, snapshot, order, item>>

\* SLIP: a reservation without expires_at is taken for one that has expired.
SlipExpireAny(r, xs) ==
    /\ CanBegin(r)
    /\ xs # {}
    /\ \A x \in xs : row[x].status = "ACTIVE"
    /\ row' = [x \in Rows |-> IF x \in xs THEN [row[x] EXCEPT !.status = "EXPIRED"]
                             ELSE row[x]]
    /\ Continue(r, "recalculate", [Idle EXCEPT !.task = "expire",
                                  !.stale = {row[x].listing : x \in xs}])
    /\ UNCHANGED <<stock, snapshot, order, item>>

\* expire_reservations over the rows whose expires_at has passed, which only
\* reservations made directly have.
ExpireReservations(r, xs) ==
    /\ CanBegin(r)
    /\ xs # {}
    /\ \A x \in xs : row[x].status = "ACTIVE" /\ row[x].for = NoItem
    /\ row' = [x \in Rows |-> IF x \in xs THEN [row[x] EXCEPT !.status = "EXPIRED"]
                             ELSE row[x]]
    /\ Continue(r, "recalculate", [Idle EXCEPT !.task = "expire",
                                  !.stale = {row[x].listing : x \in xs}])
    /\ UNCHANGED <<stock, snapshot, order, item>>

-----------------------------------------------------------------------------
(* Recalculation                                                            *)

\* calculate_availability reads the reservations and the sold items ...
ReadFigures(r) ==
    /\ request[r].step = "recalculate"
    /\ \E l \in request[r].stale :
        Continue(r, "write", [request[r] EXCEPT !.at = l, !.figure = Available(l)])
    /\ UNCHANGED <<stock, snapshot, order, item, row>>

\* SLIP: only the first of the affected listings is recalculated.
SlipOneListing(q) ==
    LET done == [q EXCEPT !.stale = {}, !.at = NoListing, !.figure = 0]
    IN  CASE q.task = "order" ->
                [done EXCEPT !.step = "allocate", !.draft = NoRow,
                             !.staged = @ \cup {q.draft.for},
                             !.todo = @ \ {q.draft.for}]
          [] q.task \in {"cancel", "fulfil"} -> [done EXCEPT !.step = "release"]
          [] OTHER -> [done EXCEPT !.step = "done"]

\* SLIP: the loop over the items starts again after each reservation.
SlipRestartLoop(q) ==
    LET done == [q EXCEPT !.stale = q.stale \ {q.at}, !.at = NoListing, !.figure = 0]
    IN  CASE q.task = "order" ->
                [done EXCEPT !.step = "allocate", !.draft = NoRow,
                             !.staged = @ \cup {q.draft.for}]
          [] q.task \in {"cancel", "fulfil"} -> [done EXCEPT !.step = "release"]
          [] OTHER -> [done EXCEPT !.step = "done"]

\* What follows the recalculation: the next listing, the next item, the answer.
AfterWrite(q) ==
    LET rest == q.stale \ {q.at}
        done == [q EXCEPT !.stale = rest, !.at = NoListing, !.figure = 0]
    IN  CASE rest # {}                     -> [done EXCEPT !.step = "recalculate"]
          [] rest = {} /\ q.task = "order" ->
                [done EXCEPT !.step = "allocate", !.draft = NoRow,
                             !.staged = @ \cup {q.draft.for},
                             !.todo = @ \ {q.draft.for}]
          [] rest = {} /\ q.task \in {"cancel", "fulfil"} ->
                [done EXCEPT !.step = "release"]
          [] OTHER -> [done EXCEPT !.step = "done"]

\* ... and commits a new snapshot, now the newest of the listing.
WriteSnapshot(r) ==
    /\ request[r].step = "write"
    /\ snapshot' = [snapshot EXCEPT ![request[r].at] = request[r].figure]
    /\ request' = [request EXCEPT ![r] = AfterWrite(@)]
    /\ UNCHANGED <<stock, order, item, row>>

-----------------------------------------------------------------------------
(* Order status                                                             *)

\* SLIP: a fulfilled order may be cancelled.
SlipCancelFulfilled ==
    {<<"PENDING", "PAID">>, <<"PENDING", "CANCELLED">>,
     <<"PAID", "FULFILLED">>, <<"PAID", "CANCELLED">>, <<"FULFILLED", "CANCELLED">>}

AllowedOrderTransitions ==
    {<<"PENDING", "PAID">>, <<"PENDING", "CANCELLED">>,
     <<"PAID", "FULFILLED">>, <<"PAID", "CANCELLED">>}

Target(task) == CASE task = "paid"   -> "PAID"
                  [] task = "cancel" -> "CANCELLED"
                  [] OTHER           -> "FULFILLED"

\* What the route does once update_order_status has returned.
AfterStatus(q) ==
    CASE q.task = "paid"   -> [q EXCEPT !.step = "done"]
      [] q.task = "cancel" -> [q EXCEPT !.step = "release", !.todo = ItemsOf(q.order)]
      [] OTHER             -> [q EXCEPT !.step = "sell"]

\* SLIP: the table of transitions is not consulted.
SlipAnyTransition(r, o, task) ==
    LET q == [Idle EXCEPT !.task = task, !.order = o, !.step = "status"] IN
    /\ CanBegin(r)
    /\ order[o] # "ABSENT"
    /\ request' = [request EXCEPT ![r] = q]
    /\ UNCHANGED <<stock, snapshot, order, item, row>>

\* update_order_status reads the order.  A status the order has already is
\* answered at once, and the route goes on: a repeated cancel releases again.
RequestStatus(r, o, task) ==
    LET q == [Idle EXCEPT !.task = task, !.order = o, !.step = "status"] IN
    /\ CanBegin(r)
    /\ order[o] # "ABSENT"
    /\ \/ /\ <<order[o], Target(task)>> \in AllowedOrderTransitions
          /\ request' = [request EXCEPT ![r] = q]
       \/ /\ order[o] = Target(task)
          /\ request' = [request EXCEPT ![r] = AfterStatus(q)]
    /\ UNCHANGED <<stock, snapshot, order, item, row>>

CommitStatus(r) ==
    /\ request[r].step = "status"
    /\ order' = [order EXCEPT ![request[r].order] = Target(request[r].task)]
    /\ request' = [request EXCEPT ![r] = AfterStatus(@)]
    /\ UNCHANGED <<stock, snapshot, item, row>>

\* mark_items_sold, up to its commit.
SellItems(r) ==
    LET sold == ItemsOf(request[r].order) IN
    /\ request[r].step = "sell"
    /\ item' = [i \in Items |-> IF i \in sold THEN "SOLD" ELSE item[i]]
    /\ Continue(r, "release", [request[r] EXCEPT !.todo = sold])
    /\ UNCHANGED <<stock, snapshot, order, row>>

\* release_order_inventory: release_reservation of an active row of the item ...
ReleaseRow(r) ==
    /\ request[r].step = "release"
    /\ \E i \in Items, x \in Rows :
        /\ First(i, request[r].todo)
        /\ row[x].status = "ACTIVE" /\ row[x].source = i
        /\ row' = [row EXCEPT ![x].status = "RELEASED"]
        /\ Continue(r, "recalculate", [request[r] EXCEPT
               !.staged = {}, !.stale = {row[x].listing}])
    /\ item' = Flushed(r)
    /\ UNCHANGED <<stock, snapshot, order>>

\* SLIP: a pending item is taken to have no reservation.
SlipSkipPending(r) ==
    /\ request[r].step = "release"
    /\ \E i \in Items :
        /\ First(i, request[r].todo)
        /\ \/ item[i] = "PENDING"
           \/ \A x \in Rows : row[x].source = i => row[x].status # "ACTIVE"
        /\ Continue(r, "release", [request[r] EXCEPT
               !.todo = @ \ {i},
               !.staged = IF item[i] \in {"SOLD", "RELEASED"} THEN @ ELSE @ \cup {i}])
    /\ UNCHANGED <<stock, snapshot, order, item, row>>

\* SLIP: the release after a sale releases the sold items too.
SlipReleaseSold(r) ==
    /\ request[r].step = "release"
    /\ \E i \in Items :
        /\ First(i, request[r].todo)
        /\ \A x \in Rows : row[x].source = i => row[x].status # "ACTIVE"
        /\ Continue(r, "release", [request[r] EXCEPT
               !.todo = @ \ {i}, !.staged = @ \cup {i}])
    /\ UNCHANGED <<stock, snapshot, order, item, row>>

\* ... and, when none is left, the item itself, unless it is sold.
ReleaseItem(r) ==
    /\ request[r].step = "release"
    /\ \E i \in Items :
        /\ First(i, request[r].todo)
        /\ \A x \in Rows : row[x].source = i => row[x].status # "ACTIVE"
        /\ Continue(r, "release", [request[r] EXCEPT
               !.todo = @ \ {i},
               !.staged = IF item[i] \in {"SOLD", "RELEASED"} THEN @ ELSE @ \cup {i}])
    /\ UNCHANGED <<stock, snapshot, order, item, row>>

\* The commit at the end of either loop.
FinishItems(r) ==
    /\ request[r].step \in {"allocate", "release"}
    /\ request[r].todo = {}
    /\ item' = Flushed(r)
    /\ Continue(r, "done", [request[r] EXCEPT !.staged = {}])
    /\ UNCHANGED <<stock, snapshot, order, row>>

-----------------------------------------------------------------------------
(* The rest                                                                 *)

\* The order is read again and the response is sent.
Answer(r) ==
    /\ request[r].step = "done"
    /\ Abandon(r)
    /\ UNCHANGED <<stock, snapshot, order, item, row>>

\* get_availability and list_availability, when there is no snapshot yet.
ReadAvailability(l) ==
    /\ "overlap" \in Faults \/ Quiet
    /\ snapshot[l] = NoSnapshot
    /\ snapshot' = KnownIn({l})
    /\ UNCHANGED <<stock, order, item, row, request>>

\* update_listing assigns the quantity and recalculates nothing.
Restock(l, n) ==
    /\ "restock" \in Faults
    /\ "overlap" \in Faults \/ Quiet
    /\ stock' = [stock EXCEPT ![l] = n]
    /\ UNCHANGED <<snapshot, order, item, row, request>>

Crash(r) ==
    /\ "crash" \in Faults
    /\ request[r] # Idle
    /\ Abandon(r)
    /\ UNCHANGED <<stock, snapshot, order, item, row>>

Init ==
    /\ stock = InitialStock
    /\ snapshot = [l \in Listings |-> NoSnapshot]
    /\ order = [o \in Orders |-> "ABSENT"]
    /\ item = [i \in Items |-> "ABSENT"]
    /\ row = [x \in Rows |-> NoRow]
    /\ request = [r \in Requests |-> Idle]

\* The steps a request makes once it has begun.
Advance(r) ==
    \/ CreateOrder(r) \/ RefuseOrder(r) \/ AllocateItem(r) \/ Reserve(r)
    \/ ReadFigures(r) \/ WriteSnapshot(r)
    \/ CommitStatus(r) \/ SellItems(r) \/ ReleaseRow(r) \/ ReleaseItem(r)
    \/ FinishItems(r) \/ Answer(r)

Begin(r) ==
    \/ \E o \in Orders : ImportOrder(r, o) \/ PostOrder(r, o)
    \/ \E l \in Listings, n \in HoldSizes, i \in NamedItems \cup {NoItem} :
          RequestHold(r, l, n, i)
    \/ \E x \in Rows : ReleaseReservation(r, x)
    \/ \E xs \in SUBSET Rows : ExpireReservations(r, xs)
    \/ \E o \in Orders, t \in {"paid", "cancel", "fulfil"} : RequestStatus(r, o, t)

Next ==
    \/ \E r \in Requests : Begin(r) \/ Advance(r) \/ Crash(r)
    \/ \E l \in Listings : ReadAvailability(l)
    \/ \E l \in Listings, n \in 0..MaxQuantity : Restock(l, n)

Spec == Init /\ [][Next]_vars

-----------------------------------------------------------------------------
(* Properties                                                               *)

TypeOK ==
    /\ stock \in [Listings -> 0..MaxQuantity]
    /\ snapshot \in [Listings -> Nat \cup {NoSnapshot}]
    /\ order \in [Orders -> OrderStatus]
    /\ item \in [Items -> ItemStatus]
    /\ row \in [Rows -> Reservation]
    /\ request \in [Requests -> Request]

\* A reservation of an item that is sold counts once, as the sale.
LiveUnits(l) ==
    {u \in ActiveUnits(l) : row[u[1]].for = NoItem \/ item[row[u[1]].for] # "SOLD"}

\* No more of a listing is reserved and sold than there is.
NeverOversold ==
    \A l \in Listings :
        Cardinality(LiveUnits(l)) + Cardinality(SoldUnits(l)) <= stock[l]

\* Between requests the newest snapshot of a listing says what is available.
SnapshotTrue ==
    Quiet => \A l \in Listings : snapshot[l] \in {NoSnapshot, Available(l)}

\* The reservation that stands for item i.
Backs(x, i) ==
    row[x] = Draft(i, ListingOf[i], Quantity[i])

\* An allocated item of an order that may still be fulfilled has its reservation.
OpenOrderBacked ==
    \A i \in Items :
        item[i] = "ALLOCATED" /\ order[OrderOf[i]] \in {"PENDING", "PAID"}
            => \E x \in Rows : Backs(x, i)

\* The service never reserves an item twice.
ReservedOnce ==
    \A x, y \in Rows : row[x].for # NoItem /\ row[x].for = row[y].for => x = y

\* Items are sold by fulfilment and released by cancellation.
ItemsFollowOrder ==
    \A i \in Items : /\ item[i] = "SOLD" => order[OrderOf[i]] = "FULFILLED"
                     /\ item[i] = "RELEASED" => order[OrderOf[i]] = "CANCELLED"

\* A cancel or a fulfilment that answers leaves no active reservation that
\* names an item of the order.
AnswerSettlesOrder ==
    \A r \in Requests :
        request[r].step = "done" /\ request[r].task \in {"cancel", "fulfil"} =>
            \A x \in Rows : row[x].source \in ItemsOf(request[r].order) =>
                row[x].status # "ACTIVE"

\* Orders move as the table of transitions allows, and a sold item stays sold.
OrderlyStep ==
    /\ \A o \in Orders : order'[o] # order[o] =>
            <<order[o], order'[o]>> \in AllowedOrderTransitions \cup {<<"ABSENT", "PENDING">>}
    /\ \A i \in Items : item[i] = "SOLD" => item'[i] = "SOLD"

Orderly == [][OrderlyStep]_vars

\* The claims buyers have on the listings: the items that are reserved or sold,
\* and the reservations made directly.
Claims ==
    {[by |-> <<"item", i>>, listing |-> ListingOf[i], units |-> Quantity[i],
      sold |-> item[i] = "SOLD"] :
        i \in {j \in Items : /\ ListingOf[j] # NoListing
                             /\ \/ item[j] = "SOLD"
                                \/ \E x \in Rows : row[x].for = j /\ row[x].status = "ACTIVE"}}
    \cup
    {[by |-> <<"hold", x>>, listing |-> row[x].listing, units |-> row[x].size,
      sold |-> FALSE] :
        x \in {y \in Rows : row[y].for = NoItem /\ row[y].status = "ACTIVE"}}

Stock == INSTANCE StockLedger WITH
    Shelf <- InitialStock, MaxUnits <- MaxQuantity, claims <- Claims

\* Undisturbed, the service keeps the ledger's promises.
ImplementsStock == Stock!Spec
=============================================================================
