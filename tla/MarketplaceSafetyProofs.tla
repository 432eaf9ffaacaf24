---------------------- MODULE MarketplaceSafetyProofs ----------------------
(***************************************************************************)
(* What the marketplace stock keeps to whatever goes wrong, for every set  *)
(* of listings, orders, items, rows and request threads: its types, from   *)
(* which the other proofs start, and that no item is ever reserved twice.  *)
(***************************************************************************)
EXTENDS MarketplaceInventory, FiniteSetTheorems, TLAPS

(***************************************************************************)
(* TypeOK is not inductive: a recalculation takes the listings it is for   *)
(* from rows and drafts, which must name one, and the allocation loop      *)
(* stages the item its draft names, which must be an item.  Both hold      *)
(* because a request only ever makes the steps of its task.                *)
(***************************************************************************)
Recalculating == {"recalculate", "write"}

StepsOf(task) ==
    CASE task = "none"              -> {"idle"}
      [] task = "order"             -> {"create", "allocate", "reserve", "done"} \cup Recalculating
      [] task = "hold"              -> {"reserve", "done"} \cup Recalculating
      [] task \in {"release", "expire"} -> {"done"} \cup Recalculating
      [] task = "paid"              -> {"status", "done"}
      [] task = "cancel"            -> {"status", "release", "done"} \cup Recalculating
      [] task = "fulfil"            -> {"status", "sell", "release", "done"} \cup Recalculating

TaskSteps == \A r \in Requests : request[r].step \in StepsOf(request[r].task)

RowsListed ==
    /\ \A x \in Rows : row[x].status # "ABSENT" => row[x].listing \in Listings
    /\ \A r \in Requests : request[r].step = "reserve" => request[r].draft.listing \in Listings

DraftNamesItem ==
    \A r \in Requests :
        request[r].task = "order" /\ request[r].step \in {"reserve"} \cup Recalculating
            => request[r].draft.for \in Items

TypeInv == TypeOK /\ TaskSteps /\ RowsListed /\ DraftNamesItem

-----------------------------------------------------------------------------
(* Availability                                                             *)

\* Units form finite sets, whatever rows and items they are units of.
LEMMA UnitsFinite ==
    ASSUME NEW l
    PROVE  /\ IsFiniteSet(Rows \X Units) /\ IsFiniteSet(Items \X Units)
           /\ IsFiniteSet(ActiveUnits(l)) /\ Cardinality(ActiveUnits(l)) \in Nat
           /\ IsFiniteSet(SoldUnits(l)) /\ Cardinality(SoldUnits(l)) \in Nat
           /\ \A todo \in SUBSET Items :
                 IsFiniteSet(WantedUnits(todo, l)) /\ Cardinality(WantedUnits(todo, l)) \in Nat
<1>1. IsFiniteSet(Units)
  BY MarketplaceAssumption, FS_Interval DEF Units
<1>2. IsFiniteSet(Rows \X Units) /\ IsFiniteSet(Items \X Units)
  BY <1>1, MarketplaceAssumption, FS_Product
<1>3. /\ ActiveUnits(l) \in SUBSET (Rows \X Units)
      /\ SoldUnits(l) \in SUBSET (Items \X Units)
  BY DEF ActiveUnits, SoldUnits
<1>4. \A todo \in SUBSET Items : WantedUnits(todo, l) \in SUBSET (Items \X Units)
  BY DEF WantedUnits
<1> QED
  BY <1>2, <1>3, <1>4, FS_Subset, FS_CardinalityType

\* What calculate_availability returns, and what is known, are naturals.
LEMMA AvailableType ==
    ASSUME TypeOK
    PROVE  /\ \A l \in Listings : Available(l) \in Nat /\ Known(l) \in Nat
           /\ \A ls : KnownIn(ls) \in [Listings -> Nat \cup {NoSnapshot}]
<1>1. ASSUME NEW l \in Listings PROVE Available(l) \in Nat /\ Known(l) \in Nat
  <2>1. stock[l] \in Nat /\ snapshot[l] \in Nat \cup {NoSnapshot}
    BY MarketplaceAssumption DEF TypeOK
  <2>2. Available(l) \in Nat
    BY <2>1, UnitsFinite DEF Available
  <2> QED
    BY <2>1, <2>2 DEF Known
<1> QED
  BY <1>1 DEF KnownIn, TypeOK

-----------------------------------------------------------------------------
(* Requests                                                                 *)

\* The idle request is a request.
LEMMA IdleType == Idle \in Request /\ NoRow \in Reservation /\ Idle.step \in StepsOf(Idle.task)
<1>1. NoRow \in Reservation
  BY MarketplaceAssumption DEF NoRow, Reservation, RowStatus
<1> QED
  BY <1>1 DEF Idle, Request, Tasks, Steps, StepsOf

\* What a commit leaves of the items are items.
LEMMA FlushedType ==
    ASSUME TypeOK, NEW r \in Requests
    PROVE  Flushed(r) \in [Items -> ItemStatus]
  BY DEF Flushed, StagedStatus, ItemStatus, TypeOK

\* A step that changes one request keeps the invariant, if the request and the
\* rows it leaves are in order.
LEMMA OneRequest ==
    ASSUME TypeInv, NEW r \in Requests, NEW q \in Request,
           request' = [request EXCEPT ![r] = q],
           row' \in [Rows -> Reservation],
           \A x \in Rows : row'[x].status # "ABSENT" => row'[x].listing \in Listings,
           stock' \in [Listings -> 0..MaxQuantity],
           snapshot' \in [Listings -> Nat \cup {NoSnapshot}],
           order' \in [Orders -> OrderStatus],
           item' \in [Items -> ItemStatus],
           q.step \in StepsOf(q.task),
           q.step = "reserve" => q.draft.listing \in Listings,
           q.task = "order" /\ q.step \in {"reserve"} \cup Recalculating
               => q.draft.for \in Items
    PROVE  TypeInv'
<1> USE DEF TypeInv
<1>1. TypeOK'
  BY DEF TypeOK
<1>2. \A p \in Requests : request'[p] = IF p = r THEN q ELSE request[p]
  BY DEF TypeOK
<1>3. TaskSteps'
  BY <1>2 DEF TaskSteps
<1>4. RowsListed'
  BY <1>2 DEF RowsListed
<1>5. DraftNamesItem'
  BY <1>2 DEF DraftNamesItem
<1> QED
  BY <1>1, <1>3, <1>4, <1>5

\* A request that gives up leaves everything as it was.
LEMMA AbandonType ==
    ASSUME TypeInv, NEW r \in Requests, Abandon(r), UNCHANGED <<stock, order, item, row>>,
           snapshot' \in [Listings -> Nat \cup {NoSnapshot}]
    PROVE  TypeInv'
<1>1. /\ Idle \in Request /\ Idle.step \in StepsOf(Idle.task)
      /\ Idle.step = "idle" /\ Idle.task = "none"
  BY IdleType DEF Idle
<1>2. \A x \in Rows : row'[x].status # "ABSENT" => row'[x].listing \in Listings
  BY DEF TypeInv, RowsListed
<1> QED
  BY <1>1, <1>2, OneRequest DEF Abandon, TypeInv, TypeOK

-----------------------------------------------------------------------------
(* The steps of a request                                                   *)

\* Beginning a request keeps the invariant.
LEMMA BeginType ==
    ASSUME TypeInv, NEW r \in Requests, Begin(r)
    PROVE  TypeInv'
<1> USE DEF TypeInv
<1>1. /\ Idle = [task |-> "none", step |-> "idle", order |-> NoOrder, todo |-> {},
                  staged |-> {}, draft |-> NoRow, stale |-> {}, at |-> NoListing, figure |-> 0]
       /\ NoRow \in Reservation
  BY IdleType DEF Idle
<1>2. ASSUME NEW o \in Orders, ImportOrder(r, o) \/ PostOrder(r, o)
      PROVE  TypeInv'
  <2> DEFINE q == [[Idle EXCEPT !.task = "order", !.order = o] EXCEPT !.step = "create"]
  <2>1. q \in Request /\ q.step = "create" /\ q.task = "order"
    BY <1>1 DEF Request, Tasks, Steps
  <2>2. request' = [request EXCEPT ![r] = q]
    BY <1>2 DEF ImportOrder, PostOrder, Continue
  <2>3. q.step \in StepsOf(q.task)
    BY <2>1 DEF StepsOf
  <2> HIDE DEF q
  <2> QED
    BY <1>2, <2>1, <2>2, <2>3, OneRequest DEF ImportOrder, PostOrder, TypeOK, RowsListed, Recalculating
<1>3. ASSUME NEW l \in Listings, NEW n \in HoldSizes, NEW i \in NamedItems \cup {NoItem},
             RequestHold(r, l, n, i)
      PROVE  TypeInv'
  <2> DEFINE q == [[Idle EXCEPT !.task = "hold", !.draft = ClientDraft(i, l, n)]
                      EXCEPT !.step = "reserve"]
  <2>1. ClientDraft(i, l, n) \in Reservation /\ ClientDraft(i, l, n).listing = l
    BY MarketplaceAssumption DEF ClientDraft, Draft, Reservation, RowStatus, Units
  <2>2. q \in Request /\ q.step = "reserve" /\ q.task = "hold" /\ q.draft.listing = l
    BY <1>1, <2>1 DEF Request, Tasks, Steps
  <2>3. request' = [request EXCEPT ![r] = q]
    BY <1>3 DEF RequestHold, Continue
  <2>4. q.step \in StepsOf(q.task)
    BY <2>2 DEF StepsOf
  <2>5. snapshot' \in [Listings -> Nat \cup {NoSnapshot}]
    BY <1>3, AvailableType DEF RequestHold
  <2> HIDE DEF q
  <2> QED
    BY <1>3, <2>2, <2>3, <2>4, <2>5, OneRequest DEF RequestHold, TypeOK, RowsListed
<1>4. ASSUME NEW x \in Rows, ReleaseReservation(r, x)
      PROVE  TypeInv'
  <2> DEFINE q == [[Idle EXCEPT !.task = "release", !.stale = {row[x].listing}]
                      EXCEPT !.step = "recalculate"]
  <2>1. row[x].listing \in Listings
    BY <1>4 DEF ReleaseReservation, RowsListed
  <2>2. q \in Request /\ q.step = "recalculate" /\ q.task = "release"
    BY <1>1, <2>1 DEF Request, Tasks, Steps
  <2>3. request' = [request EXCEPT ![r] = q]
    BY <1>4 DEF ReleaseReservation, Continue
  <2>4. q.step \in StepsOf(q.task)
    BY <2>2 DEF StepsOf, Recalculating
  <2>5. row' \in [Rows -> Reservation]
    BY <1>4 DEF ReleaseReservation, TypeOK, Reservation, RowStatus
  <2>6. \A y \in Rows : row'[y].status # "ABSENT" => row'[y].listing \in Listings
    BY <1>4, <2>1 DEF ReleaseReservation, TypeOK, RowsListed, Reservation
  <2> HIDE DEF q
  <2> QED
    BY <1>4, <2>2, <2>3, <2>4, <2>5, <2>6, OneRequest DEF ReleaseReservation, TypeOK
<1>5. ASSUME NEW xs \in SUBSET Rows, ExpireReservations(r, xs)
      PROVE  TypeInv'
  <2> DEFINE q == [[Idle EXCEPT !.task = "expire", !.stale = {row[x].listing : x \in xs}]
                      EXCEPT !.step = "recalculate"]
  <2>1. {row[x].listing : x \in xs} \in SUBSET Listings
    BY <1>5 DEF ExpireReservations, RowsListed
  <2>2. q \in Request /\ q.step = "recalculate" /\ q.task = "expire"
    BY <1>1, <2>1 DEF Request, Tasks, Steps
  <2>3. request' = [request EXCEPT ![r] = q]
    BY <1>5 DEF ExpireReservations, Continue
  <2>4. q.step \in StepsOf(q.task)
    BY <2>2 DEF StepsOf, Recalculating
  <2>5. row' \in [Rows -> Reservation]
    BY <1>5 DEF ExpireReservations, TypeOK, Reservation, RowStatus
  <2>6. \A y \in Rows : row'[y].status # "ABSENT" => row'[y].listing \in Listings
    BY <1>5 DEF ExpireReservations, TypeOK, RowsListed, Reservation
  <2> HIDE DEF q
  <2> QED
    BY <1>5, <2>2, <2>3, <2>4, <2>5, <2>6, OneRequest DEF ExpireReservations, TypeOK
<1>6. ASSUME NEW o \in Orders, NEW t \in {"paid", "cancel", "fulfil"}, RequestStatus(r, o, t)
      PROVE  TypeInv'
  <2> DEFINE p == [Idle EXCEPT !.task = t, !.order = o, !.step = "status"]
  <2>1. /\ p \in Request /\ p.step = "status" /\ p.task = t /\ p.order = o
        /\ p.step \in StepsOf(p.task)
    BY <1>1 DEF Request, Tasks, Steps, StepsOf
  <2> HIDE DEF p
  <2>2. /\ AfterStatus(p) \in Request /\ AfterStatus(p).task = t
        /\ AfterStatus(p).step \in {"done", "release", "sell"}
        /\ AfterStatus(p).step \in StepsOf(t)
    BY <2>1 DEF AfterStatus, Request, Steps, StepsOf, ItemsOf
  <2>3. PICK q \in {p, AfterStatus(p)} : request' = [request EXCEPT ![r] = q]
    BY <1>6 DEF RequestStatus, p
  <2> QED
    BY <1>6, <2>1, <2>2, <2>3, OneRequest DEF RequestStatus, TypeOK, RowsListed, Recalculating
<1> QED
  BY <1>2, <1>3, <1>4, <1>5, <1>6 DEF Begin

\* What follows a recalculation is a request in order.
LEMMA AfterWriteType ==
    ASSUME NEW q \in Request, q.step = "write", q.step \in StepsOf(q.task),
           q.task = "order" => q.draft.for \in Items
    PROVE  /\ AfterWrite(q) \in Request
           /\ AfterWrite(q).task = q.task /\ AfterWrite(q).order = q.order
           /\ AfterWrite(q).step \in {"recalculate", "allocate", "release", "done"}
           /\ AfterWrite(q).step \in StepsOf(q.task)
           /\ AfterWrite(q).step = "recalculate" => AfterWrite(q).draft = q.draft
<1> DEFINE rest == q.stale \ {q.at}
           done == [q EXCEPT !.stale = rest, !.at = NoListing, !.figure = 0]
<1>1. done \in Request /\ done.task = q.task /\ done.order = q.order /\ done.draft = q.draft
  BY DEF Request
<1>2. q.task \in {"order", "hold", "release", "expire", "cancel", "fulfil"}
  <2>1. q.task \in Tasks
    BY DEF Request
  <2>2. q.task # "none"
    BY DEF StepsOf
  <2>3. q.task # "paid"
    BY DEF StepsOf
  <2> QED
    BY <2>1, <2>2, <2>3 DEF Tasks
<1>3. CASE rest # {}
  <2>1. AfterWrite(q) = [done EXCEPT !.step = "recalculate"]
    BY <1>3 DEF AfterWrite
  <2> HIDE DEF done, rest
  <2> QED
    BY <1>1, <1>2, <2>1 DEF Request, Steps, StepsOf, Recalculating
<1>4. CASE rest = {} /\ q.task = "order"
  <2>1. AfterWrite(q) = [done EXCEPT !.step = "allocate", !.draft = NoRow,
                                     !.staged = @ \cup {q.draft.for},
                                     !.todo = @ \ {q.draft.for}]
    BY <1>4 DEF AfterWrite
  <2>2. q.draft.for \in Items
    BY <1>4
  <2> HIDE DEF done, rest
  <2>3. AfterWrite(q) \in Request
    <3> DEFINE staged == done.staged \cup {q.draft.for}
               todo == done.todo \ {q.draft.for}
    <3>1. staged \in SUBSET Items /\ todo \in SUBSET Items /\ NoRow \in Reservation
      BY <1>1, <2>2, IdleType DEF Request
    <3>2. AfterWrite(q) = [done EXCEPT !.step = "allocate", !.draft = NoRow,
                                       !.staged = staged, !.todo = todo]
      BY <1>1, <2>1 DEF Request
    <3> HIDE DEF staged, todo
    <3> QED
      BY <1>1, <3>1, <3>2 DEF Request, Steps
  <2>4. /\ AfterWrite(q).task = q.task /\ AfterWrite(q).order = q.order
        /\ AfterWrite(q).step = "allocate"
    BY <1>1, <2>1 DEF Request
  <2> QED
    BY <1>4, <2>3, <2>4 DEF StepsOf
<1>5. CASE rest = {} /\ q.task \in {"cancel", "fulfil"}
  <2>1. AfterWrite(q) = [done EXCEPT !.step = "release"]
    BY <1>5 DEF AfterWrite
  <2> HIDE DEF done, rest
  <2> QED
    BY <1>1, <1>5, <2>1 DEF Request, Steps, StepsOf
<1>6. CASE rest = {} /\ q.task \notin {"order", "cancel", "fulfil"}
  <2>1. AfterWrite(q) = [done EXCEPT !.step = "done"]
    BY <1>6 DEF AfterWrite
  <2> HIDE DEF done, rest
  <2> QED
    BY <1>1, <1>2, <1>6, <2>1 DEF Request, Steps, StepsOf
<1> QED
  BY <1>3, <1>4, <1>5, <1>6

\* The route goes on in order after a status is committed.
LEMMA AfterStatusType ==
    ASSUME NEW q \in Request, q.task \in {"paid", "cancel", "fulfil"}
    PROVE  /\ AfterStatus(q) \in Request
           /\ AfterStatus(q).task = q.task /\ AfterStatus(q).order = q.order
           /\ AfterStatus(q).step \in {"done", "release", "sell"}
           /\ AfterStatus(q).step \in StepsOf(q.task)
  BY DEF AfterStatus, Request, Steps, StepsOf, ItemsOf

\* A request that goes on within its task, at a step that reserves nothing.
LEMMA ContinueType ==
    ASSUME TypeInv, NEW r \in Requests, NEW step \in Steps, NEW changed \in Request,
           Continue(r, step, changed),
           changed.task = request[r].task,
           step \in StepsOf(changed.task), step # "reserve",
           step \in Recalculating /\ changed.task = "order" => changed.draft.for \in Items,
           row' \in [Rows -> Reservation],
           \A x \in Rows : row'[x].status # "ABSENT" => row'[x].listing \in Listings,
           stock' \in [Listings -> 0..MaxQuantity],
           snapshot' \in [Listings -> Nat \cup {NoSnapshot}],
           order' \in [Orders -> OrderStatus],
           item' \in [Items -> ItemStatus]
    PROVE  TypeInv'
<1> DEFINE q == [changed EXCEPT !.step = step]
<1>1. /\ q \in Request /\ q.step = step /\ q.task = changed.task /\ q.draft = changed.draft
      /\ request' = [request EXCEPT ![r] = q]
  BY DEF Request, Continue
<1> HIDE DEF q
<1> QED
  BY <1>1, OneRequest

\* The steps of creating an order keep the invariant,
LEMMA ImportType ==
    ASSUME TypeInv, NEW r \in Requests,
           CreateOrder(r) \/ RefuseOrder(r) \/ AllocateItem(r) \/ Reserve(r)
    PROVE  TypeInv'
<1> USE DEF TypeInv
<1>1. /\ request[r] \in Request /\ request[r].step \in StepsOf(request[r].task)
      /\ request[r].task \in Tasks
      /\ \A x \in Rows : row[x].status # "ABSENT" => row[x].listing \in Listings
  BY DEF TypeOK, TaskSteps, RowsListed, Request
<1>2. CASE CreateOrder(r)
  <2> DEFINE changed == [request[r] EXCEPT !.todo = ItemsOf(request[r].order)]
  <2>1. changed \in Request /\ changed.task = request[r].task
    BY <1>1 DEF Request, ItemsOf
  <2>2. request[r].task = "order"
    BY <1>1, <1>2 DEF CreateOrder, StepsOf, Recalculating, Tasks
  <2>3. "allocate" \in Steps /\ "allocate" \in StepsOf(request[r].task)
    BY <2>2 DEF Steps, StepsOf
  <2>4. Continue(r, "allocate", changed)
    BY <1>2 DEF CreateOrder
  <2>5. /\ snapshot' \in [Listings -> Nat \cup {NoSnapshot}]
        /\ order' \in [Orders -> OrderStatus] /\ item' \in [Items -> ItemStatus]
    BY <1>2, AvailableType DEF CreateOrder, TypeOK, OrderStatus, ItemStatus
  <2> HIDE DEF changed
  <2> QED
    BY <1>1, <1>2, <2>1, <2>3, <2>4, <2>5, ContinueType
       DEF CreateOrder, TypeOK, Recalculating
<1>3. CASE RefuseOrder(r)
  BY <1>3, AbandonType, AvailableType DEF RefuseOrder
<1>4. CASE AllocateItem(r)
  <2>1. request[r].task = "order"
    BY <1>1, <1>4 DEF AllocateItem, StepsOf, Recalculating, Tasks
  <2>2. PICK i \in Items :
            /\ First(i, request[r].todo)
            /\ \/ /\ item[i] = "PENDING" /\ ListingOf[i] # NoListing
                  /\ Quantity[i] <= Known(ListingOf[i])
                  /\ Continue(r, "reserve", [request[r] EXCEPT
                         !.draft = Draft(i, ListingOf[i], Quantity[i])])
               \/ /\ item[i] = "PENDING" /\ ListingOf[i] # NoListing
                  /\ Quantity[i] > Known(ListingOf[i])
                  /\ Abandon(r)
               \/ /\ item[i] # "PENDING" \/ ListingOf[i] = NoListing
                  /\ Continue(r, "allocate", [request[r] EXCEPT !.todo = @ \ {i}])
    BY <1>4 DEF AllocateItem
  <2>3. CASE ListingOf[i] # NoListing /\ Continue(r, "reserve", [request[r] EXCEPT
                                      !.draft = Draft(i, ListingOf[i], Quantity[i])])
    <3> DEFINE d == Draft(i, ListingOf[i], Quantity[i])
               q == [[request[r] EXCEPT !.draft = d] EXCEPT !.step = "reserve"]
    <3>1. d \in Reservation /\ d.listing \in Listings /\ d.for = i
      BY <2>3, MarketplaceAssumption DEF ClientDraft, Draft, Reservation, RowStatus, Units
    <3> HIDE DEF d
    <3>2. q \in Request /\ q.draft = d /\ q.step = "reserve" /\ q.task = "order"
      BY <1>1, <2>1, <3>1 DEF Request, Steps
    <3>3. request' = [request EXCEPT ![r] = q]
      BY <2>3 DEF Continue, d
    <3>4. q.step \in StepsOf(q.task)
      BY <3>2 DEF StepsOf
    <3> HIDE DEF q
    <3> QED
      BY <1>1, <1>4, <3>1, <3>2, <3>3, <3>4, OneRequest DEF AllocateItem, TypeOK
  <2>4. CASE Abandon(r)
    BY <1>4, <2>4, AbandonType DEF AllocateItem, TypeOK
  <2>5. CASE Continue(r, "allocate", [request[r] EXCEPT !.todo = @ \ {i}])
    <3> DEFINE changed == [request[r] EXCEPT !.todo = @ \ {i}]
    <3>1. changed \in Request /\ changed.task = request[r].task
      BY <1>1 DEF Request
    <3>2. "allocate" \in Steps /\ "allocate" \in StepsOf(request[r].task)
      BY <2>1 DEF Steps, StepsOf
    <3>3. Continue(r, "allocate", changed)
      BY <2>5
    <3> HIDE DEF changed
    <3> QED
      BY <1>1, <1>4, <3>1, <3>2, <3>3, ContinueType DEF AllocateItem, TypeOK, Recalculating
  <2> QED
    BY <2>2, <2>3, <2>4, <2>5
<1>5. CASE Reserve(r)
  <2> DEFINE changed == [request[r] EXCEPT !.staged = {}, !.stale = {request[r].draft.listing}]
  <2>1. request[r].draft \in Reservation /\ request[r].draft.listing \in Listings
    BY <1>1, <1>5 DEF Reserve, Request, RowsListed
  <2>2. /\ changed \in Request /\ changed.task = request[r].task
        /\ changed.draft = request[r].draft
    BY <1>1, <2>1 DEF Request
  <2>3. /\ "recalculate" \in Steps /\ "recalculate" \in StepsOf(request[r].task)
        /\ request[r].task = "order" => request[r].draft.for \in Items
    BY <1>1, <1>5 DEF Reserve, Steps, StepsOf, Recalculating, Tasks, DraftNamesItem
  <2>4. Continue(r, "recalculate", changed)
    BY <1>5 DEF Reserve
  <2>5. /\ row' \in [Rows -> Reservation]
        /\ \A x \in Rows : row'[x].status # "ABSENT" => row'[x].listing \in Listings
    BY <1>1, <1>5, <2>1 DEF Reserve, TypeOK
  <2>6. item' \in [Items -> ItemStatus]
    BY <1>5, FlushedType DEF Reserve
  <2> HIDE DEF changed
  <2> QED
    BY <1>5, <2>2, <2>3, <2>4, <2>5, <2>6, ContinueType DEF Reserve, TypeOK
<1> QED
  BY <1>2, <1>3, <1>4, <1>5

\* so do those of a recalculation,
LEMMA RecalculationType ==
    ASSUME TypeInv, NEW r \in Requests, ReadFigures(r) \/ WriteSnapshot(r)
    PROVE  TypeInv'
<1> USE DEF TypeInv
<1>1. /\ request[r] \in Request /\ request[r].step \in StepsOf(request[r].task)
      /\ request[r].task \in Tasks
      /\ \A x \in Rows : row[x].status # "ABSENT" => row[x].listing \in Listings
      /\ request[r].task = "order" /\ request[r].step \in {"reserve"} \cup Recalculating
            => request[r].draft.for \in Items
  BY DEF TypeOK, TaskSteps, RowsListed, DraftNamesItem, Request
<1>2. CASE ReadFigures(r)
  <2>1. PICK l \in request[r].stale :
            Continue(r, "write", [request[r] EXCEPT !.at = l, !.figure = Available(l)])
    BY <1>2 DEF ReadFigures
  <2> DEFINE changed == [request[r] EXCEPT !.at = l, !.figure = Available(l)]
  <2>2. l \in Listings /\ Available(l) \in Nat
    BY <1>1, AvailableType DEF Request
  <2>3. changed \in Request /\ changed.task = request[r].task /\ changed.draft = request[r].draft
    BY <1>1, <2>2 DEF Request
  <2>4. /\ request[r].task \in {"order", "hold", "release", "expire", "cancel", "fulfil"}
        /\ request[r].step = "recalculate"
    <3>1. request[r].step = "recalculate"
      BY <1>2 DEF ReadFigures
    <3>2. request[r].task # "none"
      BY <1>1, <3>1 DEF StepsOf
    <3>3. request[r].task # "paid"
      BY <1>1, <3>1 DEF StepsOf
    <3> QED
      BY <1>1, <3>1, <3>2, <3>3 DEF Tasks
  <2>5. "write" \in Steps /\ "write" \in StepsOf(request[r].task)
    BY <2>4 DEF Steps, StepsOf, Recalculating
  <2> HIDE DEF changed
  <2>6. Continue(r, "write", changed)
    BY <2>1 DEF changed
  <2> QED
    BY <1>1, <1>2, <2>3, <2>4, <2>5, <2>6, ContinueType DEF ReadFigures, TypeOK, Recalculating
<1>3. CASE WriteSnapshot(r)
  <2> DEFINE q == AfterWrite(request[r])
  <2>1. request[r].step = "write"
    BY <1>3 DEF WriteSnapshot
  <2>2. /\ q \in Request /\ q.task = request[r].task
        /\ q.step \in {"recalculate", "allocate", "release", "done"}
        /\ q.step \in StepsOf(q.task)
        /\ q.step = "recalculate" => q.draft = request[r].draft
    BY <1>1, <2>1, AfterWriteType DEF Recalculating
  <2>3. request' = [request EXCEPT ![r] = q]
    BY <1>3 DEF WriteSnapshot
  <2>4. snapshot' \in [Listings -> Nat \cup {NoSnapshot}]
    BY <1>1, <1>3 DEF WriteSnapshot, TypeOK, Request
  <2> HIDE DEF q
  <2> QED
    BY <1>1, <1>3, <2>1, <2>2, <2>3, <2>4, OneRequest DEF WriteSnapshot, TypeOK, Recalculating
<1> QED
  BY <1>2, <1>3

\* and those of a change of status.
LEMMA StatusType ==
    ASSUME TypeInv, NEW r \in Requests,
           \/ CommitStatus(r) \/ SellItems(r) \/ ReleaseRow(r) \/ ReleaseItem(r)
           \/ FinishItems(r) \/ Answer(r) \/ Crash(r)
    PROVE  TypeInv'
<1> USE DEF TypeInv
<1>1. /\ request[r] \in Request /\ request[r].step \in StepsOf(request[r].task)
      /\ request[r].task \in Tasks
      /\ \A x \in Rows : row[x].status # "ABSENT" => row[x].listing \in Listings
  BY DEF TypeOK, TaskSteps, RowsListed, Request
<1>2. CASE CommitStatus(r)
  <2> DEFINE q == AfterStatus(request[r])
  <2>1. request[r].task \in {"paid", "cancel", "fulfil"}
    BY <1>1, <1>2 DEF CommitStatus, StepsOf, Recalculating, Tasks
  <2>2. /\ q \in Request /\ q.step \in {"done", "release", "sell"}
        /\ q.step \in StepsOf(q.task)
    BY <1>1, <2>1, AfterStatusType
  <2>3. request' = [request EXCEPT ![r] = q]
    BY <1>2 DEF CommitStatus
  <2>4. order' \in [Orders -> OrderStatus]
    BY <1>2, <2>1 DEF CommitStatus, TypeOK, OrderStatus, Target
  <2> HIDE DEF q
  <2> QED
    BY <1>1, <1>2, <2>2, <2>3, <2>4, OneRequest DEF CommitStatus, TypeOK, Recalculating
<1>3. CASE SellItems(r)
  <2> DEFINE changed == [request[r] EXCEPT !.todo = ItemsOf(request[r].order)]
  <2>1. changed \in Request /\ changed.task = request[r].task
    BY <1>1 DEF Request, ItemsOf
  <2>2. request[r].task = "fulfil"
    BY <1>1, <1>3 DEF SellItems, StepsOf, Recalculating, Tasks
  <2>3. "release" \in Steps /\ "release" \in StepsOf(request[r].task)
    BY <2>2 DEF Steps, StepsOf
  <2>4. Continue(r, "release", changed)
    BY <1>3 DEF SellItems
  <2>5. item' \in [Items -> ItemStatus]
    BY <1>3 DEF SellItems, TypeOK, ItemStatus
  <2> HIDE DEF changed
  <2> QED
    BY <1>1, <1>3, <2>1, <2>3, <2>4, <2>5, ContinueType DEF SellItems, TypeOK, Recalculating
<1>4. CASE ReleaseRow(r)
  <2>1. PICK i \in Items, x \in Rows :
            /\ row[x].status = "ACTIVE"
            /\ row' = [row EXCEPT ![x].status = "RELEASED"]
            /\ Continue(r, "recalculate", [request[r] EXCEPT
                   !.staged = {}, !.stale = {row[x].listing}])
    BY <1>4 DEF ReleaseRow
  <2> DEFINE changed == [request[r] EXCEPT !.staged = {}, !.stale = {row[x].listing}]
  <2>2. row[x].listing \in Listings
    BY <1>1, <2>1
  <2>3. changed \in Request /\ changed.task = request[r].task
    BY <1>1, <2>2 DEF Request
  <2>4. request[r].task \in {"cancel", "fulfil"}
    BY <1>1, <1>4 DEF ReleaseRow, StepsOf, Recalculating, Tasks
  <2>5. "recalculate" \in Steps /\ "recalculate" \in StepsOf(request[r].task)
    BY <2>4 DEF Steps, StepsOf, Recalculating
  <2>6. row' \in [Rows -> Reservation]
    BY <2>1 DEF TypeOK, Reservation, RowStatus
  <2>7. \A y \in Rows : row'[y].status # "ABSENT" => row'[y].listing \in Listings
    BY <1>1, <2>1, <2>2 DEF TypeOK, Reservation
  <2>8. item' \in [Items -> ItemStatus]
    BY <1>4, FlushedType DEF ReleaseRow
  <2>9. Continue(r, "recalculate", changed)
    BY <2>1
  <2> HIDE DEF changed
  <2> QED
    BY <1>4, <2>3, <2>4, <2>5, <2>6, <2>7, <2>8, <2>9, ContinueType DEF ReleaseRow, TypeOK
<1>5. CASE ReleaseItem(r)
  <2>1. PICK i \in Items :
            Continue(r, "release", [request[r] EXCEPT
               !.todo = @ \ {i},
               !.staged = IF item[i] \in {"SOLD", "RELEASED"} THEN @ ELSE @ \cup {i}])
    BY <1>5 DEF ReleaseItem
  <2> DEFINE changed == [request[r] EXCEPT
               !.todo = @ \ {i},
               !.staged = IF item[i] \in {"SOLD", "RELEASED"} THEN @ ELSE @ \cup {i}]
  <2>2. changed \in Request /\ changed.task = request[r].task
    BY <1>1 DEF Request
  <2>3. "release" \in Steps /\ "release" \in StepsOf(request[r].task)
    BY <1>1, <1>5 DEF ReleaseItem, Steps
  <2>4. Continue(r, "release", changed)
    BY <2>1
  <2> HIDE DEF changed
  <2> QED
    BY <1>1, <1>5, <2>2, <2>3, <2>4, ContinueType DEF ReleaseItem, TypeOK, Recalculating
<1>6. CASE FinishItems(r)
  <2> DEFINE changed == [request[r] EXCEPT !.staged = {}]
  <2>1. changed \in Request /\ changed.task = request[r].task
    BY <1>1 DEF Request
  <2>2. request[r].task \in {"order", "cancel", "fulfil"}
    BY <1>1, <1>6 DEF FinishItems, StepsOf, Recalculating, Tasks
  <2>3. "done" \in Steps /\ "done" \in StepsOf(request[r].task)
    BY <2>2 DEF Steps, StepsOf
  <2>4. Continue(r, "done", changed)
    BY <1>6 DEF FinishItems
  <2>5. item' \in [Items -> ItemStatus]
    BY <1>6, FlushedType DEF FinishItems
  <2> HIDE DEF changed
  <2> QED
    BY <1>1, <1>6, <2>1, <2>3, <2>4, <2>5, ContinueType DEF FinishItems, TypeOK, Recalculating
<1>7. CASE Answer(r) \/ Crash(r)
  BY <1>7, AbandonType DEF Answer, Crash, TypeOK
<1> QED
  BY <1>2, <1>3, <1>4, <1>5, <1>6, <1>7

-----------------------------------------------------------------------------
(* The invariant                                                            *)

\* The invariant holds at first.
LEMMA InitType == Init => TypeInv
<1> SUFFICES ASSUME Init PROVE TypeInv
  OBVIOUS
<1>1. TypeOK
  BY IdleType, MarketplaceAssumption DEF Init, TypeOK, OrderStatus, ItemStatus
<1>2. TaskSteps
  BY IdleType DEF Init, TaskSteps
<1>3. RowsListed /\ DraftNamesItem
  BY DEF Init, RowsListed, DraftNamesItem, Idle, NoRow
<1> QED
  BY <1>1, <1>2, <1>3 DEF TypeInv

\* Every step keeps it.
LEMMA NextType ==
    ASSUME TypeInv, [Next]_vars
    PROVE  TypeInv'
<1>1. ASSUME NEW r \in Requests, Begin(r) \/ Advance(r) \/ Crash(r)
      PROVE  TypeInv'
  BY <1>1, BeginType, ImportType, RecalculationType, StatusType DEF Advance
<1>2. ASSUME NEW l \in Listings, ReadAvailability(l)
      PROVE  TypeInv'
  BY <1>2, AvailableType
     DEF ReadAvailability, TypeInv, TypeOK, TaskSteps, RowsListed, DraftNamesItem
<1>3. ASSUME NEW l \in Listings, NEW n \in 0..MaxQuantity, Restock(l, n)
      PROVE  TypeInv'
  BY <1>3 DEF Restock, TypeInv, TypeOK, TaskSteps, RowsListed, DraftNamesItem
<1>4. CASE UNCHANGED vars
  BY <1>4 DEF vars, TypeInv, TypeOK, TaskSteps, RowsListed, DraftNamesItem
<1> QED
  BY <1>1, <1>2, <1>3, <1>4 DEF Next

\* Every behaviour keeps it.
THEOREM TypeInvariant == Spec => []TypeInv
<1> QED
  BY InitType, NextType, PTL DEF Spec

\* Rows, items, snapshots and requests keep their types, whatever goes wrong.
THEOREM TypeCorrect == Spec => []TypeOK
<1>1. TypeInv => TypeOK
  BY DEF TypeInv
<1> QED
  BY <1>1, TypeInvariant, PTL

-----------------------------------------------------------------------------
(* One reservation for an item                                              *)

(***************************************************************************)
(* ReservedOnce is not inductive: it has to be known that an item the      *)
(* allocation loop has still to reach has no reservation.  It has none     *)
(* because an order is created by one request, once, and its loop takes    *)
(* an item out of todo after it has reserved it.                           *)
(***************************************************************************)

\* A request is in order, given the orders and the reservations there are.
Sound(q, orders, rows) ==
    /\ q.task = "order" => q.order \in Orders
    /\ q.task = "order" /\ q.step = "create" => orders[q.order] = "ABSENT"
    /\ q.task = "order" /\ q.step # "create" =>
        /\ orders[q.order] # "ABSENT"
        /\ q.todo \subseteq ItemsOf(q.order)
        /\ q.step \in {"reserve"} \cup Recalculating => q.draft.for \in q.todo
        /\ \A x \in Rows : rows[x].for \in q.todo =>
              q.step \in Recalculating /\ rows[x].for = q.draft.for
    /\ q.task \in {"paid", "cancel", "fulfil"} =>
        q.order \in Orders /\ orders[q.order] # "ABSENT"
    /\ q.task = "hold" /\ q.step = "reserve" => q.draft.for = NoItem

AllSound == \A r \in Requests : Sound(request[r], order, row)

OneCreation ==
    \A p, q \in Requests :
        request[p].task = "order" /\ request[q].task = "order"
            /\ request[p].order = request[q].order => p = q

RowsOrdered ==
    \A x \in Rows : row[x].for \in Items => order[OrderOf[row[x].for]] # "ABSENT"

ReservedInv == AllSound /\ OneCreation /\ RowsOrdered /\ ReservedOnce

\* A step of one request that inserts no row keeps the invariant if it leaves
\* the request in order, takes no order back, and starts no second creation.
LEMMA SameSources ==
    ASSUME TypeInv, ReservedInv, NEW r \in Requests, NEW q,
           request' = [request EXCEPT ![r] = q],
           Sound(q, order', row'),
           \A x \in Rows : row'[x].for = row[x].for,
           \A o \in Orders : order[o] # "ABSENT" => order'[o] # "ABSENT",
           \A o \in Orders : order[o] = "ABSENT" /\ order'[o] # "ABSENT" =>
               request[r].task = "order" /\ request[r].order = o,
           q.task = "order" =>
               \/ request[r].task = "order" /\ q.order = request[r].order
               \/ \A p \in Requests : request[p].order # q.order
    PROVE  ReservedInv'
<1>1. \A p \in Requests : request'[p] = IF p = r THEN q ELSE request[p]
  BY DEF TypeInv, TypeOK
<1>2. OneCreation'
  BY <1>1 DEF ReservedInv, OneCreation
<1>3. AllSound'
  <2> SUFFICES ASSUME NEW p \in Requests, p # r
               PROVE  Sound(request[p], order', row')
    BY <1>1 DEF AllSound
  <2>1. Sound(request[p], order, row)
    BY DEF ReservedInv, AllSound
  <2>2. request[p].task = "order" => ~(request[r].task = "order"
                                        /\ request[r].order = request[p].order)
    BY DEF ReservedInv, OneCreation
  <2> QED
    BY <2>1, <2>2 DEF Sound
<1>4. RowsOrdered'
  BY MarketplaceAssumption DEF ReservedInv, RowsOrdered
<1>5. ReservedOnce'
  BY DEF ReservedInv, ReservedOnce
<1> QED
  BY <1>2, <1>3, <1>4, <1>5 DEF ReservedInv

\* The same for a request that gives up.
LEMMA AbandonReserved ==
    ASSUME TypeInv, ReservedInv, NEW r \in Requests, Abandon(r), UNCHANGED <<order, row>>
    PROVE  ReservedInv'
<1>1. Sound(Idle, order', row') /\ Idle.task # "order"
  BY DEF Sound, Idle
<1> QED
  BY <1>1, SameSources DEF Abandon

\* Beginning a request keeps the invariant.
LEMMA BeginReserved ==
    ASSUME TypeInv, ReservedInv, NEW r \in Requests, Begin(r)
    PROVE  ReservedInv'
<1>1. /\ Idle = [task |-> "none", step |-> "idle", order |-> NoOrder, todo |-> {},
                  staged |-> {}, draft |-> NoRow, stale |-> {}, at |-> NoListing, figure |-> 0]
      /\ row \in [Rows -> Reservation]
  BY DEF Idle, TypeInv, TypeOK
<1>2. ASSUME NEW o \in Orders, ImportOrder(r, o) \/ PostOrder(r, o)
      PROVE  ReservedInv'
  <2> DEFINE q == [[Idle EXCEPT !.task = "order", !.order = o] EXCEPT !.step = "create"]
  <2>1. q.step = "create" /\ q.task = "order" /\ q.order = o
    BY <1>1
  <2>2. request' = [request EXCEPT ![r] = q]
    BY <1>2 DEF ImportOrder, PostOrder, Continue
  <2>3. order[o] = "ABSENT" /\ order' = order /\ row' = row
        /\ \A p \in Requests : request[p].order # o
    BY <1>2 DEF ImportOrder, PostOrder
  <2> HIDE DEF q
  <2>4. Sound(q, order', row')
    BY <2>1, <2>3 DEF Sound
  <2> QED
    BY <2>1, <2>2, <2>3, <2>4, SameSources
<1>3. ASSUME NEW l \in Listings, NEW n \in HoldSizes, NEW i \in NamedItems \cup {NoItem},
             RequestHold(r, l, n, i)
      PROVE  ReservedInv'
  <2> DEFINE q == [[Idle EXCEPT !.task = "hold", !.draft = ClientDraft(i, l, n)]
                      EXCEPT !.step = "reserve"]
  <2>1. q.step = "reserve" /\ q.task = "hold" /\ q.draft.for = NoItem
    BY <1>1 DEF ClientDraft, Draft
  <2>2. request' = [request EXCEPT ![r] = q] /\ order' = order /\ row' = row
    BY <1>3 DEF RequestHold, Continue
  <2> HIDE DEF q
  <2>3. Sound(q, order', row')
    BY <2>1 DEF Sound
  <2> QED
    BY <2>1, <2>2, <2>3, SameSources
<1>4. ASSUME NEW x \in Rows, ReleaseReservation(r, x)
      PROVE  ReservedInv'
  <2> DEFINE q == [[Idle EXCEPT !.task = "release", !.stale = {row[x].listing}]
                      EXCEPT !.step = "recalculate"]
  <2>1. q.step = "recalculate" /\ q.task = "release"
    BY <1>1
  <2>2. request' = [request EXCEPT ![r] = q] /\ order' = order
    BY <1>4 DEF ReleaseReservation, Continue
  <2>3. \A y \in Rows : row'[y].for = row[y].for
    BY <1>1, <1>4 DEF ReleaseReservation, Reservation
  <2> HIDE DEF q
  <2>4. Sound(q, order', row')
    BY <2>1 DEF Sound
  <2> QED
    BY <2>1, <2>2, <2>3, <2>4, SameSources
<1>5. ASSUME NEW xs \in SUBSET Rows, ExpireReservations(r, xs)
      PROVE  ReservedInv'
  <2> DEFINE q == [[Idle EXCEPT !.task = "expire", !.stale = {row[x].listing : x \in xs}]
                      EXCEPT !.step = "recalculate"]
  <2>1. q.step = "recalculate" /\ q.task = "expire"
    BY <1>1
  <2>2. request' = [request EXCEPT ![r] = q] /\ order' = order
    BY <1>5 DEF ExpireReservations, Continue
  <2>3. \A y \in Rows : row'[y].for = row[y].for
    BY <1>1, <1>5 DEF ExpireReservations, Reservation
  <2> HIDE DEF q
  <2>4. Sound(q, order', row')
    BY <2>1 DEF Sound
  <2> QED
    BY <2>1, <2>2, <2>3, <2>4, SameSources
<1>6. ASSUME NEW o \in Orders, NEW t \in {"paid", "cancel", "fulfil"}, RequestStatus(r, o, t)
      PROVE  ReservedInv'
  <2> DEFINE p == [Idle EXCEPT !.task = t, !.order = o, !.step = "status"]
  <2>1. p \in Request /\ p.task = t /\ p.order = o
    BY <1>1, IdleType DEF Request, Tasks, Steps
  <2>2. AfterStatus(p).task = t /\ AfterStatus(p).order = o
    BY <2>1, AfterStatusType
  <2>3. PICK q \in {p, AfterStatus(p)} : request' = [request EXCEPT ![r] = q]
    BY <1>6 DEF RequestStatus
  <2>4. order[o] # "ABSENT" /\ order' = order /\ row' = row
    BY <1>6 DEF RequestStatus
  <2>5. q.task = t /\ q.order = o
    BY <2>1, <2>2, <2>3
  <2>6. Sound(q, order', row')
    BY <2>4, <2>5 DEF Sound
  <2> QED
    BY <2>3, <2>4, <2>5, <2>6, SameSources
<1> QED
  BY <1>2, <1>3, <1>4, <1>5, <1>6 DEF Begin

\* The order is inserted once, and its items have no reservation yet.
LEMMA CreateReserved ==
    ASSUME TypeInv, ReservedInv, NEW r \in Requests, CreateOrder(r)
    PROVE  ReservedInv'
<1> DEFINE o == request[r].order
           q == [[request[r] EXCEPT !.todo = ItemsOf(o)] EXCEPT !.step = "allocate"]
<1>1. /\ request[r] \in Request /\ request[r].step = "create" /\ request[r].task \in Tasks
      /\ request[r].step \in StepsOf(request[r].task)
  BY DEF CreateOrder, TypeInv, TypeOK, TaskSteps, Request
<1>2. request[r].task = "order"
  BY <1>1 DEF StepsOf, Recalculating, Tasks
<1>3. o \in Orders /\ order[o] = "ABSENT"
  BY <1>1, <1>2 DEF ReservedInv, AllSound, Sound
<1>4. q.task = "order" /\ q.step = "allocate" /\ q.todo = ItemsOf(o) /\ q.order = o
  BY <1>1, <1>2 DEF Request
<1>5. request' = [request EXCEPT ![r] = q]
  BY DEF CreateOrder, Continue
<1>6. /\ row' = row /\ order'[o] = "PENDING"
      /\ \A p \in Orders : p # o => order'[p] = order[p]
  BY <1>3 DEF CreateOrder, TypeInv, TypeOK
<1> HIDE DEF q
<1>7. \A x \in Rows : row[x].for \notin ItemsOf(o)
  BY <1>3 DEF ReservedInv, RowsOrdered, ItemsOf
<1>8. Sound(q, order', row')
  BY <1>3, <1>4, <1>6, <1>7 DEF Sound, Recalculating
<1> QED
  BY <1>2, <1>3, <1>4, <1>5, <1>6, <1>8, SameSources

\* The item at the head of the loop gets its draft.
LEMMA AllocateReserved ==
    ASSUME TypeInv, ReservedInv, NEW r \in Requests, AllocateItem(r)
    PROVE  ReservedInv'
<1>1. /\ request[r] \in Request /\ request[r].step = "allocate" /\ request[r].task \in Tasks
      /\ request[r].step \in StepsOf(request[r].task)
  BY DEF AllocateItem, TypeInv, TypeOK, TaskSteps, Request
<1>2. request[r].task = "order"
  BY <1>1 DEF StepsOf, Recalculating, Tasks
<1>3. Sound(request[r], order, row) /\ order' = order /\ row' = row
  BY DEF ReservedInv, AllSound, AllocateItem
<1>4. PICK i \in Items :
          /\ First(i, request[r].todo)
          /\ \/ Continue(r, "reserve", [request[r] EXCEPT
                    !.draft = Draft(i, ListingOf[i], Quantity[i])])
             \/ Abandon(r)
             \/ Continue(r, "allocate", [request[r] EXCEPT !.todo = @ \ {i}])
  BY DEF AllocateItem
<1>5. CASE Continue(r, "reserve", [request[r] EXCEPT !.draft = Draft(i, ListingOf[i], Quantity[i])])
  <2> DEFINE q == [[request[r] EXCEPT !.draft = Draft(i, ListingOf[i], Quantity[i])]
                      EXCEPT !.step = "reserve"]
  <2>1. /\ q.task = "order" /\ q.step = "reserve" /\ q.order = request[r].order
        /\ q.todo = request[r].todo /\ q.draft.for = i
    BY <1>1, <1>2 DEF Request, Draft
  <2>2. request' = [request EXCEPT ![r] = q]
    BY <1>5 DEF Continue
  <2> HIDE DEF q
  <2>3. Sound(q, order', row')
    BY <1>1, <1>2, <1>3, <1>4, <2>1 DEF Sound, Recalculating, First
  <2> QED
    BY <1>2, <1>3, <2>1, <2>2, <2>3, SameSources
<1>6. CASE Abandon(r)
  BY <1>3, <1>6, AbandonReserved
<1>7. CASE Continue(r, "allocate", [request[r] EXCEPT !.todo = @ \ {i}])
  <2> DEFINE q == [[request[r] EXCEPT !.todo = @ \ {i}] EXCEPT !.step = "allocate"]
  <2>1. /\ q.task = "order" /\ q.step = "allocate" /\ q.order = request[r].order
        /\ q.todo = request[r].todo \ {i}
    BY <1>1, <1>2 DEF Request
  <2>2. request' = [request EXCEPT ![r] = q]
    BY <1>7 DEF Continue
  <2> HIDE DEF q
  <2>3. Sound(q, order', row')
    BY <1>1, <1>2, <1>3, <2>1 DEF Sound, Recalculating
  <2> QED
    BY <1>2, <1>3, <2>1, <2>2, <2>3, SameSources
<1> QED
  BY <1>4, <1>5, <1>6, <1>7

\* The reservation of a draft is the first of its item.
LEMMA ReserveReserved ==
    ASSUME TypeInv, ReservedInv, NEW r \in Requests, Reserve(r)
    PROVE  ReservedInv'
<1> DEFINE d == request[r].draft
           q == [[request[r] EXCEPT !.staged = {}, !.stale = {d.listing}]
                    EXCEPT !.step = "recalculate"]
<1>1. /\ request[r] \in Request /\ request[r].step = "reserve" /\ request[r].task \in Tasks
      /\ request[r].step \in StepsOf(request[r].task)
  BY DEF Reserve, TypeInv, TypeOK, TaskSteps, Request
<1>2. request[r].task \in {"order", "hold"}
  BY <1>1 DEF StepsOf, Recalculating, Tasks
<1>3. PICK x \in Rows : row[x] = NoRow /\ row' = [row EXCEPT ![x] = d]
  BY DEF Reserve, First
<1>4. /\ \A p \in Requests : Sound(request[p], order, row)
      /\ order' = order /\ NoRow.for = NoItem /\ NoItem \notin Items
      /\ \A y \in Rows : row'[y] = IF y = x THEN d ELSE row[y]
  BY <1>3, MarketplaceAssumption DEF ReservedInv, AllSound, Reserve, NoRow, TypeInv, TypeOK
<1>5. /\ q.step = "recalculate" /\ q.task = request[r].task /\ q.order = request[r].order
      /\ q.todo = request[r].todo /\ q.draft = d
  BY <1>1 DEF Request
<1>6. /\ request' = [request EXCEPT ![r] = q]
      /\ \A p \in Requests : request'[p] = IF p = r THEN q ELSE request[p]
  BY DEF Reserve, Continue, TypeInv, TypeOK
<1> HIDE DEF q, d
<1>7. CASE request[r].task = "hold"
  <2>1. d.for = NoItem
    BY <1>1, <1>4, <1>7 DEF Sound, d
  <2>2. \A y \in Rows : row'[y].for = row[y].for
    BY <1>3, <1>4, <2>1
  <2>3. Sound(q, order', row')
    BY <1>5, <1>7 DEF Sound
  <2> QED
    BY <1>4, <1>5, <1>6, <1>7, <2>2, <2>3, SameSources
<1>8. CASE request[r].task = "order"
  <2>1. /\ d.for \in request[r].todo
        /\ request[r].todo \subseteq ItemsOf(request[r].order)
        /\ order[request[r].order] # "ABSENT" /\ request[r].order \in Orders
        /\ \A y \in Rows : row[y].for \notin request[r].todo
    BY <1>1, <1>4, <1>8 DEF Sound, Recalculating, d
  <2>2. d.for \in Items /\ OrderOf[d.for] = request[r].order
    BY <2>1 DEF ItemsOf
  <2>3. Sound(q, order', row')
    BY <1>4, <1>5, <1>8, <2>1 DEF Sound, Recalculating
  <2>4. ASSUME NEW p \in Requests, p # r
        PROVE  Sound(request[p], order', row')
    <3>1. Sound(request[p], order, row)
      BY <1>4
    <3>2. request[p].task = "order" => request[p].order # request[r].order
      BY <1>8, <2>4 DEF ReservedInv, OneCreation
    <3>3. request[p].task = "order" /\ request[p].step # "create" => d.for \notin request[p].todo
      BY <2>2, <3>1, <3>2 DEF Sound, ItemsOf
    <3> QED
      BY <1>4, <3>1, <3>3 DEF Sound
  <2>5. AllSound'
    BY <1>6, <2>3, <2>4 DEF AllSound
  <2>6. OneCreation'
    BY <1>5, <1>6 DEF ReservedInv, OneCreation
  <2>7. RowsOrdered'
    BY <1>4, <2>1, <2>2 DEF ReservedInv, RowsOrdered
  <2>8. ReservedOnce'
    BY <1>4, <2>1 DEF ReservedInv, ReservedOnce
  <2> QED
    BY <2>5, <2>6, <2>7, <2>8 DEF ReservedInv
<1> QED
  BY <1>2, <1>7, <1>8

\* A recalculation leaves an item reserved, and out of the loop.
LEMMA RecalculateReserved ==
    ASSUME TypeInv, ReservedInv, NEW r \in Requests, ReadFigures(r) \/ WriteSnapshot(r)
    PROVE  ReservedInv'
<1>1. /\ request[r] \in Request /\ request[r].step \in StepsOf(request[r].task)
      /\ request[r].step \in Recalculating
      /\ Sound(request[r], order, row) /\ order' = order /\ row' = row
  BY DEF ReadFigures, WriteSnapshot, TypeInv, TypeOK, TaskSteps, Recalculating,
         ReservedInv, AllSound
<1>2. CASE ReadFigures(r)
  <2>1. PICK l \in request[r].stale :
            Continue(r, "write", [request[r] EXCEPT !.at = l, !.figure = Available(l)])
    BY <1>2 DEF ReadFigures
  <2> DEFINE q == [[request[r] EXCEPT !.at = l, !.figure = Available(l)] EXCEPT !.step = "write"]
  <2>2. /\ q.step = "write" /\ q.task = request[r].task /\ q.order = request[r].order
        /\ q.todo = request[r].todo /\ q.draft = request[r].draft
    BY <1>1 DEF Request
  <2>3. request' = [request EXCEPT ![r] = q]
    BY <2>1 DEF Continue
  <2> HIDE DEF q
  <2>4. Sound(q, order', row')
    BY <1>1, <2>2 DEF Sound, Recalculating
  <2> QED
    BY <1>1, <2>2, <2>3, <2>4, SameSources
<1>3. CASE WriteSnapshot(r)
  <2> DEFINE q == AfterWrite(request[r])
  <2>1. request[r].step = "write"
    BY <1>3 DEF WriteSnapshot
  <2>2. request[r].task = "order" => request[r].draft.for \in Items
    BY <1>1, <2>1 DEF TypeInv, DraftNamesItem, Recalculating
  <2>3. /\ q.task = request[r].task /\ q.order = request[r].order
        /\ q.step \in {"recalculate", "allocate", "release", "done"}
    BY <1>1, <2>1, <2>2, AfterWriteType
  <2>4. request[r].task = "order" =>
          \/ /\ q.step = "recalculate" /\ q.todo = request[r].todo
             /\ q.draft = request[r].draft
          \/ /\ q.step = "allocate"
             /\ q.todo = request[r].todo \ {request[r].draft.for}
    BY <1>1 DEF AfterWrite, Request
  <2>5. request' = [request EXCEPT ![r] = q]
    BY <1>3 DEF WriteSnapshot
  <2> HIDE DEF q
  <2>6. Sound(q, order', row')
    <3>1. CASE request[r].task = "order"
      BY <1>1, <2>1, <2>3, <2>4, <3>1 DEF Sound, Recalculating
    <3>2. CASE request[r].task # "order"
      BY <1>1, <2>3, <3>2 DEF Sound
    <3> QED
      BY <3>1, <3>2
  <2> QED
    BY <1>1, <2>3, <2>5, <2>6, SameSources
<1> QED
  BY <1>2, <1>3

\* The steps after a change of status insert no reservation.
LEMMA StatusReserved ==
    ASSUME TypeInv, ReservedInv, NEW r \in Requests,
           \/ CommitStatus(r) \/ SellItems(r) \/ ReleaseRow(r) \/ ReleaseItem(r)
           \/ FinishItems(r)
    PROVE  ReservedInv'
<1>1. /\ request[r] \in Request /\ request[r].step \in StepsOf(request[r].task)
      /\ request[r].task \in Tasks /\ Sound(request[r], order, row)
      /\ order \in [Orders -> OrderStatus] /\ row \in [Rows -> Reservation]
  BY DEF TypeInv, TypeOK, TaskSteps, ReservedInv, AllSound, Request
<1>2. CASE CommitStatus(r)
  <2> DEFINE q == AfterStatus(request[r])
  <2>1. request[r].task \in {"paid", "cancel", "fulfil"}
    BY <1>1, <1>2 DEF CommitStatus, StepsOf, Recalculating, Tasks
  <2>2. q.task = request[r].task /\ q.order = request[r].order
    BY <1>1, <2>1, AfterStatusType
  <2>3. request' = [request EXCEPT ![r] = q] /\ row' = row
    BY <1>2 DEF CommitStatus
  <2>4. \A o \in Orders : /\ order[o] # "ABSENT" => order'[o] # "ABSENT"
                          /\ order[o] = "ABSENT" => order'[o] = "ABSENT"
    BY <1>1, <1>2, <2>1 DEF CommitStatus, Target, Sound
  <2> HIDE DEF q
  <2>5. Sound(q, order', row')
    BY <1>1, <2>1, <2>2, <2>3, <2>4 DEF Sound
  <2> QED
    BY <2>1, <2>2, <2>3, <2>4, <2>5, SameSources
<1>3. CASE SellItems(r)
  <2> DEFINE q == [[request[r] EXCEPT !.todo = ItemsOf(request[r].order)] EXCEPT !.step = "release"]
  <2>1. request[r].task = "fulfil"
    BY <1>1, <1>3 DEF SellItems, StepsOf, Recalculating, Tasks
  <2>2. q.task = request[r].task /\ q.order = request[r].order
    BY <1>1 DEF Request
  <2>3. request' = [request EXCEPT ![r] = q] /\ row' = row /\ order' = order
    BY <1>3 DEF SellItems, Continue
  <2> HIDE DEF q
  <2>4. Sound(q, order', row')
    BY <1>1, <2>1, <2>2, <2>3 DEF Sound
  <2> QED
    BY <2>1, <2>2, <2>3, <2>4, SameSources
<1>4. CASE ReleaseRow(r)
  <2>1. PICK x \in Rows :
            /\ row' = [row EXCEPT ![x].status = "RELEASED"]
            /\ Continue(r, "recalculate", [request[r] EXCEPT
                   !.staged = {}, !.stale = {row[x].listing}])
    BY <1>4 DEF ReleaseRow
  <2> DEFINE q == [[request[r] EXCEPT !.staged = {}, !.stale = {row[x].listing}]
                      EXCEPT !.step = "recalculate"]
  <2>2. request[r].task \in {"cancel", "fulfil"}
    BY <1>1, <1>4 DEF ReleaseRow, StepsOf, Recalculating, Tasks
  <2>3. q.task = request[r].task /\ q.order = request[r].order
    BY <1>1 DEF Request
  <2>4. request' = [request EXCEPT ![r] = q] /\ order' = order
    BY <1>4, <2>1 DEF ReleaseRow, Continue
  <2>5. \A y \in Rows : row'[y].for = row[y].for
    BY <1>1, <2>1 DEF Reservation
  <2> HIDE DEF q
  <2>6. Sound(q, order', row')
    BY <1>1, <2>2, <2>3, <2>4 DEF Sound
  <2> QED
    BY <2>2, <2>3, <2>4, <2>5, <2>6, SameSources
<1>5. CASE ReleaseItem(r)
  <2>1. PICK i \in Items :
            Continue(r, "release", [request[r] EXCEPT
               !.todo = @ \ {i},
               !.staged = IF item[i] \in {"SOLD", "RELEASED"} THEN @ ELSE @ \cup {i}])
    BY <1>5 DEF ReleaseItem
  <2> DEFINE q == [[request[r] EXCEPT
               !.todo = @ \ {i},
               !.staged = IF item[i] \in {"SOLD", "RELEASED"} THEN @ ELSE @ \cup {i}]
                      EXCEPT !.step = "release"]
  <2>2. request[r].task \in {"cancel", "fulfil"}
    BY <1>1, <1>5 DEF ReleaseItem, StepsOf, Recalculating, Tasks
  <2>3. q.task = request[r].task /\ q.order = request[r].order
    BY <1>1 DEF Request
  <2>4. request' = [request EXCEPT ![r] = q] /\ order' = order /\ row' = row
    BY <1>5, <2>1 DEF ReleaseItem, Continue
  <2> HIDE DEF q
  <2>5. Sound(q, order', row')
    BY <1>1, <2>2, <2>3, <2>4 DEF Sound
  <2> QED
    BY <2>2, <2>3, <2>4, <2>5, SameSources
<1>6. CASE FinishItems(r)
  <2> DEFINE q == [[request[r] EXCEPT !.staged = {}] EXCEPT !.step = "done"]
  <2>1. request[r].step \in {"allocate", "release"} /\ request[r].todo = {}
    BY <1>6 DEF FinishItems
  <2>2. request[r].task \in {"order", "cancel", "fulfil"}
    BY <1>1, <2>1 DEF StepsOf, Recalculating, Tasks
  <2>3. /\ q.task = request[r].task /\ q.order = request[r].order /\ q.step = "done"
        /\ q.todo = {}
    BY <1>1, <2>1 DEF Request
  <2>4. request' = [request EXCEPT ![r] = q] /\ order' = order /\ row' = row
    BY <1>6 DEF FinishItems, Continue
  <2> HIDE DEF q
  <2>5. Sound(q, order', row')
    BY <1>1, <2>1, <2>2, <2>3, <2>4 DEF Sound, Recalculating
  <2> QED
    BY <2>2, <2>3, <2>4, <2>5, SameSources
<1> QED
  BY <1>2, <1>3, <1>4, <1>5, <1>6

\* Every behaviour keeps the invariant.
LEMMA ReservedInvariant == Spec => [](TypeInv /\ ReservedInv)
<1>1. Init => ReservedInv
  BY MarketplaceAssumption
     DEF Init, ReservedInv, AllSound, OneCreation, RowsOrdered, ReservedOnce, Sound, Idle, NoRow
<1>2. TypeInv /\ ReservedInv /\ [Next]_vars => ReservedInv'
  <2> SUFFICES ASSUME TypeInv, ReservedInv, [Next]_vars
               PROVE  ReservedInv'
    OBVIOUS
  <2>1. ASSUME NEW r \in Requests, Begin(r) \/ Advance(r) \/ Crash(r)
        PROVE  ReservedInv'
    <3>1. RefuseOrder(r) \/ Answer(r) \/ Crash(r) => ReservedInv'
      BY AbandonReserved DEF RefuseOrder, Answer, Crash
    <3> QED
      BY <2>1, <3>1, BeginReserved, CreateReserved, AllocateReserved, ReserveReserved,
         RecalculateReserved, StatusReserved DEF Advance
  <2>2. CASE UNCHANGED <<order, row, request>>
    BY <2>2 DEF ReservedInv, AllSound, OneCreation, RowsOrdered, ReservedOnce
  <2> QED
    BY <2>1, <2>2 DEF Next, ReadAvailability, Restock, vars
<1> QED
  BY <1>1, <1>2, TypeInvariant, PTL DEF Spec

\* No item is ever reserved twice, whatever overlaps, crashes or is released.
THEOREM ReservedOnceAlways == Spec => []ReservedOnce
<1>1. ReservedInv => ReservedOnce
  BY DEF ReservedInv
<1> QED
  BY <1>1, ReservedInvariant, PTL
=============================================================================
