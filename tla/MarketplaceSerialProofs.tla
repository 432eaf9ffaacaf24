---------------------- MODULE MarketplaceSerialProofs ----------------------
(***************************************************************************)
(* What the marketplace stock keeps to as long as no two requests overlap, *)
(* even if they crash, clients release the reservations of orders, or the  *)
(* owner edits the quantities: orders follow the table of transitions,     *)
(* items follow their orders, and an answered cancel or fulfilment leaves  *)
(* nothing reserved that names an item of the order.                       *)
(***************************************************************************)
EXTENDS MarketplaceSafetyProofs

Settling == {"release", "done"} \cup Recalculating

\* A request that runs alone is in order, given the rows there are.
Alone(q, orders, items, rows) ==
    /\ q.step = "status" => <<orders[q.order], Target(q.task)>> \in AllowedOrderTransitions
    /\ q.task = "cancel" /\ q.step # "status" => orders[q.order] = "CANCELLED"
    /\ q.task = "fulfil" /\ q.step # "status" => orders[q.order] = "FULFILLED"
    /\ q.task = "fulfil" /\ q.step \in Settling => \A i \in q.todo : items[i] = "SOLD"
    /\ q.task = "order" /\ q.step # "create" => orders[q.order] = "PENDING"
    /\ q.task \notin {"order", "cancel"} => q.staged = {}
    /\ q.step \in {"create", "status"} => q.staged = {}
    /\ q.task = "cancel" => q.todo \subseteq ItemsOf(q.order)
    /\ q.staged \subseteq ItemsOf(q.order)
    /\ q.task \in {"cancel", "fulfil"} /\ q.step \in Settling =>
        \A x \in Rows : rows[x].source \in ItemsOf(q.order) \ q.todo => rows[x].status # "ACTIVE"
    /\ q.task \in {"cancel", "fulfil"} /\ q.step = "done" => q.todo = {}

AllAlone == \A r \in Requests : Alone(request[r], order, item, row)

OneAtATime == \A p, q \in Requests : request[p] # Idle /\ request[q] # Idle => p = q

SerialInv == OneAtATime /\ AllAlone /\ ItemsFollowOrder

\* What the other proofs of this module start from.
Base == TypeInv /\ ReservedInv /\ SerialInv

\* The request that makes a step is the only one.
LEMMA OthersIdle ==
    ASSUME Base, NEW r \in Requests, request[r].step # "idle"
    PROVE  \A p \in Requests : p # r => request[p] = Idle
  BY DEF Base, SerialInv, OneAtATime, Idle

\* So is a request that begins.
LEMMA BeginsAlone ==
    ASSUME "overlap" \notin Faults, NEW r \in Requests, CanBegin(r)
    PROVE  \A p \in Requests : request[p] = Idle
  BY DEF CanBegin, Quiet

\* A step of the only request keeps requests in order if it leaves that one so.
LEMMA OneAlone ==
    ASSUME Base, NEW r \in Requests, NEW q,
           \A p \in Requests : p # r => request[p] = Idle,
           request' = [request EXCEPT ![r] = q],
           Alone(q, order', item', row')
    PROVE  (OneAtATime /\ AllAlone)'
<1>1. \A p \in Requests : request'[p] = IF p = r THEN q ELSE Idle
  BY DEF Base, TypeInv, TypeOK
<1>2. Alone(Idle, order', item', row')
  BY DEF Alone, Idle, Settling, Recalculating
<1> QED
  BY <1>1, <1>2 DEF OneAtATime, AllAlone

\* Where orders and items stay, so does what is said of them.
LEMMA SameOrders ==
    ASSUME Base, UNCHANGED <<order, item>>
    PROVE  ItemsFollowOrder' /\ OrderlyStep
  BY DEF Base, SerialInv, ItemsFollowOrder, OrderlyStep

\* A commit flushes nothing that is sold, and releases only what is cancelled.
LEMMA FlushFollows ==
    ASSUME Base, NEW r \in Requests, item' = Flushed(r), order' = order,
           request[r].step \in {"allocate", "reserve", "release"}
    PROVE  /\ ItemsFollowOrder' /\ OrderlyStep
           /\ \A i \in Items : item[i] = "SOLD" => item'[i] = "SOLD"
<1> DEFINE o == request[r].order
<1>1. /\ request[r].step \in StepsOf(request[r].task) /\ request[r].task \in Tasks
      /\ Alone(request[r], order, item, row)
  BY DEF Base, TypeInv, TypeOK, TaskSteps, SerialInv, AllAlone, Request
<1>2. ASSUME NEW i \in request[r].staged
      PROVE  /\ i \in Items /\ OrderOf[i] = o /\ item[i] # "SOLD"
             /\ item'[i] = "RELEASED" => order[o] = "CANCELLED"
             /\ item'[i] # "SOLD"
  <2>1. i \in Items /\ OrderOf[i] = o
    BY <1>1, <1>2 DEF Alone, ItemsOf
  <2>2. \/ request[r].task = "order" /\ order[o] = "PENDING"
        \/ request[r].task = "cancel" /\ order[o] = "CANCELLED"
    BY <1>1, <1>2 DEF Alone
  <2>3. item[i] = "SOLD" => order[o] = "FULFILLED"
    BY <2>1 DEF Base, SerialInv, ItemsFollowOrder
  <2>4. item'[i] = StagedStatus(request[r].task)
    BY <1>2, <2>1 DEF Flushed
  <2> QED
    BY <2>1, <2>2, <2>3, <2>4 DEF StagedStatus
<1>3. \A i \in Items : i \notin request[r].staged => item'[i] = item[i]
  BY DEF Flushed
<1>4. \A i \in Items : item[i] = "SOLD" => item'[i] = "SOLD"
  BY <1>2, <1>3
<1> QED
  BY <1>2, <1>3, <1>4 DEF Base, SerialInv, ItemsFollowOrder, OrderlyStep

-----------------------------------------------------------------------------
(* The steps                                                                *)

\* What is shown of every step.
Kept == SerialInv' /\ OrderlyStep

\* A request that gives up was the only one.
LEMMA AbandonAlone ==
    ASSUME Base, NEW r \in Requests, request[r] # Idle, Abandon(r),
           UNCHANGED <<order, item, row>>
    PROVE  Kept
<1>1. Alone(Idle, order', item', row')
  BY DEF Alone, Idle, Settling, Recalculating
<1>2. \A p \in Requests : p # r => request[p] = Idle
  BY DEF Base, SerialInv, OneAtATime
<1> QED
  BY <1>1, <1>2, OneAlone, SameOrders DEF Abandon, Kept, SerialInv

\* Requests begin one at a time, and a change of status as the table allows.
LEMMA BeginAlone ==
    ASSUME "overlap" \notin Faults, Base, NEW r \in Requests, Begin(r)
    PROVE  Kept
<1>1. /\ Idle = [task |-> "none", step |-> "idle", order |-> NoOrder, todo |-> {},
                  staged |-> {}, draft |-> NoRow, stale |-> {}, at |-> NoListing, figure |-> 0]
      /\ row \in [Rows -> Reservation]
  BY DEF Idle, Base, TypeInv, TypeOK
<1>2. UNCHANGED <<order, item>> /\ \A p \in Requests : p # r => request[p] = Idle
  BY BeginsAlone DEF Begin, ImportOrder, PostOrder, RequestHold, ReleaseReservation,
                     ExpireReservations, RequestStatus
<1>3. ASSUME NEW q, request' = [request EXCEPT ![r] = q], Alone(q, order', item', row')
      PROVE  Kept
  BY <1>2, <1>3, OneAlone, SameOrders DEF Kept, SerialInv
<1>4. ASSUME NEW o \in Orders, ImportOrder(r, o) \/ PostOrder(r, o)
      PROVE  Kept
  <2> DEFINE q == [[Idle EXCEPT !.task = "order", !.order = o] EXCEPT !.step = "create"]
  <2>1. q.step = "create" /\ q.task = "order" /\ q.order = o /\ q.staged = {}
    BY <1>1
  <2>2. request' = [request EXCEPT ![r] = q]
    BY <1>4 DEF ImportOrder, PostOrder, Continue
  <2> HIDE DEF q
  <2>3. Alone(q, order', item', row')
    BY <1>4, <2>1 DEF ImportOrder, PostOrder, Alone, Settling, Recalculating
  <2> QED
    BY <1>3, <2>2, <2>3
<1>5. ASSUME NEW l \in Listings, NEW n \in HoldSizes, NEW i \in NamedItems \cup {NoItem},
             RequestHold(r, l, n, i)
      PROVE  Kept
  <2> DEFINE q == [[Idle EXCEPT !.task = "hold", !.draft = ClientDraft(i, l, n)]
                      EXCEPT !.step = "reserve"]
  <2>1. q.step = "reserve" /\ q.task = "hold" /\ q.staged = {}
    BY <1>1
  <2>2. request' = [request EXCEPT ![r] = q]
    BY <1>5 DEF RequestHold, Continue
  <2> HIDE DEF q
  <2>3. Alone(q, order', item', row')
    BY <2>1 DEF Alone
  <2> QED
    BY <1>3, <2>2, <2>3
<1>6. ASSUME NEW x \in Rows, ReleaseReservation(r, x)
      PROVE  Kept
  <2> DEFINE q == [[Idle EXCEPT !.task = "release", !.stale = {row[x].listing}]
                      EXCEPT !.step = "recalculate"]
  <2>1. q.step = "recalculate" /\ q.task = "release" /\ q.staged = {}
    BY <1>1
  <2>2. request' = [request EXCEPT ![r] = q]
    BY <1>6 DEF ReleaseReservation, Continue
  <2> HIDE DEF q
  <2>3. Alone(q, order', item', row')
    BY <2>1 DEF Alone
  <2> QED
    BY <1>3, <2>2, <2>3
<1>7. ASSUME NEW xs \in SUBSET Rows, ExpireReservations(r, xs)
      PROVE  Kept
  <2> DEFINE q == [[Idle EXCEPT !.task = "expire", !.stale = {row[x].listing : x \in xs}]
                      EXCEPT !.step = "recalculate"]
  <2>1. q.step = "recalculate" /\ q.task = "expire" /\ q.staged = {}
    BY <1>1
  <2>2. request' = [request EXCEPT ![r] = q]
    BY <1>7 DEF ExpireReservations, Continue
  <2> HIDE DEF q
  <2>3. Alone(q, order', item', row')
    BY <2>1 DEF Alone
  <2> QED
    BY <1>3, <2>2, <2>3
<1>8. ASSUME NEW o \in Orders, NEW t \in {"paid", "cancel", "fulfil"}, RequestStatus(r, o, t)
      PROVE  Kept
  <2> DEFINE p == [Idle EXCEPT !.task = t, !.order = o, !.step = "status"]
  <2>1. /\ p.task = t /\ p.order = o /\ p.step = "status" /\ p.staged = {} /\ p.todo = {}
        /\ p \in Request
    BY <1>1, IdleType DEF Request, Tasks, Steps
  <2> HIDE DEF p
  <2>2. \/ /\ <<order[o], Target(t)>> \in AllowedOrderTransitions
           /\ request' = [request EXCEPT ![r] = p]
        \/ /\ order[o] = Target(t)
           /\ request' = [request EXCEPT ![r] = AfterStatus(p)]
    BY <1>8 DEF RequestStatus, p
  <2>3. ASSUME <<order[o], Target(t)>> \in AllowedOrderTransitions,
               request' = [request EXCEPT ![r] = p]
        PROVE  Kept
    <3>1. Alone(p, order', item', row')
      BY <1>2, <2>1, <2>3 DEF Alone, Settling, Recalculating
    <3> QED
      BY <1>3, <2>3, <3>1
  <2>4. ASSUME order[o] = Target(t), request' = [request EXCEPT ![r] = AfterStatus(p)]
        PROVE  Kept
    <3> DEFINE q == AfterStatus(p)
    <3>1. /\ q.task = t /\ q.order = o /\ q.staged = {}
          /\ t = "paid" => q.step = "done"
          /\ t = "cancel" => q.step = "release" /\ q.todo = ItemsOf(o)
          /\ t = "fulfil" => q.step = "sell"
      BY <2>1 DEF AfterStatus, Request
    <3> HIDE DEF q
    <3>2. Alone(q, order', item', row')
      BY <1>2, <2>4, <3>1 DEF Alone, Settling, Recalculating, Target
    <3> QED
      BY <1>3, <2>4, <3>2 DEF q
  <2> QED
    BY <2>2, <2>3, <2>4
<1> QED
  BY <1>4, <1>5, <1>6, <1>7, <1>8 DEF Begin

\* An order is inserted with its items, and nothing of it is sold or released.
LEMMA CreateAlone ==
    ASSUME Base, NEW r \in Requests, CreateOrder(r)
    PROVE  Kept
<1> DEFINE o == request[r].order
           q == [[request[r] EXCEPT !.todo = ItemsOf(o)] EXCEPT !.step = "allocate"]
<1>1. /\ request[r] \in Request /\ request[r].step = "create" /\ request[r].task \in Tasks
      /\ request[r].step \in StepsOf(request[r].task)
      /\ Alone(request[r], order, item, row) /\ Sound(request[r], order, row)
  BY DEF CreateOrder, Base, TypeInv, TypeOK, TaskSteps, Request, SerialInv, AllAlone,
         ReservedInv, AllSound
<1>2. request[r].task = "order"
  BY <1>1 DEF StepsOf, Recalculating, Tasks
<1>3. /\ o \in Orders /\ order[o] = "ABSENT" /\ request[r].staged = {}
  BY <1>1, <1>2 DEF Alone, Sound
<1>4. /\ q.task = "order" /\ q.step = "allocate" /\ q.todo = ItemsOf(o) /\ q.order = o
      /\ q.staged = {}
  BY <1>1, <1>2, <1>3 DEF Request
<1>5. request' = [request EXCEPT ![r] = q]
  BY DEF CreateOrder, Continue
<1>6. /\ order'[o] = "PENDING" /\ \A p \in Orders : p # o => order'[p] = order[p]
      /\ \A i \in Items : item'[i] = IF OrderOf[i] = o THEN "PENDING" ELSE item[i]
  BY <1>3 DEF CreateOrder, Base, TypeInv, TypeOK
<1> HIDE DEF q, o
<1>7. Alone(q, order', item', row')
  BY <1>4, <1>6 DEF Alone, Settling, Recalculating
<1>8. (OneAtATime /\ AllAlone)'
  BY <1>1, <1>5, <1>7, OthersIdle, OneAlone
<1>9. ItemsFollowOrder'
  BY <1>3, <1>6, MarketplaceAssumption DEF Base, SerialInv, ItemsFollowOrder
<1>10. OrderlyStep
  BY <1>3, <1>6, MarketplaceAssumption DEF OrderlyStep, Base, SerialInv, ItemsFollowOrder
<1> QED
  BY <1>8, <1>9, <1>10 DEF Kept, SerialInv

\* The loops change neither an order nor an item.
LEMMA LoopAlone ==
    ASSUME Base, NEW r \in Requests, AllocateItem(r) \/ ReleaseItem(r)
    PROVE  Kept
<1>1. /\ request[r] \in Request /\ request[r].step \in {"allocate", "release"}
      /\ request[r].step \in StepsOf(request[r].task) /\ request[r].task \in Tasks
      /\ Alone(request[r], order, item, row)
  BY DEF AllocateItem, ReleaseItem, Base, TypeInv, TypeOK, TaskSteps, SerialInv, AllAlone, Request
<1>2. UNCHANGED <<order, item, row>>
  BY DEF AllocateItem, ReleaseItem
<1>3. ASSUME NEW q, request' = [request EXCEPT ![r] = q], Alone(q, order', item', row')
      PROVE  Kept
  BY <1>1, <1>2, <1>3, OthersIdle, OneAlone, SameOrders DEF Kept, SerialInv
<1>4. CASE AllocateItem(r)
  <2>1. request[r].task = "order" /\ request[r].step = "allocate"
    BY <1>1, <1>4 DEF AllocateItem, StepsOf, Recalculating, Tasks
  <2>2. PICK i \in Items :
          \/ Continue(r, "reserve", [request[r] EXCEPT
                !.draft = Draft(i, ListingOf[i], Quantity[i])])
          \/ Abandon(r)
          \/ Continue(r, "allocate", [request[r] EXCEPT !.todo = @ \ {i}])
    BY <1>4 DEF AllocateItem
  <2>3. CASE Abandon(r)
    BY <1>1, <1>2, <2>3, AbandonAlone DEF Idle
  <2>4. CASE ~Abandon(r)
    <3>1. PICK q : /\ request' = [request EXCEPT ![r] = q]
                   /\ q \in {[[request[r] EXCEPT !.draft = Draft(i, ListingOf[i], Quantity[i])]
                                  EXCEPT !.step = "reserve"],
                             [[request[r] EXCEPT !.todo = @ \ {i}] EXCEPT !.step = "allocate"]}
      BY <2>2, <2>4 DEF Continue
    <3>2. /\ q.task = "order" /\ q.step \in {"reserve", "allocate"}
          /\ q.order = request[r].order /\ q.staged = request[r].staged
      BY <1>1, <2>1, <3>1 DEF Request
    <3>3. Alone(q, order', item', row')
      BY <1>1, <1>2, <2>1, <3>2 DEF Alone
    <3> QED
      BY <1>3, <3>1, <3>3
  <2> QED
    BY <2>3, <2>4
<1>5. CASE ReleaseItem(r)
  <2> DEFINE o == request[r].order
  <2>1. request[r].task \in {"cancel", "fulfil"} /\ request[r].step = "release"
    BY <1>1, <1>5 DEF ReleaseItem, StepsOf, Recalculating, Tasks
  <2>2. PICK i \in Items :
          /\ i \in request[r].todo
          /\ \A x \in Rows : row[x].source = i => row[x].status # "ACTIVE"
          /\ Continue(r, "release", [request[r] EXCEPT
               !.todo = @ \ {i},
               !.staged = IF item[i] \in {"SOLD", "RELEASED"} THEN @ ELSE @ \cup {i}])
    BY <1>5 DEF ReleaseItem, First
  <2> DEFINE staged == IF item[i] \in {"SOLD", "RELEASED"} THEN request[r].staged
                                                         ELSE request[r].staged \cup {i}
             q == [[request[r] EXCEPT !.todo = @ \ {i}, !.staged = staged] EXCEPT !.step = "release"]
  <2>3. request' = [request EXCEPT ![r] = q]
    BY <1>1, <2>2 DEF Continue, Request
  <2>4. /\ q.task = request[r].task /\ q.step = "release" /\ q.order = o
        /\ q.todo = request[r].todo \ {i} /\ q.staged = staged
    BY <1>1 DEF Request
  <2>5. /\ request[r].task = "fulfil" => staged = request[r].staged
        /\ request[r].task = "cancel" => staged \subseteq ItemsOf(o)
    BY <1>1, <2>1, <2>2 DEF Alone, Settling
  <2> HIDE DEF q, staged
  <2>6. Alone(q, order', item', row')
    BY <1>1, <1>2, <2>1, <2>2, <2>4, <2>5 DEF Alone, Settling
  <2> QED
    BY <1>3, <2>3, <2>6
<1> QED
  BY <1>4, <1>5

\* A reservation is made for a request that settles nothing.
LEMMA ReserveAlone ==
    ASSUME Base, NEW r \in Requests, Reserve(r)
    PROVE  Kept
<1> DEFINE q == [[request[r] EXCEPT !.staged = {}, !.stale = {request[r].draft.listing}]
                    EXCEPT !.step = "recalculate"]
<1>1. /\ request[r] \in Request /\ request[r].step = "reserve" /\ request[r].task \in Tasks
      /\ request[r].step \in StepsOf(request[r].task)
      /\ Alone(request[r], order, item, row)
  BY DEF Reserve, Base, TypeInv, TypeOK, TaskSteps, Request, SerialInv, AllAlone
<1>2. request[r].task \in {"order", "hold"}
  BY <1>1 DEF StepsOf, Recalculating, Tasks
<1>3. /\ q.step = "recalculate" /\ q.task = request[r].task /\ q.order = request[r].order
      /\ q.staged = {}
  BY <1>1 DEF Request
<1>4. request' = [request EXCEPT ![r] = q] /\ order' = order /\ item' = Flushed(r)
  BY DEF Reserve, Continue
<1> HIDE DEF q
<1>5. Alone(q, order', item', row')
  BY <1>1, <1>2, <1>3, <1>4 DEF Alone
<1>6. (OneAtATime /\ AllAlone)'
  BY <1>1, <1>4, <1>5, OthersIdle, OneAlone
<1> QED
  BY <1>1, <1>4, <1>6, FlushFollows DEF Kept, SerialInv

\* A recalculation changes neither an order nor an item.
LEMMA RecalculateAlone ==
    ASSUME Base, NEW r \in Requests, ReadFigures(r) \/ WriteSnapshot(r)
    PROVE  Kept
<1>1. /\ request[r] \in Request /\ request[r].step \in StepsOf(request[r].task)
      /\ request[r].step \in Recalculating /\ request[r].task \in Tasks
      /\ Alone(request[r], order, item, row) /\ Sound(request[r], order, row)
      /\ UNCHANGED <<order, item, row>>
  BY DEF ReadFigures, WriteSnapshot, Base, TypeInv, TypeOK, TaskSteps, Recalculating, Request,
         ReservedInv, AllSound, SerialInv, AllAlone
<1>2. ASSUME NEW q, request' = [request EXCEPT ![r] = q], Alone(q, order', item', row')
      PROVE  Kept
  BY <1>1, <1>2, OthersIdle, OneAlone, SameOrders DEF Kept, SerialInv, Recalculating
<1>3. CASE ReadFigures(r)
  <2>1. PICK l \in request[r].stale :
            Continue(r, "write", [request[r] EXCEPT !.at = l, !.figure = Available(l)])
    BY <1>3 DEF ReadFigures
  <2> DEFINE q == [[request[r] EXCEPT !.at = l, !.figure = Available(l)] EXCEPT !.step = "write"]
  <2>2. /\ q.step = "write" /\ q.task = request[r].task /\ q.order = request[r].order
        /\ q.todo = request[r].todo /\ q.staged = request[r].staged
    BY <1>1 DEF Request
  <2>3. request' = [request EXCEPT ![r] = q]
    BY <2>1 DEF Continue
  <2> HIDE DEF q
  <2>4. Alone(q, order', item', row')
    BY <1>1, <2>2 DEF Alone, Recalculating, Settling
  <2> QED
    BY <1>2, <2>3, <2>4
<1>4. CASE WriteSnapshot(r)
  <2> DEFINE q == AfterWrite(request[r])
  <2>1. request[r].step = "write"
    BY <1>4 DEF WriteSnapshot
  <2>2. request[r].task = "order" => request[r].draft.for \in Items
    BY <1>1, <2>1 DEF Base, TypeInv, DraftNamesItem, Recalculating
  <2>3. /\ q.task = request[r].task /\ q.order = request[r].order
        /\ q.step \in {"recalculate", "allocate", "release", "done"}
        /\ q.step \in StepsOf(q.task)
    BY <1>1, <2>1, <2>2, AfterWriteType
  <2>4. /\ request[r].task # "order" =>
              q.todo = request[r].todo /\ q.staged = request[r].staged
        /\ request[r].task = "order" =>
              q.staged \subseteq request[r].staged \cup {request[r].draft.for}
        /\ request[r].task \in {"cancel", "fulfil"} => q.step # "done"
    BY <1>1 DEF AfterWrite, Request
  <2>5. request' = [request EXCEPT ![r] = q]
    BY <1>4 DEF WriteSnapshot
  <2>6. request[r].task = "order" => request[r].draft.for \in ItemsOf(request[r].order)
    BY <1>1, <2>1 DEF Sound, Recalculating
  <2> HIDE DEF q
  <2>7. Alone(q, order', item', row')
    <3>1. CASE request[r].task = "order"
      BY <1>1, <2>1, <2>3, <2>4, <2>6, <3>1 DEF Alone, Recalculating
    <3>2. CASE request[r].task # "order"
      BY <1>1, <2>1, <2>3, <2>4, <3>2 DEF Alone, Recalculating, Settling
    <3> QED
      BY <3>1, <3>2
  <2> QED
    BY <1>2, <2>5, <2>7
<1> QED
  BY <1>3, <1>4

\* A status is committed as it was read.
LEMMA StatusAlone ==
    ASSUME Base, NEW r \in Requests, CommitStatus(r)
    PROVE  Kept
<1> DEFINE o == request[r].order
           t == request[r].task
           q == AfterStatus(request[r])
<1>1. /\ request[r] \in Request /\ request[r].step = "status"
      /\ request[r].step \in StepsOf(t) /\ t \in Tasks
      /\ Alone(request[r], order, item, row) /\ Sound(request[r], order, row)
      /\ order \in [Orders -> OrderStatus]
  BY DEF CommitStatus, Base, TypeInv, TypeOK, TaskSteps, Request, SerialInv, AllAlone,
         ReservedInv, AllSound
<1>2. t \in {"paid", "cancel", "fulfil"}
  BY <1>1 DEF StepsOf, Recalculating, Tasks
<1>3. /\ <<order[o], Target(t)>> \in AllowedOrderTransitions /\ request[r].staged = {}
      /\ o \in Orders
  BY <1>1, <1>2 DEF Alone, Sound
<1>4. /\ order'[o] = Target(t) /\ \A p \in Orders : p # o => order'[p] = order[p]
      /\ item' = item /\ row' = row /\ request' = [request EXCEPT ![r] = q]
  BY <1>1, <1>3 DEF CommitStatus
<1>5. /\ q.task = t /\ q.order = o /\ q.staged = {}
      /\ t = "paid" => q.step = "done"
      /\ t = "cancel" => q.step = "release" /\ q.todo = ItemsOf(o)
      /\ t = "fulfil" => q.step = "sell"
  BY <1>1, <1>2, <1>3 DEF AfterStatus, Request
<1> HIDE DEF q, o, t
<1>6. Alone(q, order', item', row')
  BY <1>2, <1>4, <1>5 DEF Alone, Settling, Recalculating, Target
<1>7. (OneAtATime /\ AllAlone)'
  BY <1>1, <1>4, <1>6, OthersIdle, OneAlone
<1>8. order[o] \in {"PENDING", "PAID"}
  BY <1>3 DEF AllowedOrderTransitions
<1>9. ItemsFollowOrder'
  BY <1>4, <1>8, MarketplaceAssumption DEF Base, SerialInv, ItemsFollowOrder
<1>10. OrderlyStep
  BY <1>3, <1>4 DEF OrderlyStep
<1> QED
  BY <1>7, <1>9, <1>10 DEF Kept, SerialInv

\* The items of a fulfilled order are sold.
LEMMA SellAlone ==
    ASSUME Base, NEW r \in Requests, SellItems(r)
    PROVE  Kept
<1> DEFINE o == request[r].order
           q == [[request[r] EXCEPT !.todo = ItemsOf(o)] EXCEPT !.step = "release"]
<1>1. /\ request[r] \in Request /\ request[r].step = "sell" /\ request[r].task \in Tasks
      /\ request[r].step \in StepsOf(request[r].task)
      /\ Alone(request[r], order, item, row)
  BY DEF SellItems, Base, TypeInv, TypeOK, TaskSteps, Request, SerialInv, AllAlone
<1>2. request[r].task = "fulfil"
  BY <1>1 DEF StepsOf, Recalculating, Tasks
<1>3. order[o] = "FULFILLED" /\ request[r].staged = {}
  BY <1>1, <1>2 DEF Alone
<1>4. /\ q.task = "fulfil" /\ q.step = "release" /\ q.order = o /\ q.staged = {}
      /\ q.todo = ItemsOf(o)
  BY <1>1, <1>2, <1>3 DEF Request
<1>5. /\ request' = [request EXCEPT ![r] = q] /\ order' = order /\ row' = row
      /\ \A i \in Items : item'[i] = IF i \in ItemsOf(o) THEN "SOLD" ELSE item[i]
  BY DEF SellItems, Continue
<1> HIDE DEF q, o
<1>6. Alone(q, order', item', row')
  BY <1>3, <1>4, <1>5 DEF Alone, Settling, Recalculating, ItemsOf
<1>7. (OneAtATime /\ AllAlone)'
  BY <1>1, <1>5, <1>6, OthersIdle, OneAlone
<1>8. ItemsFollowOrder' /\ OrderlyStep
  BY <1>3, <1>5 DEF Base, SerialInv, ItemsFollowOrder, OrderlyStep, ItemsOf
<1> QED
  BY <1>7, <1>8 DEF Kept, SerialInv

\* A released row is of an item the loop has reached, and no row comes back.
LEMMA ReleaseAlone ==
    ASSUME Base, NEW r \in Requests, ReleaseRow(r)
    PROVE  Kept
<1>1. /\ request[r] \in Request /\ request[r].step = "release" /\ request[r].task \in Tasks
      /\ request[r].step \in StepsOf(request[r].task)
      /\ Alone(request[r], order, item, row) /\ row \in [Rows -> Reservation]
  BY DEF ReleaseRow, Base, TypeInv, TypeOK, TaskSteps, Request, SerialInv, AllAlone
<1>2. request[r].task \in {"cancel", "fulfil"}
  BY <1>1 DEF StepsOf, Recalculating, Tasks
<1>3. PICK x \in Rows :
          /\ row' = [row EXCEPT ![x].status = "RELEASED"]
          /\ Continue(r, "recalculate", [request[r] EXCEPT
                 !.staged = {}, !.stale = {row[x].listing}])
  BY DEF ReleaseRow
<1> DEFINE q == [[request[r] EXCEPT !.staged = {}, !.stale = {row[x].listing}]
                    EXCEPT !.step = "recalculate"]
<1>4. /\ q.step = "recalculate" /\ q.task = request[r].task /\ q.order = request[r].order
      /\ q.staged = {} /\ q.todo = request[r].todo
  BY <1>1 DEF Request
<1>5. /\ request' = [request EXCEPT ![r] = q] /\ order' = order /\ item' = Flushed(r)
  BY <1>3 DEF ReleaseRow, Continue
<1>6. \A y \in Rows : /\ row'[y].source = row[y].source
                      /\ row'[y].status = "ACTIVE" => row[y].status = "ACTIVE"
  BY <1>1, <1>3 DEF Reservation
<1>7. \A i \in Items : item[i] = "SOLD" => item'[i] = "SOLD"
  BY <1>1, <1>5, FlushFollows
<1> HIDE DEF q
<1>8. request[r].task = "fulfil" => \A i \in request[r].todo : i \in Items /\ item[i] = "SOLD"
  BY <1>1 DEF Alone, Settling, Request
<1>9. Alone(q, order', item', row')
  <2>1. ASSUME NEW y \in Rows, row'[y].source \in ItemsOf(q.order) \ q.todo
        PROVE  row'[y].status # "ACTIVE"
    <3>1. row[y].source \in ItemsOf(request[r].order) \ request[r].todo
      BY <1>4, <1>6, <2>1
    <3>2. row[y].status # "ACTIVE"
      BY <1>1, <1>2, <3>1 DEF Alone, Settling
    <3> QED
      BY <1>6, <3>2
  <2>2. q.task = "fulfil" => \A i \in q.todo : item'[i] = "SOLD"
    BY <1>4, <1>7, <1>8
  <2> QED
    BY <1>1, <1>2, <1>4, <1>5, <2>1, <2>2 DEF Alone, Recalculating
<1>10. (OneAtATime /\ AllAlone)'
  BY <1>1, <1>5, <1>9, OthersIdle, OneAlone
<1> QED
  BY <1>1, <1>5, <1>10, FlushFollows DEF Kept, SerialInv

\* A loop ends with nothing to do.
LEMMA FinishAlone ==
    ASSUME Base, NEW r \in Requests, FinishItems(r)
    PROVE  Kept
<1> DEFINE q == [[request[r] EXCEPT !.staged = {}] EXCEPT !.step = "done"]
<1>1. /\ request[r] \in Request /\ request[r].step \in {"allocate", "release"}
      /\ request[r].step \in StepsOf(request[r].task) /\ request[r].task \in Tasks
      /\ Alone(request[r], order, item, row) /\ request[r].todo = {}
  BY DEF FinishItems, Base, TypeInv, TypeOK, TaskSteps, Request, SerialInv, AllAlone
<1>2. /\ request[r].task \in {"order", "cancel", "fulfil"}
      /\ request[r].task \in {"cancel", "fulfil"} => request[r].step = "release"
  BY <1>1 DEF StepsOf, Recalculating, Tasks
<1>3. /\ q.step = "done" /\ q.task = request[r].task /\ q.order = request[r].order
      /\ q.staged = {} /\ q.todo = {}
  BY <1>1 DEF Request
<1>4. request' = [request EXCEPT ![r] = q] /\ order' = order /\ item' = Flushed(r) /\ row' = row
  BY DEF FinishItems, Continue
<1> HIDE DEF q
<1>5. Alone(q, order', item', row')
  BY <1>1, <1>2, <1>3, <1>4 DEF Alone, Settling, Recalculating
<1>6. (OneAtATime /\ AllAlone)'
  BY <1>1, <1>4, <1>5, OthersIdle, OneAlone
<1> QED
  BY <1>1, <1>4, <1>6, FlushFollows DEF Kept, SerialInv

-----------------------------------------------------------------------------
(* The theorems                                                             *)

\* Every step keeps the invariant, and is orderly.
LEMMA SerialStep ==
    ASSUME "overlap" \notin Faults, Base, [Next]_vars
    PROVE  SerialInv' /\ [OrderlyStep]_vars
<1>1. ASSUME NEW r \in Requests, Begin(r) \/ Advance(r) \/ Crash(r)
      PROVE  Kept
  <2>1. RefuseOrder(r) \/ Answer(r) \/ Crash(r) => Kept
    <3>1. Idle.step = "idle"
      BY DEF Idle
    <3> QED
      BY <3>1, AbandonAlone DEF RefuseOrder, Answer, Crash
  <2> QED
    BY <1>1, <2>1, BeginAlone, CreateAlone, LoopAlone, ReserveAlone, RecalculateAlone,
       StatusAlone, SellAlone, ReleaseAlone, FinishAlone DEF Advance
<1>2. CASE UNCHANGED <<order, item, row, request>>
  BY <1>2, SameOrders DEF Base, SerialInv, OneAtATime, AllAlone
<1> QED
  BY <1>1, <1>2 DEF Next, ReadAvailability, Restock, vars, Kept

\* What is said of every behaviour whose requests do not overlap.
LEMMA SerialInvariant ==
    ASSUME "overlap" \notin Faults
    PROVE  Spec => []Base /\ [][OrderlyStep]_vars
<1>1. Init => SerialInv
  <2> SUFFICES ASSUME Init PROVE SerialInv
    OBVIOUS
  <2>1. \A r \in Requests : Alone(request[r], order, item, row)
    BY DEF Init, Alone, Idle, Settling, Recalculating
  <2> QED
    BY <2>1, MarketplaceAssumption
       DEF Init, SerialInv, AllAlone, OneAtATime, ItemsFollowOrder
<1>2. Base /\ [Next]_vars => SerialInv' /\ [OrderlyStep]_vars
  BY SerialStep
<1> QED
  BY <1>1, <1>2, ReservedInvariant, PTL DEF Spec, Base

\* Items are sold with their order's fulfilment, and released with its cancellation.
THEOREM ItemsFollowOrderAlways ==
    ASSUME "overlap" \notin Faults
    PROVE  Spec => []ItemsFollowOrder
<1>1. Base => ItemsFollowOrder
  BY DEF Base, SerialInv
<1> QED
  BY <1>1, SerialInvariant, PTL

\* A cancel or a fulfilment that answers leaves no active reservation that
\* names an item of the order.
THEOREM AnswerSettlesOrderAlways ==
    ASSUME "overlap" \notin Faults
    PROVE  Spec => []AnswerSettlesOrder
<1>1. Base => AnswerSettlesOrder
  <2> SUFFICES ASSUME Base, NEW r \in Requests, request[r].step = "done",
                      request[r].task \in {"cancel", "fulfil"},
                      NEW x \in Rows, row[x].source \in ItemsOf(request[r].order)
               PROVE  row[x].status # "ACTIVE"
    BY DEF AnswerSettlesOrder
  <2> QED
    BY DEF Base, SerialInv, AllAlone, Alone, Settling
<1> QED
  BY <1>1, SerialInvariant, PTL

\* Orders move as the table of transitions allows, and a sold item stays sold.
THEOREM OrderlyAlways ==
    ASSUME "overlap" \notin Faults
    PROVE  Spec => Orderly
<1> QED
  BY SerialInvariant, PTL DEF Orderly
=============================================================================
