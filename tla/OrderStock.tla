------------------------------ MODULE OrderStock ------------------------------
(***************************************************************************)
(* Placing, soft-deleting and restoring orders, and the stock they move:   *)
(* createOrder, softDeleteOrder and restoreOrder of                        *)
(* controllers/orderController.js, one action per SQL statement that can   *)
(* meet another request.                                                   *)
(*                                                                         *)
(* The database is PostgreSQL at its default isolation, READ COMMITTED: a  *)
(* SELECT sees what is committed when it runs and takes no lock, an UPDATE *)
(* waits for the transaction that last updated the row and then applies to *)
(* the newest committed row, and a wait cycle is broken by aborting one of *)
(* the transactions in it.  The handlers change stock only by the relative *)
(* UPDATEs of increment and decrement, so a transaction's own changes are  *)
(* kept as a difference (pend) that COMMIT adds to the row.                *)
(*                                                                         *)
(* A request is handled once.  The id an INSERT draws from the sequence is *)
(* used by no other order, so an order is named by the request that        *)
(* creates it.                                                             *)
(***************************************************************************)
EXTENDS Integers, Sequences, Functions

CONSTANTS
    Products,      \* product ids a request may name
    Requests,      \* the requests the server receives
    Baskets,       \* req.body.items: sequences of [product, quantity]
    InitStock,     \* products.stock before the first request
    StatusWrites,  \* what the status job and PUT/PATCH write in this instance
    Nobody         \* the holder of a free row lock

Orders == Requests
Rows == Products \cup Orders
Statuses == {"pending", "processing", "shipped", "delivered", "cancelled"}

\* A handler inside its transaction: about to write the order row, looping
\* over the order's lines, or about to commit.
Working == {"row", "lines", "commit"}

ASSUME BasketAssumption ==
    Baskets \subseteq Seq([product : Products, quantity : Int])
ASSUME StockAssumption == InitStock \in [Products -> Int]
ASSUME StatusAssumption == StatusWrites \subseteq Statuses
ASSUME IdAssumption == Products \cap Orders = {} /\ Nobody \notin Rows

VARIABLES
    stock,    \* products.stock, committed
    listed,   \* products whose deleted_at is null
    row,      \* orders: no row, a live row, or one with deleted_at set
    status,   \* orders.status, committed
    items,    \* order_items of each order, in the order they were written
    pc,       \* where each request's handler is
    op,       \* what each request asks for
    oid,      \* the order each request works on
    seen,     \* order.status as the handler's findByPk returned it
    next,     \* the line the handler's loop is at
    pend,     \* the stock change of each open transaction
    lock,     \* the transaction that holds each row
    held,     \* history: times an order's lines are taken out of the stock
    overlap   \* history: orders two delete/restore handlers worked on at once

rows == <<stock, listed, row, status, items>>
handlers == <<pc, op, oid, seen, next, pend>>
vars == <<rows, handlers, lock, held, overlap>>

NoChange == [p \in Products |-> 0]

Init ==
    /\ stock = InitStock
    /\ listed = Products
    /\ row = [o \in Orders |-> "absent"]
    /\ status = [o \in Orders |-> "pending"]
    /\ items = [o \in Orders |-> <<>>]
    /\ pc = [r \in Requests |-> "idle"]
    /\ op = [r \in Requests |-> "create"]
    /\ oid = [r \in Requests |-> r]
    /\ seen = [r \in Requests |-> "pending"]
    /\ next = [r \in Requests |-> 1]
    /\ pend = [r \in Requests |-> NoChange]
    /\ lock = [x \in Rows |-> Nobody]
    /\ held = [o \in Orders |-> 0]
    /\ overlap = {}

InFlight(r) == pc[r] \in Working

LinesLeft(r) == next[r] <= Len(items[oid[r]])
Line(r) == items[oid[r]][next[r]]

\* increment for a delete, decrement for a create or a restore
Change(r) == IF op[r] = "delete" THEN Line(r).quantity ELSE -Line(r).quantity

-----------------------------------------------------------------------------
(* The first SELECT of each handler, and the early returns it decides.       *)

\* Product.findAll runs outside the transaction; each line is checked alone.
InStock(b) ==
    \A i \in DOMAIN b : /\ b[i].product \in listed
                        /\ stock[b[i].product] >= b[i].quantity

StartCreate(r, b) ==
    /\ pc[r] = "idle"
    /\ pc' = [pc EXCEPT ![r] = IF InStock(b) THEN "row" ELSE "refused"]
    /\ items' = [items EXCEPT ![r] = b]
    /\ UNCHANGED <<stock, listed, row, status, op, oid, seen, next, pend,
                   lock, held, overlap>>

\* Another handler is between its read of order o and its commit.
Busy(r, o) == \E q \in Requests \ {r} : InFlight(q) /\ oid[q] = o

StartOn(r, o, what, accepted, first) ==
    /\ pc[r] = "idle"
    /\ op' = [op EXCEPT ![r] = what]
    /\ oid' = [oid EXCEPT ![r] = o]
    /\ seen' = [seen EXCEPT ![r] = status[o]]
    /\ pc' = [pc EXCEPT ![r] = IF accepted THEN first ELSE "refused"]
    /\ overlap' = IF accepted /\ Busy(r, o) THEN overlap \cup {o} ELSE overlap
    /\ UNCHANGED <<rows, next, pend, lock, held>>

StartDeleteUnscoped(r, o) ==
    StartOn(r, o, "delete", row[o] # "absent" /\ status[o] # "delivered", "lines")

\* findByPk hides a deleted row (404); a delivered order is refused (400).
StartDelete(r, o) ==
    StartOn(r, o, "delete", row[o] = "live" /\ status[o] # "delivered", "lines")

\* findByPk with paranoid: false; an order that is not deleted is refused.
StartRestore(r, o) ==
    StartOn(r, o, "restore", row[o] = "deleted", "row")

-----------------------------------------------------------------------------
(* The statements inside the transaction.                                    *)

CanLock(r, x) == lock[x] \in {Nobody, r}

\* INSERT of a new order; UPDATE of deleted_at and status of an existing one.
WriteOrder(r) ==
    /\ pc[r] = "row"
    /\ CanLock(r, oid[r])
    /\ lock' = [lock EXCEPT ![oid[r]] = r]
    /\ pc' = [pc EXCEPT ![r] = IF op[r] = "delete" THEN "commit" ELSE "lines"]
    /\ UNCHANGED <<rows, op, oid, seen, next, pend, held, overlap>>

MoveStockOutside(r) ==
    /\ pc[r] = "lines"
    /\ LinesLeft(r)
    /\ CanLock(r, Line(r).product)
    /\ stock' = [stock EXCEPT ![Line(r).product] = @ + Change(r)]
    /\ next' = [next EXCEPT ![r] = @ + 1]
    /\ UNCHANGED <<listed, row, status, items, pc, op, oid, seen, pend, lock, held, overlap>>

\* One turn of the loop over the lines: UPDATE products SET stock = stock +- n.
MoveStock(r) ==
    /\ pc[r] = "lines"
    /\ LinesLeft(r)
    /\ CanLock(r, Line(r).product)
    /\ lock' = [lock EXCEPT ![Line(r).product] = r]
    /\ pend' = [pend EXCEPT ![r][Line(r).product] = @ + Change(r)]
    /\ next' = [next EXCEPT ![r] = @ + 1]
    /\ UNCHANGED <<rows, pc, op, oid, seen, held, overlap>>

EndLoopForgettingRestores(r) ==
    /\ pc[r] = "lines"
    /\ ~LinesLeft(r)
    /\ op[r] # "restore"
    /\ pc' = [pc EXCEPT ![r] = IF op[r] = "delete" THEN "row" ELSE "commit"]
    /\ UNCHANGED <<rows, op, oid, seen, next, pend, lock, held, overlap>>

EndLoop(r) ==
    /\ pc[r] = "lines"
    /\ ~LinesLeft(r)
    /\ pc' = [pc EXCEPT ![r] = IF op[r] = "delete" THEN "row" ELSE "commit"]
    /\ UNCHANGED <<rows, op, oid, seen, next, pend, lock, held, overlap>>

Unlock(r) == [x \in Rows |-> IF lock[x] = r THEN Nobody ELSE lock[x]]

NewStatusMisspelt(r) == IF op[r] = "delete" THEN "canceled" ELSE "pending"

\* order.update writes only a column whose value differs from the one read.
NewStatus(r) ==
    CASE op[r] = "delete"  -> IF seen[r] = "cancelled" THEN status[oid[r]] ELSE "cancelled"
      [] op[r] = "restore" -> IF seen[r] = "pending" THEN status[oid[r]] ELSE "pending"
      [] OTHER -> "pending"

Commit(r) ==
    /\ pc[r] = "commit"
    /\ stock' = [p \in Products |-> stock[p] + pend[r][p]]
    /\ row' = [row EXCEPT ![oid[r]] = IF op[r] = "delete" THEN "deleted" ELSE "live"]
    /\ status' = [status EXCEPT ![oid[r]] = NewStatus(r)]
    /\ held' = [held EXCEPT ![oid[r]] = IF op[r] = "delete" THEN @ - 1 ELSE @ + 1]
    /\ pend' = [pend EXCEPT ![r] = NoChange]
    /\ lock' = Unlock(r)
    /\ pc' = [pc EXCEPT ![r] = "done"]
    /\ UNCHANGED <<listed, items, op, oid, seen, next, overlap>>

RollbackForgotten(r) ==
    /\ pc' = [pc EXCEPT ![r] = "refused"]
    /\ UNCHANGED <<rows, op, oid, seen, next, pend, lock, held, overlap>>

Rollback(r) ==
    /\ pend' = [pend EXCEPT ![r] = NoChange]
    /\ lock' = Unlock(r)
    /\ pc' = [pc EXCEPT ![r] = "refused"]
    /\ UNCHANGED <<rows, op, oid, seen, next, held, overlap>>

\* A statement fails, a hook throws, or the process dies.
Fail(r) == InFlight(r) /\ Rollback(r)

Wanted(r) == IF pc[r] = "row" THEN oid[r] ELSE Line(r).product
Waiting(r) ==
    /\ pc[r] = "row" \/ (pc[r] = "lines" /\ LinesLeft(r))
    /\ ~CanLock(r, Wanted(r))

\* r is on a cycle of the waits-for relation.
Deadlocked(r) ==
    \E C \in SUBSET {q \in Requests : Waiting(q)} :
        r \in C /\ C = {lock[Wanted(q)] : q \in C}

\* PostgreSQL aborts a transaction of the cycle; the handler's catch answers 500.
DeadlockAbort(r) == Deadlocked(r) /\ Rollback(r)

-----------------------------------------------------------------------------
(* The rest of the system, as far as these rows see it.                      *)

\* The status job, PUT and PATCH write orders.status outside any transaction.
WriteStatus(o, s) ==
    /\ row[o] # "absent"
    /\ lock[o] = Nobody
    /\ status' = [status EXCEPT ![o] = s]
    /\ UNCHANGED <<stock, listed, row, items, handlers, lock, held, overlap>>

\* softDeleteProduct and restoreProduct
ListProduct(p) ==
    /\ lock[p] = Nobody
    /\ listed' = IF p \in listed THEN listed \ {p} ELSE listed \cup {p}
    /\ UNCHANGED <<stock, row, status, items, handlers, lock, held, overlap>>

Work(r) == WriteOrder(r) \/ MoveStock(r) \/ EndLoop(r) \/ Commit(r)

Next ==
    \/ \E r \in Requests : \/ \E b \in Baskets : StartCreate(r, b)
                           \/ \E o \in Orders : StartDelete(r, o) \/ StartRestore(r, o)
                           \/ Work(r)
                           \/ Fail(r)
                           \/ DeadlockAbort(r)
    \/ \E o \in Orders, s \in StatusWrites : WriteStatus(o, s)
    \/ \E p \in Products : ListProduct(p)

Spec == Init /\ [][Next]_vars

\* Node runs every handler on to its next await, and PostgreSQL answers every
\* statement that is not waiting and breaks every deadlock.
Fairness == \A r \in Requests : WF_vars(Work(r)) /\ WF_vars(DeadlockAbort(r))

FairSpec == Spec /\ Fairness
-----------------------------------------------------------------------------
(* What the handlers promise.                                                *)

\* Every variable stays in its type.
TypeOK ==
    /\ stock \in [Products -> Int]
    /\ listed \subseteq Products
    /\ row \in [Orders -> {"absent", "live", "deleted"}]
    /\ status \in [Orders -> Statuses]
    /\ items \in [Orders -> Seq([product : Products, quantity : Int])]
    /\ pc \in [Requests -> Working \cup {"idle", "refused", "done"}]
    /\ op \in [Requests -> {"create", "delete", "restore"}]
    /\ oid \in [Requests -> Orders]
    /\ seen \in [Requests -> Statuses]
    /\ next \in [Requests -> Nat \ {0}]
    /\ pend \in [Requests -> [Products -> Int]]
    /\ lock \in [Rows -> Requests \cup {Nobody}]
    /\ held \in [Orders -> Int]
    /\ overlap \subseteq Orders

\* Units of product p on each line of order o, and on all of them.
Units(o, p) ==
    [i \in DOMAIN items[o] |-> IF items[o][i].product = p THEN items[o][i].quantity ELSE 0]
Ordered(o, p) == SumFunctionOnSet(Units(o, p), DOMAIN items[o])

\* The orders that have a row, and the units of p each order holds.
Placed == {o \in Orders : row[o] # "absent"}
Taken(p) == [o \in Orders |-> held[o] * Ordered(o, p)]

\* No unit is lost or made up: what is missing from a product's stock is what
\* the committed creates, deletes and restores took, each of them whole.  A
\* transaction that fails half way through its loop, or is the victim of a
\* deadlock, moves nothing.
StockAccounted ==
    \A p \in Products : stock[p] + SumFunctionOnSet(Taken(p), Placed) = InitStock[p]

\* A live order holds its units exactly once and a deleted one holds none, as
\* long as no two delete/restore handlers of that order overlapped: the checks
\* at the head of softDeleteOrder and restoreOrder make them alternate.
HeldWhileLive ==
    \A o \in Orders \ overlap : held[o] = IF row[o] = "live" THEN 1 ELSE 0

\* A row is held only by a request that is still being handled, and a stock
\* change that is not committed is on a row its transaction holds: every path
\* out of a handler ends its transaction, and no two requests change the same
\* row at the same time.
LocksCoverWrites ==
    /\ \A x \in Rows : lock[x] # Nobody => InFlight(lock[x])
    /\ \A r \in Requests, p \in Products : pend[r][p] # 0 => lock[p] = r

\* Every request that enters its transaction is answered, although two
\* baskets may name the same products in opposite orders and delete and
\* restore take the order row and the product rows in opposite orders.
Answered == \A r \in Requests : InFlight(r) ~> ~InFlight(r)

\* "Product stock cannot be negative" (the check of the Product beforeUpdate
\* hook, hooks/productHooks.js:16, which increment and decrement do not run).
StockNonNegative == \A p \in Products : stock[p] >= 0
=============================================================================
