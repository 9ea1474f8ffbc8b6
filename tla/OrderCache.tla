----------------------------- MODULE OrderCache -----------------------------
(***************************************************************************)
(* The Redis copy of an order, order:<id>: getOrderById fills it on a miss *)
(* (controllers/orderController.js), the hooks of hooks/orderHooks.js      *)
(* delete it (utils/cacheHelpers.js), and its time to live ends it.        *)
(*                                                                         *)
(* The copy holds the order's own columns and, nested, its lines' products *)
(* and its customer.  Each part is a version number that a committed       *)
(* change raises; a write to a product or a customer deletes no order:<id> *)
(* key.                                                                    *)
(*                                                                         *)
(* updateOrder, patchOrderStatus and the status job save outside any       *)
(* transaction, so their row is committed when the hook runs.  createOrder,*)
(* softDeleteOrder and restoreOrder write the order row twice inside a     *)
(* transaction, each time with a hook that deletes the key, and commit     *)
(* after that.                                                             *)
(***************************************************************************)
EXTENDS Naturals

CONSTANTS
    Orders, Customers,
    Owner,       \* orders.customer_id
    Readers,     \* GET requests handled at a time
    Writers,     \* requests and jobs that write orders, at a time
    MaxVersion,  \* bound: changes of one order's own columns
    MaxNested,   \* bound: changes of its products and its customer
    None         \* no cached copy

ASSUME OwnerAssumption == Owner \in [Orders -> Customers]
ASSUME BoundAssumption == MaxVersion \in Nat /\ MaxNested \in Nat

Copies == [own : 0 .. MaxVersion, nested : 0 .. MaxNested]
ASSUME NoneAssumption == None \notin Copies

VARIABLES
    row,      \* orders: "absent", "live" or "deleted"
    content,  \* what a read of the order would return
    cache,    \* the value of order:<id>
    ttl,      \* orders whose key has an expiry
    reader,   \* where each getOrderById is
    writer,   \* where each writer is
    shown,    \* history: customers who were sent an order
    raced     \* history: orders whose present key a race or a failed DEL left

vars == <<row, content, cache, ttl, reader, writer, shown, raced>>

Idle == [pc |-> "idle"]

Init ==
    /\ row = [o \in Orders |-> "absent"]
    /\ content = [o \in Orders |-> [own |-> 0, nested |-> 0]]
    /\ cache = [o \in Orders |-> None]
    /\ ttl = {}
    /\ reader = [r \in Readers |-> Idle]
    /\ writer = [w \in Writers |-> Idle]
    /\ shown = {}
    /\ raced = {}

Current(o) == IF row[o] = "live" THEN content[o] ELSE None

\* A writer on order o that is at one of the steps pcs.
At(o, pcs) == \E w \in Writers : writer[w].pc \in pcs /\ writer[w].o = o

-----------------------------------------------------------------------------
(* getOrderById                                                              *)

GetUnchecked(r, c, o) ==
    /\ reader[r] = Idle
    /\ IF cache[o] # None
       THEN /\ shown' = shown \cup {<<c, o>>}
            /\ UNCHANGED reader
       ELSE /\ reader' = [reader EXCEPT ![r] = [pc |-> "find", o |-> o, c |-> c]]
            /\ UNCHANGED shown
    /\ UNCHANGED <<row, content, cache, ttl, writer, raced>>

\* GET order:<id>; a hit answers the owner and refuses everybody else.
Get(r, c, o) ==
    /\ reader[r] = Idle
    /\ IF cache[o] # None
       THEN /\ shown' = IF c = Owner[o] THEN shown \cup {<<c, o>>} ELSE shown
            /\ UNCHANGED reader
       ELSE /\ reader' = [reader EXCEPT ![r] = [pc |-> "find", o |-> o, c |-> c]]
            /\ UNCHANGED shown
    /\ UNCHANGED <<row, content, cache, ttl, writer, raced>>

FindNull(r) ==
    LET o == reader[r].o IN
    /\ reader[r].pc = "find"
    /\ reader' = [reader EXCEPT ![r] =
            [pc |-> "set", o |-> o, c |-> reader[r].c, copy |-> Current(o)]]
    /\ UNCHANGED <<row, content, cache, ttl, writer, shown, raced>>

\* Order.findOne; no row is a 404, another customer's order a 403.
Find(r) ==
    LET o == reader[r].o IN
    /\ reader[r].pc = "find"
    /\ reader' = [reader EXCEPT ![r] =
            IF row[o] = "live" /\ reader[r].c = Owner[o]
            THEN [pc |-> "set", o |-> o, c |-> reader[r].c, copy |-> content[o]]
            ELSE Idle]
    /\ UNCHANGED <<row, content, cache, ttl, writer, shown, raced>>

SetForEver(r) ==
    /\ reader[r].pc = "set"
    /\ cache' = [cache EXCEPT ![reader[r].o] = reader[r].copy]
    /\ ttl' = ttl \ {reader[r].o}
    /\ shown' = shown \cup {<<reader[r].c, reader[r].o>>}
    /\ reader' = [reader EXCEPT ![r] = Idle]
    /\ UNCHANGED <<row, content, writer, raced>>

\* SET with EX 300, then the answer.  It is late if the order changed since it
\* was read, and early if a transaction has deleted the key for the last time
\* and will change the order when it commits.
Set(r) ==
    LET o == reader[r].o
        late == row[o] # "live" \/ reader[r].copy.own # content[o].own
    IN
    /\ reader[r].pc = "set"
    /\ cache' = [cache EXCEPT ![o] = reader[r].copy]
    /\ ttl' = ttl \cup {o}
    /\ shown' = shown \cup {<<reader[r].c, o>>}
    /\ raced' = IF late \/ At(o, {"commit"}) THEN raced \cup {o} ELSE raced \ {o}
    /\ reader' = [reader EXCEPT ![r] = Idle]
    /\ UNCHANGED <<row, content, writer>>

\* PostgreSQL or Redis fails, or the server dies: the copy is not stored.
FailRead(r) ==
    /\ reader[r] # Idle
    /\ reader' = [reader EXCEPT ![r] = Idle]
    /\ UNCHANGED <<row, content, cache, ttl, writer, shown, raced>>

\* The 300 seconds are over.
Expire(o) ==
    /\ cache[o] # None /\ o \in ttl
    /\ cache' = [cache EXCEPT ![o] = None]
    /\ ttl' = ttl \ {o}
    /\ raced' = raced \ {o}
    /\ UNCHANGED <<row, content, reader, writer, shown>>

-----------------------------------------------------------------------------
(* The writers                                                               *)

\* invalidateOrderCache: DEL order:<id>, whose failure is logged and ignored.
invalidateOrderCache(o) ==
    \/ /\ cache' = [cache EXCEPT ![o] = None]
       /\ ttl' = ttl \ {o}
       /\ raced' = raced \ {o}
    \/ /\ raced' = raced \cup {o}
       /\ UNCHANGED <<cache, ttl>>

\* Somebody else's uncommitted write holds the row of order o.
Locked(o) == At(o, {"again", "commit"})

Change(o) == [content EXCEPT ![o].own = @ + 1]
Go(w, o, pc, op) == writer' = [writer EXCEPT ![w] = [pc |-> pc, o |-> o, op |-> op]]

\* The row each writer's first read must find.
Needs == [create |-> "absent", save |-> "live", delete |-> "live", restore |-> "deleted"]

Begin(w, o, op) ==
    /\ writer[w] = Idle
    /\ row[o] = Needs[op]
    /\ op = "create" => ~At(o, {"write", "again", "commit"})
    /\ Go(w, o, "write", op)
    /\ UNCHANGED <<row, content, cache, ttl, reader, shown, raced>>

\* order.save of updateOrder and patchOrderStatus, order.update of the status
\* job: by id, whatever became of the row since the read.
Save(w) ==
    LET o == writer[w].o IN
    /\ writer[w].pc = "write" /\ writer[w].op = "save"
    /\ ~Locked(o)
    /\ content[o].own < MaxVersion
    /\ content' = Change(o)
    /\ Go(w, o, "clear", "save")
    /\ UNCHANGED <<row, cache, ttl, reader, shown, raced>>

AfterUpdateMissing(w) ==
    /\ writer[w].pc = "clear"
    /\ writer' = [writer EXCEPT ![w] = Idle]
    /\ UNCHANGED <<row, content, cache, ttl, reader, shown, raced>>

\* The afterUpdate hook of a save.
AfterUpdate(w) ==
    /\ writer[w].pc = "clear"
    /\ invalidateOrderCache(writer[w].o)
    /\ writer' = [writer EXCEPT ![w] = Idle]
    /\ UNCHANGED <<row, content, reader, shown>>

\* Order.create, order.update or order.restore, with its hook.  The update of
\* a deleted order that is cancelled already writes nothing and runs no hook,
\* and order.destroy is the only write.
FirstWrite(w) ==
    LET o == writer[w].o IN
    /\ writer[w].pc = "write" /\ writer[w].op # "save"
    /\ ~Locked(o)
    /\ invalidateOrderCache(o)
    /\ \/ Go(w, o, "again", writer[w].op)
       \/ writer[w].op = "delete" /\ Go(w, o, "commit", "delete")
    /\ UNCHANGED <<row, content, reader, shown>>

\* order.destroy, or order.update, which may have nothing to write: then a copy
\* that was stored since the first write stays.
SecondWrite(w) ==
    LET o == writer[w].o IN
    /\ writer[w].pc = "again"
    /\ \/ invalidateOrderCache(o)
       \/ /\ writer[w].op # "delete"
          /\ raced' = IF cache[o] # None THEN raced \cup {o} ELSE raced
          /\ UNCHANGED <<cache, ttl>>
    /\ Go(w, o, "commit", writer[w].op)
    /\ UNCHANGED <<row, content, reader, shown>>

Commit(w) ==
    LET o == writer[w].o IN
    /\ writer[w].pc = "commit"
    /\ content[o].own < MaxVersion
    /\ content' = Change(o)
    /\ row' = [row EXCEPT ![o] = IF writer[w].op = "delete" THEN "deleted" ELSE "live"]
    /\ writer' = [writer EXCEPT ![w] = Idle]
    /\ UNCHANGED <<cache, ttl, reader, shown, raced>>

Rollback(w) ==
    /\ writer[w].pc \in {"write", "again", "commit"}
    /\ writer' = [writer EXCEPT ![w] = Idle]
    /\ UNCHANGED <<row, content, cache, ttl, reader, shown, raced>>

\* A product of the order or its customer changes.
ChangeNested(o) ==
    /\ content[o].nested < MaxNested
    /\ content' = [content EXCEPT ![o].nested = @ + 1]
    /\ UNCHANGED <<row, cache, ttl, reader, writer, shown, raced>>

-----------------------------------------------------------------------------
ReadStep(r) == Find(r) \/ Set(r) \/ FailRead(r)
WriteStep(w) ==
    \/ Save(w) \/ AfterUpdate(w)
    \/ FirstWrite(w) \/ SecondWrite(w) \/ Commit(w) \/ Rollback(w)

Next ==
    \/ \E r \in Readers : \/ \E c \in Customers, o \in Orders : Get(r, c, o)
                          \/ ReadStep(r)
    \/ \E w \in Writers : \/ \E o \in Orders, op \in DOMAIN Needs : Begin(w, o, op)
                          \/ WriteStep(w)
    \/ \E o \in Orders : Expire(o) \/ ChangeNested(o)

Spec == Init /\ [][Next]_vars

\* Every request that began goes on or fails, and Redis removes a key whose
\* time to live is over.
Fairness ==
    /\ \A r \in Readers : WF_vars(ReadStep(r))
    /\ \A w \in Writers : WF_vars(WriteStep(w))
    /\ \A o \in Orders : WF_vars(Expire(o))

FairSpec == Spec /\ Fairness

-----------------------------------------------------------------------------
\* Every variable stays in its type.
TypeOK ==
    /\ row \in [Orders -> {"absent", "live", "deleted"}]
    /\ content \in [Orders -> Copies]
    /\ cache \in [Orders -> Copies \cup {None}]
    /\ ttl \subseteq Orders
    /\ reader \in [Readers -> {Idle} \cup [pc : {"find"}, o : Orders, c : Customers]
                       \cup [pc : {"set"}, o : Orders, c : Customers, copy : Copies]]
    /\ writer \in [Writers -> {Idle} \cup [pc : {"clear"}, o : Orders, op : {"save"}]
                       \cup [pc : {"write", "again", "commit"}, o : Orders, op : DOMAIN Needs]]
    /\ shown \subseteq Customers \X Orders
    /\ raced \subseteq Orders

\* The own columns of a cached order are the committed ones, unless the writer
\* that changed them is about to delete the key, or this very key was SET after
\* a change or before a commit, or its last DEL failed: the hooks of
\* orderHooks.js miss no other case, and a later DEL, SET or expiry mends it.
FreshUnlessRaced ==
    \A o \in Orders \ raced :
        cache[o] # None =>
            \/ row[o] = "live" /\ cache[o].own = content[o].own
            \/ At(o, {"clear"})

\* An order is sent to its owner only, from the cache or from the database.
OwnerOnly == \A s \in shown : s[1] = Owner[s[2]]

\* A copy is out of date for a limited time: when the changes stop, every key
\* ends up deleted or equal to what a read returns, whatever races there were.
EventuallyFresh == <>[](\A o \in Orders : cache[o] \in {None, Current(o)})
=============================================================================
