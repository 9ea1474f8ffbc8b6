--------------------------- MODULE ProductCatalog ---------------------------
(***************************************************************************)
(* A product's row and the two copies of it: the Redis key product:<id>    *)
(* and the document of the Elasticsearch index.  controllers/              *)
(* productController.js writes the row, and hooks/productHooks.js then     *)
(* deletes the key and writes or removes the document; server.js           *)
(* synchronises the index once after the server starts.                    *)
(*                                                                         *)
(* Every write of a product is a statement of its own, committed before    *)
(* the hooks run.  The columns are details (name, description, price),     *)
(* stock, and whether deleted_at is set.  Orders change the stock by       *)
(* increment and decrement, which run no hook.                             *)
(***************************************************************************)
EXTENDS Integers

CONSTANTS
    Products,
    Details,      \* values of name, description and price
    Stocks,       \* values of stock a request may set (validators: not negative)
    MinStock, MaxStock,  \* bounds: how far orders may move the stock
    Handlers,     \* requests that write products, at a time
    Readers,      \* getProductById requests at a time
    None          \* no row, no key, no document, no such request

ASSUME StockAssumption == Stocks \subseteq Nat /\ MinStock \in Int /\ MaxStock \in Int

Columns == [details : Details, stock : Int]
Rows == [details : Details, stock : Int, gone : BOOLEAN]
ASSUME NoneAssumption == None \notin Rows \cup Columns

VARIABLES
    row,       \* products
    cache,     \* product:<id>
    doc,       \* the index
    handler,   \* where each write of a product is
    reader,    \* where each getProductById is
    sync,      \* what the synchronisation has read, or None
    left,      \* history: products whose present key a late SET or a failed DEL left
    astray,    \* history: products whose document a race or a failure left
    unlisted   \* history: products restored since their document was last written

vars == <<row, cache, doc, handler, reader, sync, left, astray, unlisted>>

Idle == [pc |-> "idle"]

Init ==
    /\ row = [p \in Products |-> None]
    /\ cache = [p \in Products |-> None]
    /\ doc = [p \in Products |-> None]
    /\ handler = [h \in Handlers |-> Idle]
    /\ reader = [r \in Readers |-> Idle]
    /\ sync = None
    /\ left = {}
    /\ astray = {}
    /\ unlisted = {}

Exists(p) == row[p] # None
Live(p) == Exists(p) /\ ~row[p].gone
Body(x) == [details |-> x.details, stock |-> x.stock]
Document(p) == IF Live(p) THEN Body(row[p]) ELSE None

\* A write of product p is under way.
Busy(p) == \E h \in Handlers : handler[h] # Idle /\ handler[h].p = p

-----------------------------------------------------------------------------
(* The requests that write products                                          *)

\* The handler has read product p; a create or an update holds the instance inst,
\* whose columns set differ from what was read.  The history field alone says
\* that no other write of the product overlaps this one.
Begin(h, p, op, inst, set) ==
    /\ handler[h] = Idle
    /\ handler' = [g \in Handlers |->
            IF g = h
            THEN [pc |-> "write", p |-> p, op |-> op, inst |-> inst, set |-> set,
                  alone |-> ~Busy(p)]
            ELSE IF handler[g] # Idle /\ handler[g].p = p
            THEN [handler[g] EXCEPT !.alone = FALSE]
            ELSE handler[g]]
    /\ UNCHANGED <<row, cache, doc, reader, sync, left, astray, unlisted>>

\* The id is new, so no other request has it.
createProduct(h, p, inst) == ~Exists(p) /\ ~Busy(p) /\ Begin(h, p, "create", inst, {})

\* updateProduct and patchProduct: a column that is not given keeps the value
\* that was read, and an update without a change does nothing.
updateProduct(h, p, inst) ==
    LET set == {c \in {"details", "stock"} : inst[c] # row[p][c]} IN
    /\ Live(p)
    /\ set # {}
    /\ ~("stock" \in set /\ inst.stock < 0)
    /\ Begin(h, p, "update", inst, set)

softDeleteProduct(h, p) == Live(p) /\ Begin(h, p, "delete", None, {})

\* findByPk with paranoid: false.  A product that is read as not deleted may be
\* restored too: deletedAt is then no change, so only the hook does something.
restoreProduct(h, p) ==
    /\ Exists(p)
    /\ Begin(h, p, "restore", None, IF row[p].gone THEN {"gone"} ELSE {})

\* The row a handler leaves: save writes the columns that changed, by id.
Written(h) ==
    LET old == row[handler[h].p]
        inst == handler[h].inst
        set == handler[h].set
    IN CASE handler[h].op = "create"  -> [details |-> inst.details, stock |-> inst.stock,
                                          gone |-> FALSE]
         [] handler[h].op = "update"  -> [c \in DOMAIN old |-> IF c \in set THEN inst[c] ELSE old[c]]
         [] handler[h].op = "delete"  -> [old EXCEPT !.gone = TRUE]
         [] handler[h].op = "restore" -> [old EXCEPT !.gone = @ /\ "gone" \notin set]

Goto(h, pc) == handler' = [handler EXCEPT ![h].pc = pc]

WriteRow(h) ==
    /\ handler[h].pc = "write"
    /\ row' = [row EXCEPT ![handler[h].p] = Written(h)]
    /\ Goto(h, "clear")
    /\ UNCHANGED <<cache, doc, reader, sync, left, astray, unlisted>>

ClearCacheNever(h) ==
    /\ handler[h].pc = "clear"
    /\ Goto(h, "index")
    /\ UNCHANGED <<row, cache, doc, reader, sync, left, astray, unlisted>>

\* invalidateProductCache of every hook; a failed DEL is logged and ignored.
ClearCache(h) ==
    LET p == handler[h].p IN
    /\ handler[h].pc = "clear"
    /\ \/ cache' = [cache EXCEPT ![p] = None] /\ left' = left \ {p}
       \/ left' = left \cup {p} /\ UNCHANGED cache
    /\ Goto(h, "index")
    /\ UNCHANGED <<row, doc, reader, sync, astray, unlisted>>

IndexOnlyCreated(h) ==
    LET p == handler[h].p IN
    /\ handler[h].pc = "index"
    /\ doc' = IF handler[h].op = "create" THEN [doc EXCEPT ![p] = handler[h].inst]
              ELSE IF handler[h].op = "update" THEN doc ELSE [doc EXCEPT ![p] = None]
    /\ unlisted' = IF handler[h].op = "restore" THEN unlisted \cup {p} ELSE unlisted
    /\ handler' = [handler EXCEPT ![h] = Idle]
    /\ UNCHANGED <<row, cache, reader, sync, left, astray>>

\* afterCreate and afterUpdate index the instance; afterDestroy and
\* afterRestore remove the document.
Index(h) ==
    LET p == handler[h].p
        indexed == handler[h].op \in {"create", "update"}
    IN
    /\ handler[h].pc = "index"
    /\ doc' = [doc EXCEPT ![p] = IF indexed THEN handler[h].inst ELSE None]
    /\ unlisted' = IF handler[h].op = "restore" THEN unlisted \cup {p}
                   ELSE IF indexed THEN unlisted \ {p} ELSE unlisted
    /\ astray' = IF handler[h].alone THEN astray \ {p} ELSE astray \cup {p}
    /\ handler' = [handler EXCEPT ![h] = Idle]
    /\ UNCHANGED <<row, cache, reader, sync, left>>

\* PostgreSQL refuses the write (nothing happened), Elasticsearch the document
\* (the row is written, and an index answers 500), or the server dies.
FailWrite(h) ==
    LET p == handler[h].p IN
    /\ handler[h] # Idle
    /\ left' = IF handler[h].pc = "clear" THEN left \cup {p} ELSE left
    /\ astray' = IF handler[h].pc = "write" THEN astray ELSE astray \cup {p}
    /\ handler' = [handler EXCEPT ![h] = Idle]
    /\ UNCHANGED <<row, cache, doc, reader, sync, unlisted>>

\* createOrder, softDeleteOrder and restoreOrder move the stock.
MoveStock(p, n) ==
    /\ Exists(p)
    /\ row[p].stock + n \in MinStock .. MaxStock
    /\ row' = [row EXCEPT ![p].stock = @ + n]
    /\ UNCHANGED <<cache, doc, handler, reader, sync, left, astray, unlisted>>

-----------------------------------------------------------------------------
(* getProductById                                                            *)

FindProductNull(r, p) ==
    /\ reader[r] = Idle
    /\ cache[p] = None
    /\ reader' = [reader EXCEPT ![r] = [pc |-> "set", p |-> p, copy |-> row[p]]]
    /\ UNCHANGED <<row, cache, doc, handler, sync, left, astray, unlisted>>

\* A miss, and findByPk with paranoid: false: a deleted product is found too.
FindProduct(r, p) ==
    /\ reader[r] = Idle
    /\ cache[p] = None /\ Exists(p)
    /\ reader' = [reader EXCEPT ![r] = [pc |-> "set", p |-> p, copy |-> row[p]]]
    /\ UNCHANGED <<row, cache, doc, handler, sync, left, astray, unlisted>>

\* Equal but for the stock, which orders change behind the hooks.
SameBut(x, y) == x.details = y.details /\ x.gone = y.gone

\* SET with EX 300; late if the product changed since it was read.
SetCache(r) ==
    LET p == reader[r].p IN
    /\ reader[r].pc = "set"
    /\ cache' = [cache EXCEPT ![p] = reader[r].copy]
    /\ left' = IF SameBut(reader[r].copy, row[p]) THEN left \ {p} ELSE left \cup {p}
    /\ reader' = [reader EXCEPT ![r] = Idle]
    /\ UNCHANGED <<row, doc, handler, sync, astray, unlisted>>

FailRead(r) ==
    /\ reader[r] # Idle
    /\ reader' = [reader EXCEPT ![r] = Idle]
    /\ UNCHANGED <<row, cache, doc, handler, sync, left, astray, unlisted>>

\* The key's 300 seconds are over.
Expire(p) ==
    /\ cache[p] # None
    /\ cache' = [cache EXCEPT ![p] = None]
    /\ left' = left \ {p}
    /\ UNCHANGED <<row, doc, handler, reader, sync, astray, unlisted>>

-----------------------------------------------------------------------------
(* syncProductsToElasticsearch, after each start of the server               *)

StartSync ==
    /\ sync = None
    /\ sync' = [p \in Products |-> Document(p)]
    /\ UNCHANGED <<row, cache, doc, handler, reader, left, astray, unlisted>>

\* The bulk request indexes what was read and removes nothing.
EndSync ==
    LET read == {p \in Products : sync[p] # None}
        late == {p \in read : ~Live(p) \/ sync[p].details # row[p].details \/ Busy(p)}
    IN
    /\ sync # None
    /\ doc' = [p \in Products |-> IF p \in read THEN sync[p] ELSE doc[p]]
    /\ astray' = astray \cup late
    /\ unlisted' = unlisted \ read
    /\ sync' = None
    /\ UNCHANGED <<row, cache, handler, reader, left>>

\* A failure is logged; a restart begins a new synchronisation.
FailSync ==
    /\ sync # None
    /\ sync' = None
    /\ UNCHANGED <<row, cache, doc, handler, reader, left, astray, unlisted>>

-----------------------------------------------------------------------------
Step(h) == WriteRow(h) \/ ClearCache(h) \/ Index(h) \/ FailWrite(h)

\* The stock of a request: given, or for a PATCH without it the stock read.
Given(p) == Stocks \cup IF Exists(p) THEN {row[p].stock} ELSE {}

Request(h, p) ==
    \/ \E d \in Details, s \in Given(p) :
        LET inst == [details |-> d, stock |-> s] IN
        createProduct(h, p, inst) \/ updateProduct(h, p, inst)
    \/ softDeleteProduct(h, p)
    \/ restoreProduct(h, p)

Next ==
    \/ \E h \in Handlers : Step(h) \/ \E p \in Products : Request(h, p)
    \/ \E r \in Readers : \/ \E p \in Products : FindProduct(r, p)
                          \/ SetCache(r) \/ FailRead(r)
    \/ \E p \in Products : Expire(p) \/ \E n \in {-1, 1} : MoveStock(p, n)
    \/ StartSync \/ EndSync \/ FailSync

Spec == Init /\ [][Next]_vars

-----------------------------------------------------------------------------
\* A handler and a reader at work.
Writing ==
    [pc : {"write", "clear", "index"}, p : Products, inst : Columns \cup {None},
     op : {"create", "update", "delete", "restore"}, set : SUBSET {"details", "stock", "gone"},
     alone : BOOLEAN]
Reading == [pc : {"set"}, p : Products, copy : Rows]

\* Every variable stays in its type.
TypeOK ==
    /\ row \in [Products -> Rows \cup {None}]
    /\ cache \in [Products -> Rows \cup {None}]
    /\ doc \in [Products -> Columns \cup {None}]
    /\ handler \in [Handlers -> {Idle} \cup Writing]
    /\ reader \in [Readers -> {Idle} \cup Reading]
    /\ sync \in [Products -> Columns \cup {None}] \cup {None}
    /\ left \subseteq Products
    /\ astray \subseteq Products
    /\ unlisted \subseteq Products

\* What getProductById serves from Redis is the row, but for the stock, however
\* many writes overlap: every hook of productHooks.js deletes the key after its
\* write.  The exceptions are a key whose DEL is still to come, one that was SET
\* from an older read, and one whose DEL failed.
CacheFollows ==
    \A p \in Products \ left :
        cache[p] # None =>
            \/ SameBut(cache[p], row[p])
            \/ \E h \in Handlers : handler[h].pc = "clear" /\ handler[h].p = p

\* When no write of a product is under way and the last one that wrote its
\* document neither overlapped another nor failed half way, a search finds no
\* deleted product and no old details, and it finds every product that was not
\* restored since its document was last written.
SearchFollows ==
    \A p \in Products \ astray : Exists(p) /\ ~Busy(p) =>
        /\ doc[p] # None => Live(p) /\ doc[p].details = row[p].details
        /\ doc[p] = None /\ Live(p) => p \in unlisted

=============================================================================
