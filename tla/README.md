# A verification of the e-commerce back end

TLA+ models of the order, stock, status-job, cache, catalogue, account and list
code of this repository, and of the parts of the Redis server in
`redis-7.2.4/` that the program leans on. They are checked with TLC on small
instances, and all their safety properties are proved with TLAPS for every value of
the constants. File names below are relative to `src/`.

## 1. The system

| Part | Code | Model |
|---|---|---|
| Order transactions: create, soft-delete, restore; the stock they move | `controllers/orderController.js` | `OrderStock` |
| Order status: PUT, PATCH, delete, restore | `controllers/orderController.js`, `hooks/orderHooks.js` | `OrderLifecycle` |
| Status jobs | `bull/` (Bull queue in Redis) | `OrderLifecycle` |
| `rescheduleOrder.js` | `scripts/` | `OrderLifecycle` |
| Order cache `order:<id>` | `getOrderById`, `hooks/orderHooks.js`, `utils/cacheHelpers.js` | `OrderCache` |
| Products, cache `product:<id>`, search index | `controllers/productController.js`, `hooks/productHooks.js`, `elasticsearch/` | `ProductCatalog` |
| Customer accounts, log-in | `controllers/authController.js`, `controllers/customerController.js`, `hooks/customerHooks.js`, `middlewares/authMiddleware.js` | `Accounts` |
| Database connections | `models/index.js`, the order handlers, `hooks/orderItemHooks.js` | `ConnPool` |
| Lists and pages | `utils/paginate.js`, `utils/sendPaginatedResponse.js`, the list handlers | `Pages` |
| Redis: keys, expiry, dump file | `redis-7.2.4/src/`: `db.c`, `t_string.c`, `expire.c`, `rdb.c`, `server.c` | `RedisStore`, `StoreContract` |
| Redis: workers blocked on Bull's lists | `blocked.c`, `t_list.c`, `timeout.c` | `RedisBlocked` |
| Redis: hash tables | `dict.c` | `RedisDict` |
| Cancel job, routes, validators, migrations, seeds, e-mail, the rest of Redis | | not modelled (section 8) |

The program runs as two Node processes: the server (`node server.js`) and the
worker (`node bull/index.js`). They share PostgreSQL at its default isolation
(READ COMMITTED), Redis (cached copies, and Bull's queues) and Elasticsearch.
Inside a process, handlers interleave at every `await`.

The parts meet in the order row and the product row. A delete or a restore
moves stock (`OrderStock`), changes what the jobs find (`OrderLifecycle`) and
makes a cached copy old (`OrderCache`); the stock it moves makes the copies of
the product old (`ProductCatalog`). Each module keeps the columns its
properties speak of and has actions for what the other parts do to them:
`WriteStatus` and `ListProduct` in `OrderStock`, `ChangeNested` in
`OrderCache`, `MoveStock` in `ProductCatalog`.

The Redis server is below them all. That a key SET with `EX 300` is gone after
300 s, which `OrderCache` and `ProductCatalog` take as an action, is what
`StoreContract` promises and `RedisStore` is shown to keep; that a worker gets
the job that is added, which `OrderLifecycle` takes as fair, is what
`RedisBlocked` is about; and `RedisDict` is the table under both, with the scan
that finds the keys to expire.

## 2. Modules

**OrderStock.** One action per SQL statement that can meet another request.
`StartCreate`, `StartDelete` and `StartRestore` are the first SELECT of a
handler with its early returns; `WriteOrder`, `MoveStock`, `EndLoop` and
`Commit` are the statements of its transaction; `Fail` and `DeadlockAbort` end
it otherwise. Stock changes only by relative UPDATEs, so the changes of an open
transaction are a difference, `pend`, that `Commit` adds to `stock`. `lock` is
the row lock an UPDATE takes, and `Deadlocked` PostgreSQL's wait cycle. A
request is handled once and names the order it creates. History variables:
`held`, how often an order's lines are taken out of the stock, and `overlap`,
the orders on which two handlers were inside their transactions at once.

**OrderLifecycle.** A handler or a job reads an order, decides, and writes later
by id; the read and the write are two actions. `job[o][t]` is the Bull job
`${orderId}-${targetStatus}`; an id that exists makes `add` do nothing, also
when the job is finished. `ThrowJob` is a rejected await (three attempts),
`CrashWorker` a dead process (Bull's stalled check). `touched` records orders a
request or the script intervened in, `lapsed` orders whose job was given up,
ran before the commit, or failed after its update.

**OrderCache.** A cached order is a pair of versions: its own columns, and what
is nested in it (products, customer). `Get`, `Find` and `Set` are the three
awaits of `getOrderById`. PUT, PATCH and the status job write outside a
transaction (`Save`, then the hook `AfterUpdate`); create, delete and restore
write twice inside one (`FirstWrite`, `SecondWrite`, each with its hook) and
commit afterwards. A failed DEL is logged and ignored. `raced` holds the orders
whose present key was SET after a change or before a commit, or survived a
failed DEL; a later DEL, SET or expiry takes them out.

**ProductCatalog.** A product's row, its Redis key and its search document. A
handler reads (`createProduct`, `updateProduct` for PUT and PATCH,
`softDeleteProduct`, `restoreProduct`), writes the row by id, and its hook
deletes the key and then writes or removes the document: three actions, between
which others run. `StartSync` and `EndSync` are the read and the bulk request
of the synchronisation after each start. `left` and `astray` record which keys
and documents a race or a failure left; `unlisted` the products whose document
the afterRestore hook removed.

**Accounts.** One action per await of `registerCustomer`, `loginCustomer` and
the customer handlers. A stored password is the one chosen and how often it was
hashed, so hashing twice or not at all shows. `ever` and `always` of a request
record whether the database would have granted it at some moment, or at every
moment, since it began. `softDeleteCustomer` throws at its undefined `Op`, so no
row is ever deleted.

**ConnPool.** A request is the list of what it does that can wait: take a
connection for one statement, take one and keep it, lock a row, end. Each handler
is such a list, read off its code. `Acquire`, `Release` and `Timeout` are the
pool (first come, first served), `Victim` is PostgreSQL's deadlock detector.

**Pages.** A client walks a list: `Start` parses its parameters, `CountRows` and
`FindRows` are the two statements of `findAndCountAll` in either order, `Answer`
computes `totalPages` and the client asks for the next page while there is one.
Rows enter and leave the list at any time. The count is of joined rows: an order
of two lines counts twice, as the query does.

**StoreContract** is an abstract specification: a map whose entries vanish at
their deadline, read and written a command at a time, that comes back from a stop
as one of the images taken of the whole map. **RedisStore** is what the server
does: expired keys stay in `dict` until a command or the background cycle meets
them, `server.dirty` counts changes, `serverCron` forks a child that writes a copy
and renames it, a failed save makes writes fail, a shutdown kills the child and
saves itself, a crash may leave the child behind (`orphan`), a start loads the
dump and skips what has run out. The refinement maps `map` to the keys of `dict`
that have not run out, `saved` to those of the dump, `images` to those of the
copies being written.

**RedisBlocked.** `blocking` is the queue of clients on each key, `ready` and
`readySet` the keys signalled, `running` and `turn` where
`handleClientsBlockedOnKeys` is. A script is up to `MaxOps` list operations, after
which ready keys are handled before anything else. `ahead` and `overtook` record
who waited before whom.

**RedisDict.** The two tables of a dictionary as functions from buckets to sets
of keys. Every operation does a step of rehashing first, as in the code. A key is
its hash. `dictScan` may delete what it gives, like the callback of the expire
cycle; `due` holds the keys that were there when the scan began and that it has
not given. The loop over the larger table is the set of buckets it visits.

The `MC` modules give TLC the values of the constants. The theorems about a module
`M` are in `MProofs`, with two exceptions. `HookProofs` holds those of the two
components whose Sequelize hooks do part of the work, `ProductCatalog` and `Accounts`.
`CacheProofs` holds those of the order cache and of the hash table its keys live in,
`OrderCache` and `RedisDict`. A proof module extends the modules it is about, so
`Accounts` and `RedisDict` have names of their own for what every specification has
(`AccountsInit`, `AccountsNext`, `AccountsSpec`; `DictInit`, `DictNext`, `DictSpec`).

## 3. What the passing runs show

| Run | Instance | Properties |
|---|---|---|
| `OrderStock` | 3 requests, 2 products, 4 baskets, fair | `StockAccounted`: no unit is lost or made up, whatever fails half way. `HeldWhileLive`: an order without overlapping handlers holds its units exactly while it is live. `LocksCoverWrites`: no transaction outlives its handler, and no two change one row. `Answered`: every request that enters its transaction leaves it. |
| `OrderLifecycle` | 1 order, 2 workers, 1 handler, the script, fair | `SomeoneMovesOn`: an undisturbed order has a job that will move it on. `OneStepForward`: it moves along `nextStatusMap`. `Delivered`: it is delivered. `DeliveredSettles`, `JobsLeaveClosed`: a delivered order stays as it is, and no job touches a deleted or cancelled one, once earlier readers are through. |
| `OrderCache` | 1 order, 2 readers, 2 writers, 2 customers, fair | `FreshUnlessRaced`: the copy is the committed order, unless a DEL is still to come or its key is in `raced`. `OwnerOnly`: nobody is sent another customer's order. `EventuallyFresh`: when changes stop, old copies go. |
| `ProductCatalog` | 1 product, 2 writers, 1 reader | `CacheFollows`: the key follows the row, the stock excepted, however writes overlap. `SearchFollows`: the document follows the row after every write that overlapped no other. |
| `Accounts` | 2 requests, 2 emails, 2 passwords, 2 customers | `AnswersJustified`: what a register, log-in or update is answered was right at some moment of it. `EmailHeldOnce`: no two customers share an email. `LastPasswordWorks`: the password set last logs in. |
| `ConnPool` | 3 requests, 2 connections, orders of 1 or 2 lines, fair | `NothingLeaks`: every way out of a handler gives its connections and locks back, and nobody waits beside a free connection. `StallNeedsCreate`: only creates that wait for their second connection bring the pool to a stop. `Answered`: even then everybody is answered. |
| `Pages` | 4 rows, limits -1, 1, 2 and none | `NoneSkipped`, `TwiceOnlyIfPushed`: which rows a walk may miss or repeat, and why. `PagesAreTheList`: undisturbed, the pages are the list. |
| `RedisStore` | 2 keys, 2 writes, 1 crash, fair | `ImplementsContract`: the refinement. `CleanMeansSaved`: with no unsaved changes counted, a restart would show what is shown now. `ShutdownSaveStands`: no child overwrites what a shutdown saved. `ChangesReachDisk`, `WritesResume`: saves happen, and a failed one is got over. |
| `RedisBlocked` | 3 lists, 3 clients, scripts of 3 operations, fair | `NoLostWakeup`: nobody sleeps on a list that has elements. `FirstComeFirstServed`. `OneCopy`: moves neither lose nor double an element. `HandlingEnds`: chains of moves end. |
| `RedisDict` | 5 keys, tables of 1 to 8 buckets | `FindsMembers`: lookups are right at every stage of a rehash. `ScanGivesAll`: a scan gives every key that was there all along, as `dict.c:1209` promises. `ScanAdvances`: it is finite. |

Every passing run also checks the module's `TypeOK`, in the newer modules as a
conjunct of one of the invariants above (`EmailHeldOnce`, `NothingLeaks`,
`PagesAreTheList`, `CleanMeansSaved`, `FindsMembers`). Every property has a mutant, a
plausible bug in a mapped definition that breaks it.

## 4. Where the code differs from what it or its documentation says

Each of these runs ends in a counterexample.

| Run | What is said | What happens |
|---|---|---|
| `StockRace` | "Product stock cannot be negative" (`hooks/productHooks.js:16`) | Two creates pass the check for the last unit. The check reads outside the transaction and without a lock, and `decrement` runs no hook. |
| `RetriesKeepMoving` | "pending → processing → shipped → delivered" (`README.md:80`) | A job that fails between its update and the next `add` is retried, finds its target reached and completes; the order stays there. |

Others that the models show or that follow from a line, without a run of their
own:

- Stock also becomes negative through two lines of one product, each compared
  with the whole stock, and through a restore, which compares nothing.
- Two deletes that both read an order live both give its units back, although
  each is answered "Order soft-deleted and stock restored"
  (`orderController.js:310`). `HeldWhileLive` needs its exception, `overlap`, for this.
- A PUT or PATCH to cancelled keeps the units; "Stock is restored on order
  cancellation" (`README.md:129`).
- A restore schedules no job, since the call passes no status; "Restore jobs on
  order restoration" (`README.md:83`).
- A job that read an order before its cancellation writes it afterwards: the
  condition on `worker` in `JobsLeaveClosed`. In the same way a writer that read an
  order before its delivery overwrites it.
- No customer can be deleted: `customerController.js:105` uses `Op`, which the file
  does not import.
- When a Redis server dies and its save child does not, the child may put an
  older dump in the place of the next server's. With nothing counted as unsaved,
  no save point repairs it: the exception `overwritten` in `CleanMeansSaved` and
  `ChangesReachDisk`.

## 5. Bounds

- Three requests let two creates race for one unit, and a create, a delete and a
  restore follow or overlap. The baskets hold one line, two lines in both orders
  (for the wait cycle) and one product twice. `StatusWrites` is `{"delivered"}`
  where it decides a refusal.
- One order suffices for the life cycle, since orders share nothing but workers.
  Two attempts, instead of three, and one stall cover "again" and "given up".
- `MaxVersion = 4` lets an order be created, deleted and restored and then
  changed by an overlapping writer. With 3 the overlap of two restores, the last
  case to be found, is out of reach.
- One product with two values of its details and stock 0 or 1 makes every
  comparison of the catalogue come out both ways.
- Two requests of each kind cover every overlap of `Accounts`, whose handlers do
  one read and one write each.
- Three requests and two connections let the pool fill with creates that wait for
  each other while a third waits in line. One product suffices: with more, rows
  and connections only add waits of the same kind.
- Four rows, two of one creation time and one that the join doubles, give walks of
  up to five pages.
- Two keys and two writes let a change fall before and after a fork. The clock
  goes to 2, so a key of lifetime 1 runs out before, during and after a save or a
  stop.
- Three lists let one handled key make a second one ready whose client makes a
  third ready.
- `RedisDict` has cursors of 3 bits. `InitialExp`, `ForceRatio`, `MinFill` and
  `EmptyVisits` are constants, here 0, 3, 40 and 1 (in the code 2, 5, 10 and 10), so
  that five keys reach every branch: forced growth while a child saves, postponed
  rehashing, shrinking by more than one power of two.
- Symmetry is used only in runs without liveness properties, over requests,
  handlers, readers or values, which the modules never tell apart.
- `OrderLifecycle` does not check for deadlock: a program whose orders are
  delivered and that gets no request may stop.

## 6. Fairness

- `OrderStock`: weak fairness of each request's next statement and of the
  deadlock victim's abort. Node runs each handler on when its await settles;
  PostgreSQL answers every statement that does not wait and breaks every cycle
  after `deadlock_timeout`. Failures are never obliged to happen.
- `OrderLifecycle`: weak fairness of handing a waiting job to a free worker and
  of the worker's next step. Requests, throws and crashes are never obliged.
- `OrderCache`: weak fairness of each begun read and write, and of expiry. The
  expiry is what `EX 300` guarantees; without it `EventuallyFresh` fails.
- `ConnPool`: weak fairness of statements, of the pool's timers and of the
  deadlock detector; strong fairness of getting a row lock, which PostgreSQL gives
  to those who wait in turn.
- `RedisStore`: weak fairness of starting a save and of reaping its child, which
  `serverCron` does ten times a second once a save point is due; strong fairness of
  a save's success: one that is tried again and again is assumed to succeed some
  day. Without that assumption only safety remains.
- `RedisBlocked`: weak fairness of the server's own thread.

## 7. Proofs

Each theorem holds for any number of orders, requests, products, keys, clients and
so on: the sets of the instance are arbitrary, also infinite ones. What the proofs
assume of the constants is stated as named `ASSUME`s in the modules, which the runs
evaluate: bounds are natural numbers (`BoundAssumption`, `BullAssumption`), the pool
has at least one connection (`MaxAssumption`), baskets, owners, lifetimes and first
stocks have their types, the absent value is none of the values it stands beside
(`NoneAssumption`, in `Accounts` `UnsetAssumption`), and products and orders are
different rows (`IdAssumption`). Three assumptions say more. A list is finite
(`RowsAssumption`). A client reads from the first page on (`FirstAssumption`); a page
below 1, and what is no number, is the first to `paginate`. The hash of a key fits
in a cursor, and the table a dictionary begins with is no larger than cursors can count
(`KeysAssumption`, `WidthAssumption`): in C both are `unsigned long`.

Every proof has the same plan: an inductive invariant (`IInv`; `AccountsInv` and
`DictInv` in the shared modules), one lemma per action that preserves it,
`InvariantHolds` (`Spec => []IInv`), and one theorem per property that follows from it. The parts named below are what the property
lacks to be inductive. Each invariant was checked with TLC on the instance of section 3
before it was proved.

| Module | Theorem | Property |
|---|---|---|
| `OrderStockProofs` | `TypeCorrect`, `LocksCover`, `UnitsHeld`, `UnitsAccounted` | `TypeOK`, `LocksCoverWrites`, `HeldWhileLive`, `StockAccounted` |
| `OrderLifecycleProofs` | `TypeCorrect`, `MoverExists`, `StepsForward`, `DeliveryIsKept`, `ClosedToJobs` | `TypeOK`, `SomeoneMovesOn`, `OneStepForward`, `DeliveredSettles`, `JobsLeaveClosed` |
| `CacheProofs` | `TypeCorrect`, `CacheIsFresh`, `ShownToOwner` | `TypeOK`, `FreshUnlessRaced`, `OwnerOnly` of `OrderCache` |
| `CacheProofs` | `Finds`, `GivesAll`, `Advances` | `FindsMembers`, `ScanGivesAll`, `ScanAdvances` of `RedisDict` |
| `HookProofs` | `TypeCorrect`, `CacheIsTheRow`, `SearchIsTheRow` | `TypeOK`, `CacheFollows`, `SearchFollows` of `ProductCatalog` |
| `HookProofs` | `EveryAnswerJustified`, `OneHolder`, `LastOneWorks` | `AnswersJustified`, `EmailHeldOnce`, `LastPasswordWorks` of `Accounts` |
| `PagesProofs` | `NoRowSkipped`, `NoRowTwice`, `PagesMakeTheList` | `NoneSkipped`, `TwiceOnlyIfPushed`, `PagesAreTheList` |
| `ConnPoolProofs` | `ConnectionsComeBack`, `OnlyCreateStalls` | `NothingLeaks`, `StallNeedsCreate` |
| `RedisStoreProofs` | `NothingUncounted`, `ShutdownStands`, `KeepsContract` | `CleanMeansSaved`, `ShutdownSaveStands`, `ImplementsContract` |
| `RedisBlockedProofs` | `TypeCorrect`, `NobodyLeftWaiting`, `ServedInOrder`, `NeitherLostNorCopied` | `TypeOK`, `NoLostWakeup`, `FirstComeFirstServed`, `OneCopy` |

**OrderStock.** `HeldWhileLive` is not inductive: a commit turns the row its handler
read many steps before. `ReadsHold` says the row is still as it was read unless the
order is in `overlap`, `OverlapSeen` that two handlers on one order are in `overlap`.
`StockAccounted` is a sum over the orders. `LoopOK` says what a handler has in hand for
each product: the units of the lines it is through with, all of them at the commit.
`PlacedOK` keeps the sum finite. The lemmas about sums (`SumAny`: the order of the terms
does not matter; `SumChange`: changing one term changes the sum by as much) are proved
from the definition of the community modules' fold.

**OrderLifecycle.** `SomeoneMovesOn` needs to know which jobs an order has behind it.
`Owned`: an active job has exactly one worker. `RowsOK`. `WorkersOK`: where a worker
is says how its target relates to the status. `JobsOK`: a job is done, next, or not
there yet, according to the status. `DeliveryIsKept` and `ClosedToJobs` are about
steps: each action either belongs to somebody the property excepts or leaves the row
alone, which the types of the reads decide.

**OrderCache.** `ClearedBeforeCommit`: a transaction that has run its last hook left
no key, or one in `raced`; the commit then makes no copy old that is not counted.
`ReadersOwn`: whoever is about to answer has passed the 403.

**ProductCatalog.** The hard state is between the write of a row and its hook.
`LoneOK`: a handler that was alone at its product since it began is still the only
one there, the row is what it read until it writes and what it wrote until its hook
is through. `AgreesTillWritten` is `SearchFollows` while every handler at the product
is still before its write, which is what an arriving handler preserves.

**Accounts.** `RequestOK` ties the history flags of a request to the present
customers: what could be granted now is in `ever`, what is in `always` can be granted
now, and the row a log-in read before its comparison is counted in both. `Unique` is
what the unique index gives.

**ConnPool.** The shape of what is left to a request decides everything: `Outside` a
transaction it is statements, `begin`, and the rest; `Inside` one it is row locks and,
in `createOrder` only, statements, then `end`. `Shaped` says a request is inside
exactly when it keeps a connection, `InUse` and `InLine` where its holder or waiter
is, `Counted` that free and held connections add up to the pool. `OnlyCreateStalls`
then is an argument about a finite graph. Nobody holds a connection for one
statement, since such a statement is neither waiting nor blocked. If no create waits,
every transaction that holds a connection is blocked on a row whose holder is another
such transaction. In a finite set where each element points into the set, some
elements point to each other around a circle (`CircleExists`, by a smallest closed
subset), and the stall was to have none.

**RedisStore.** `ChildCovers`: when nothing was changed since the fork, the child's
image shows what memory shows, and after its rename so does the file. `Counted`: what
the child will subtract from `dirty` is still in it. `ImagesWhole` and `Stopped` say
what loads and stops find. Views are taken without what has run out, so the proof
has to carry them through expiry and the clock. `KeepsContract` proves the refinement
of section 2: the first state maps to a first state, and each action of the server
maps to the action of `StoreContract` of the same meaning or to a stutter (a fork that
fails, a key the background cycle deletes after its deadline).

**RedisBlocked.** `Woken`: a list with elements and waiting clients is being handled
or will be. This lasts through pushes and moves made while a key is handled only with
`InTurn` (as long as the list being handled has elements, those still to be looked at
are those who wait on it) and `Listed` (the ready list, the list being handled and
`readySet` agree). `Queued` puts a client behind those ahead of it, once, on its key;
`Placed` is `OneCopy`.

**Pages.** The proof thinks of the position of a row, the number of newer rows in the
list (`Pos`): the sorted list has a row without ties exactly there (`OrderFacts`), and
a page is the rows of the positions from its offset on (`SliceFacts`). `SkipOK`: a row
that stayed, and before which nothing left, has been shown or is at or behind the
offset reached. `TwiceOK`: what was shown and has not been pushed is before it.
`StillOK`: as long as nothing changes, what was shown is the list up to there, in
order. The last page is the one whose end is at or behind the count, and the count is
at least the number of rows (`JoinFacts`), so nothing is left behind it, but for rows
that entered between the COUNT and the SELECT.

**RedisDict.** `Good` says that each table holds its keys where a lookup looks and that
no key is in both; every operation is shown to keep it, rehashing also when the table
shrinks and the bucket's index is masked in place of the hash (`HomeFacts`). `ScanOK`
is why the scan is right. Read from the lowest bit up, as `rev` does, a cursor is a
position in an order of all hashes that no resize changes: `rev(k, n)` of the low bits
is the beginning of `rev(k, Width)` (`RevPrefix`, `RevZeros`), for every size of table.
A key that the scan still owes is never before the cursor in that order. A call
gives every key from the cursor on whose low bits are the cursor's (`ScanMisses`), whichever
table it is in, and the next cursor is the successor of those bits (`CursorStep`), so what is
left is behind it (`ScanLeaves`). At the end the cursor is 0 and nothing is owed.

What is computed by recursion (sums, `Pow2`, `rev`) is reasoned about by smallest
counterexamples. The provers cannot instantiate the library's induction theorems, which
take an operator, but they can use that a set of naturals has a least element: `NatInd`
and `WidthInd` state induction for a set. That such a function exists at all is a lemma
of its own (`PowExists`, `RevExists`).

Only model-checked:

- liveness: `Answered`, `Delivered`, `EventuallyFresh`, `ChangesReachDisk`,
  `WritesResume`, `HandlingEnds`. Fairness and ENABLED are beyond the prover.
- that every branch of the code is reached: a theorem about every behaviour does not
  say which behaviours there are.

## 8. What is left out

- Redis is taken to accept the job additions of request handlers; a rejected
  addition there is an unhandled rejection, which ends the server.
- The total price, and columns a PATCH may set besides name, description, price
  and stock.
- What the line hooks of `orderItemHooks.js` would write: inside `createOrder` the
  query runs outside the transaction, finds no order and returns; nothing updates
  or destroys a line. The connection the query takes is modelled (`ConnPool`).
- What is nested in a cached order is bounded only by its expiry; no hook of a
  product or a customer deletes an order's key. `EventuallyFresh` covers it,
  `FreshUnlessRaced` speaks of the order's own columns.
- The two-minute delay of a job is any length of time.
- The cancel job: its processor is registered nowhere and nothing schedules it.
- Names and other columns of customers; the lifetime of a token; reads of one
  customer, which change nothing.
- Routes, validators, migrations, seeds, `sendEmail` (called nowhere) and
  `cleanQueue.js` (requires a module that does not exist).
- Most of `redis-7.2.4/`, which is all but a few thousand of the lines under
  `src/`. The program uses SET, GET and DEL, and Bull's lists; it turns on neither
  cluster nor replication, Sentinel, the append-only file, modules or streams. Of
  what it does use, the layout of objects and of the dump, the protocol and the
  event loop are sequential code whose states are bytes, which a model would only
  repeat. What is modelled is where several actors, or several moments, meet. A
  BGSAVE by hand is left out, too.

## 9. Plan

1. Proofs: the type invariants that are so far conjuncts of other properties, as
   theorems of their own where a reader would look for them.
2. Proofs: that the scan's loop over the larger table visits the set of buckets that
   `Expansions` describes.
