-------------------------------- MODULE Pages --------------------------------
(***************************************************************************)
(* The paginated lists (getAllOrders, getOrdersByStatus,                   *)
(* getOrdersByCustomer, getAllProducts, getAllCustomers): utils/paginate.js,*)
(* findAndCountAll and utils/sendPaginatedResponse.js, read by a client    *)
(* that asks for page after page up to totalPages while rows enter and     *)
(* leave the list.                                                         *)
(*                                                                         *)
(* A list is ordered by creation time, the newest first, and by nothing    *)
(* else: rows of the same time come in any order, in every query anew.     *)
(* findAndCountAll runs its COUNT and its SELECT on two connections, so    *)
(* the list may change between them, and whichever is first.  COUNT        *)
(* counts the rows of the join: an order once for each of its lines.       *)
(***************************************************************************)
EXTENDS Integers, SequencesExt

CONSTANTS
    Rows,         \* every row that may be in the list
    Created,      \* its creation time
    Joined,       \* how often COUNT counts it
    LimitParams,  \* what clients send as ?limit=
    PageParams,   \* what clients send as the first ?page=
    NaN, None

ASSUME RowsAssumption == IsFiniteSet(Rows)
ASSUME CreatedAssumption == Created \in [Rows -> Nat]
ASSUME JoinedAssumption == Joined \in [Rows -> Nat \ {0}]
ASSUME ParamAssumption == LimitParams \cup PageParams \subseteq Int \cup {NaN}
ASSUME FirstAssumption == \A p \in PageParams : p = NaN \/ p <= 1
ASSUME NoneAssumption == None \notin Nat \cup Seq(Rows) /\ NaN \notin Int

VARIABLES
    list,     \* the rows a query would find
    walk,     \* the page being asked for, or no walk
    count,    \* what this page's COUNT returned
    rows,     \* what this page's SELECT returned
    got,      \* the rows of the pages answered so far
    stayed,   \* history: rows in the list since the walk began
    entered,  \* history: rows that entered the list since then
    left,     \* history: rows that left it since then
    torn      \* history: rows that entered after this page's COUNT, before its SELECT

vars == <<list, walk, count, rows, got, stayed, entered, left, torn>>

Idle == [at |-> "idle"]

Init ==
    /\ list \in SUBSET Rows
    /\ walk = Idle /\ count = None /\ rows = None /\ got = <<>>
    /\ stayed = {} /\ entered = {} /\ left = {} /\ torn = {}

-----------------------------------------------------------------------------
\* parseInt(param) || default
parseIntOr(param, default) == IF param \in {NaN, 0} THEN default ELSE param

paginateByRow(pageParam, limitParam) ==
    LET asked == parseIntOr(pageParam, 1)
        page == IF asked < 1 THEN 1 ELSE asked
        limit == parseIntOr(limitParam, 5)
    IN [page |-> page, limit |-> limit, offset |-> page - 1]

\* The page, its size and its offset.
paginate(pageParam, limitParam) ==
    LET asked == parseIntOr(pageParam, 1)
        page == IF asked < 1 THEN 1 ELSE asked
        limit == parseIntOr(limitParam, 5)
    IN [page |-> page, limit |-> limit, offset |-> (page - 1) * limit]

totalPagesFloor(total, limit) == total \div limit

\* Math.ceil(totalCount / limit)
totalPages(total, limit) == (total + limit - 1) \div limit

\* ORDER BY created_at DESC
Newest(s) == \A i, j \in DOMAIN s : i < j => Created[s[i]] >= Created[s[j]]

\* What OFFSET and LIMIT leave of a list.
Slice(s, offset, limit) ==
    SubSeq(s, offset + 1, IF offset + limit < Len(s) THEN offset + limit ELSE Len(s))

-----------------------------------------------------------------------------
\* The rows of the join: each row of the list as often as it has lines.
Join == UNION {{x} \X (1 .. Joined[x]) : x \in list}

Ask(page, limit) ==
    LET asked == paginate(page, limit) IN
    /\ walk' = [at |-> "page", page |-> asked.page, limit |-> asked.limit,
                offset |-> asked.offset]
    /\ count' = None /\ rows' = None /\ torn' = {}

\* A client starts with the first page.
Start(page, limit) ==
    /\ walk.at \in {"idle", "done", "failed"}
    /\ Ask(page, limit)
    /\ got' = <<>> /\ stayed' = list /\ entered' = {} /\ left' = {}
    /\ UNCHANGED list

CountRows ==
    /\ walk.at = "page" /\ count = None /\ walk.limit > 0
    /\ count' = Cardinality(Join)
    /\ UNCHANGED <<list, walk, rows, got, stayed, entered, left, torn>>

FindUnordered ==
    /\ walk.at = "page" /\ rows = None /\ walk.limit > 0
    /\ \E s \in SetToSeqs(list) : rows' = Slice(s, walk.offset, walk.limit)
    /\ UNCHANGED <<list, walk, count, got, stayed, entered, left, torn>>

FindRows ==
    /\ walk.at = "page" /\ rows = None /\ walk.limit > 0
    /\ \E s \in {t \in SetToSeqs(list) : Newest(t)} : rows' = Slice(s, walk.offset, walk.limit)
    /\ UNCHANGED <<list, walk, count, got, stayed, entered, left, torn>>

\* PostgreSQL refuses a negative LIMIT, or fails: a 500.
Fail ==
    /\ walk.at = "page" /\ (count = None \/ rows = None)
    /\ walk' = [at |-> "failed"]
    /\ UNCHANGED <<list, count, rows, got, stayed, entered, left, torn>>

\* sendPaginatedResponse; the client goes on if there is a page after this one.
Answer ==
    /\ walk.at = "page" /\ count # None /\ rows # None
    /\ got' = got \o (IF count = 0 THEN <<>> ELSE rows)
    /\ IF walk.page < totalPages(count, walk.limit)
       THEN Ask(walk.page + 1, walk.limit)
       ELSE walk' = [at |-> "done"] /\ UNCHANGED <<count, rows, torn>>
    /\ UNCHANGED <<list, stayed, entered, left>>

\* A row is created, is restored, or gets the status the list is about.
Enter(x) ==
    /\ x \notin list
    /\ list' = list \cup {x}
    /\ entered' = entered \cup {x}
    /\ torn' = IF count # None /\ rows = None THEN torn \cup {x} ELSE torn
    /\ UNCHANGED <<walk, count, rows, got, stayed, left>>

\* A row is deleted, or gets another status.
Leave(x) ==
    /\ x \in list
    /\ list' = list \ {x}
    /\ stayed' = stayed \ {x}
    /\ left' = left \cup {x}
    /\ UNCHANGED <<walk, count, rows, got, entered, torn>>

Next ==
    \/ \E p \in PageParams, l \in LimitParams : Start(p, l)
    \/ CountRows \/ FindRows \/ Answer \/ Fail
    \/ walk.at = "page" /\ \E x \in Rows : Enter(x) \/ Leave(x)

Spec == Init /\ [][Next]_vars

-----------------------------------------------------------------------------
\* Every variable stays in its type, and pages and their sizes are positive
\* once PostgreSQL has accepted them.
TypeOK ==
    /\ list \subseteq Rows /\ stayed \subseteq list
    /\ entered \subseteq Rows /\ left \subseteq Rows /\ torn \subseteq entered
    /\ count \in Nat \cup {None}
    /\ rows = None \/ rows \in Seq(Rows)
    /\ got \in Seq(Rows)
    /\ walk.at = "page" => walk.page \in Nat \ {0} /\ (rows # None => walk.offset \in Nat)

Tied(x) == \E y \in Rows \ {x} : Created[y] = Created[x]
Newer(x) == {y \in Rows : Created[y] > Created[x]}

\* A row that is in the list during the whole walk is on one of its pages,
\* except when a newer row left the list meanwhile, when rows entered it
\* between the COUNT and the SELECT of the last page, or when another row has
\* the same creation time.
NoneSkipped ==
    walk.at = "done" =>
        \A x \in stayed :
            \/ Contains(got, x)
            \/ Newer(x) \cap left # {}
            \/ torn # {}
            \/ Tied(x)

\* A row is shown twice only if a newer one entered the list during the walk,
\* or another row has the same creation time.
TwiceOnlyIfPushed ==
    \A i, j \in DOMAIN got :
        i # j /\ got[i] = got[j] => Newer(got[i]) \cap entered # {} \/ Tied(got[i])

\* While the list does not change, the pages put together are the list, newest
\* first, whatever parameters the client sent; the offset and the limit they
\* are turned into are always in their types.
PagesAreTheList ==
    /\ TypeOK
    /\ walk.at = "done" /\ entered = {} /\ left = {} /\ ~(\E x \in list : Tied(x)) =>
           Newest(got) /\ Len(got) = Cardinality(list) /\ ToSet(got) = list
=============================================================================
