----------------------------- MODULE RedisDict -----------------------------
(***************************************************************************)
(* The hash table under every Redis keyspace (dict.c): db->dict and        *)
(* db->expires are two of them.  A resize only opens a second table; each  *)
(* later operation, and cron, moves one bucket of the first to the second. *)
(* The expire cycle walks db->expires with dictScan, a cursor that is kept *)
(* between calls while keys come and go and tables are resized under it.   *)
(*                                                                         *)
(* A key stands for its hash, and a bucket is a set of keys: the order of  *)
(* a chain decides nothing.  Operations are atomic; during a scan its      *)
(* callback may delete what it is given, with rehashing paused.            *)
(***************************************************************************)
EXTENDS Integers, FiniteSetsExt

CONSTANTS
    Keys,         \* hashes of the keys in use
    Width,        \* bits of a cursor
    InitialExp,   \* DICT_HT_INITIAL_EXP
    ForceRatio,   \* dict_force_resize_ratio
    MinFill,      \* HASHTABLE_MIN_FILL, in percent
    EmptyVisits   \* empty buckets a rehash step looks at

\* Powers of two up to the width of a cursor.
Pow2[n \in 0 .. Width] == IF n = 0 THEN 1 ELSE 2 * Pow2[n - 1]

ASSUME WidthAssumption == Width \in Nat /\ InitialExp \in 0 .. Width
ASSUME KeysAssumption == Keys \subseteq 0 .. Pow2[Width] - 1
ASSUME VisitsAssumption == EmptyVisits \in Nat

VARIABLES
    d,        \* the two tables, their sizes and the bucket to move next
    policy,   \* dict_can_resize: "avoid" while a child saves, else "enable"
    cursor,   \* db->expires_cursor
    members,  \* history: keys added and not deleted
    due       \* history: keys there since the scan began that it has not given

dictVars == <<d, policy, cursor, members, due>>

Size(e) == IF e = -1 THEN 0 ELSE Pow2[e]
Buckets(e) == [b \in 0 .. Size(e) - 1 |-> {}]
In(t) == UNION {t[b] : b \in DOMAIN t}
used(x, i) == Cardinality(In(x.ht[i]))
dictIsRehashing(x) == x.rehashidx # -1

DictInit ==
    /\ d = [ht |-> [i \in 0 .. 1 |-> Buckets(-1)], exp |-> [i \in 0 .. 1 |-> -1],
            rehashidx |-> -1]
    /\ policy = "enable" /\ cursor = 0 /\ members = {} /\ due = {}

-----------------------------------------------------------------------------
(* Rehashing                                                                 *)

_dictNextExp(n) == Min({e \in InitialExp .. Width : Pow2[e] >= n} \cup {Width})

\* The first table is created at once, a second one is to be filled.
_dictExpand(x, n) ==
    LET e == _dictNextExp(n) IN
    IF dictIsRehashing(x) \/ used(x, 0) > n \/ e = x.exp[0] THEN x
    ELSE IF x.exp[0] = -1
         THEN [x EXCEPT !.ht[0] = Buckets(e), !.exp[0] = e]
         ELSE [x EXCEPT !.ht[1] = Buckets(e), !.exp[1] = e, !.rehashidx = 0]

\* The second table takes the place of the first.
Swapped(x) ==
    [ht |-> [i \in 0 .. 1 |-> IF i = 0 THEN x.ht[1] ELSE Buckets(-1)],
     exp |-> [i \in 0 .. 1 |-> IF i = 0 THEN x.exp[1] ELSE -1],
     rehashidx |-> -1]

HomeAlwaysMasked(x, b, k) == b % Size(x.exp[1])

\* Where key k of bucket b goes: a shrinking table masks the bucket's index.
Home(x, b, k) ==
    IF x.exp[1] > x.exp[0] THEN k % Size(x.exp[1]) ELSE b % Size(x.exp[1])

MoveBucket(x, b) ==
    [x EXCEPT !.ht[0][b] = {}, !.rehashidx = b + 1,
              !.ht[1] = [h \in DOMAIN @ |-> @[h] \cup {k \in x.ht[0][b] : Home(x, b, k) = h}]]

\* While a child saves, small changes of size wait.
Postponed(x) ==
    LET s == Size(x.exp[0])  t == Size(x.exp[1])
    IN  policy = "avoid" /\ Max({s, t}) \div Min({s, t}) < ForceRatio

\* One step: on to the next bucket that holds something, and move it.
dictRehash(x) ==
    LET full == {b \in DOMAIN x.ht[0] : b >= x.rehashidx /\ x.ht[0][b] # {}}
        moved == MoveBucket(x, Min(full))
    IN  IF ~dictIsRehashing(x) \/ Postponed(x) THEN x
        ELSE IF used(x, 0) = 0 THEN Swapped(x)
        ELSE IF Min(full) - x.rehashidx >= EmptyVisits
             THEN [x EXCEPT !.rehashidx = @ + EmptyVisits]
        ELSE IF used(moved, 0) = 0 THEN Swapped(moved) ELSE moved

_dictExpandIfNeeded(x) ==
    LET s == Size(x.exp[0])  n == used(x, 0) IN
    IF dictIsRehashing(x) THEN x
    ELSE IF s = 0 THEN _dictExpand(x, Size(InitialExp))
    ELSE IF (policy = "enable" /\ n >= s) \/ n \div s > ForceRatio
         THEN _dictExpand(x, n + 1)
    ELSE x
-----------------------------------------------------------------------------
(* Operations                                                                *)

Bucket(x, i, k) == IF x.exp[i] = -1 THEN {} ELSE x.ht[i][k % Size(x.exp[i])]

\* A lookup tries the second table only while there is one.
dictFind(x, k) ==
    k \in Bucket(x, 0, k) \/ (dictIsRehashing(x) /\ k \in Bucket(x, 1, k))

\* New keys go to the table that stays.
dictInsertAtPosition(x, k) ==
    LET i == IF dictIsRehashing(x) THEN 1 ELSE 0
    IN  [x EXCEPT !.ht[i][k % Size(x.exp[i])] = @ \cup {k}]

dictAdd(k) ==
    LET x == _dictExpandIfNeeded(dictRehash(d)) IN
    /\ IF dictFind(x, k)
       THEN d' = x /\ UNCHANGED members
       ELSE d' = dictInsertAtPosition(x, k) /\ members' = members \cup {k}
    /\ UNCHANGED <<policy, cursor, due>>

Without(x, gone) ==
    [x EXCEPT !.ht = [i \in 0 .. 1 |-> [b \in DOMAIN @[i] |->
        {k \in @[i][b] : ~(k \in gone /\ b = k % Size(x.exp[i]))}]]]

\* A step of rehashing comes first.
dictDelete(k) ==
    /\ members # {}
    /\ d' = Without(dictRehash(d), {k})
    /\ members' = members \ {k} /\ due' = due \ {k}
    /\ UNCHANGED <<policy, cursor>>

\* All a lookup changes; cron does the same when no child saves.
_dictRehashStep ==
    /\ dictIsRehashing(d) /\ d' = dictRehash(d)
    /\ UNCHANGED <<policy, cursor, members, due>>

\* databasesCron: tryResizeHashTables
dictResize ==
    LET slots == Size(d.exp[0]) + Size(d.exp[1]) IN
    /\ policy = "enable" /\ ~dictIsRehashing(d)
    /\ slots > Size(InitialExp)
    /\ (Cardinality(members) * 100) \div slots < MinFill
    /\ d' = _dictExpand(d, Max({used(d, 0), Size(InitialExp)}))
    /\ UNCHANGED <<policy, cursor, members, due>>

updateDictResizePolicy ==
    /\ policy' = IF policy = "enable" THEN "avoid" ELSE "enable"
    /\ UNCHANGED <<d, cursor, members, due>>
-----------------------------------------------------------------------------
(* dictScan                                                                  *)

Bit(v, n) == (v \div Pow2[n]) % 2

\* The e low bits of v in reverse order.
rev(v, e) ==
    LET r[n \in 0 .. Width] == IF n = 0 THEN 0 ELSE 2 * r[n - 1] + Bit(v, n - 1)
    IN  r[e]

NextCursorPlain(v, e) == (v + 1) % Size(e)

\* The cursor counts from its highest bit down; carrying out of it is the end.
NextCursor(v, e) == rev((rev(v % Size(e), e) + 1) % Size(e), e)

ExpansionsMissed(v, small, large) == {v % Size(large)}

\* The buckets of the larger table that the loop visits: those that go with
\* bucket v of the smaller one, from the cursor on.
Expansions(v, small, large) ==
    {b \in 0 .. Size(large) - 1 :
        b % Size(small) = v % Size(small) /\ rev(b, large) >= rev(v % Size(large), large)}

\* The smaller of two tables, or the only one.
Small == IF dictIsRehashing(d) /\ d.exp[0] > d.exp[1] THEN 1 ELSE 0

Given ==
    LET small == d.exp[Small]  large == d.exp[1 - Small] IN
    d.ht[Small][cursor % Size(small)] \cup
        IF dictIsRehashing(d)
        THEN UNION {d.ht[1 - Small][b] : b \in Expansions(cursor, small, large)}
        ELSE {}

\* One call, whose callback deletes the keys in gone: those that have expired.
dictScan(gone) ==
    LET before == IF cursor = 0 THEN members ELSE due IN
    /\ members # {} /\ gone \subseteq Given
    /\ d' = Without(d, gone) /\ members' = members \ gone
    /\ due' = before \ Given
    /\ cursor' = NextCursor(cursor, d.exp[Small])
    /\ UNCHANGED policy

\* A call that finds the dictionary empty ends the scan.
dictScanEmpty ==
    /\ members = {} /\ cursor' = 0 /\ due' = {}
    /\ UNCHANGED <<d, policy, members>>

DictNext ==
    \/ _dictRehashStep \/ dictResize \/ updateDictResizePolicy
    \/ \E k \in Keys : dictAdd(k) \/ dictDelete(k)
    \/ \E gone \in SUBSET Keys : dictScan(gone)
    \/ dictScanEmpty

DictSpec == DictInit /\ [][DictNext]_dictVars
-----------------------------------------------------------------------------

\* Every bucket exists; what rehashing has passed is empty.
DictTypeOK ==
    /\ \A i \in 0 .. 1 :
        /\ d.exp[i] \in -1 .. Width
        /\ d.ht[i] \in [0 .. Size(d.exp[i]) - 1 -> SUBSET Keys]
    /\ d.rehashidx \in -1 .. Pow2[Width]
    /\ dictIsRehashing(d) <=> d.exp[1] # -1
    /\ \A b \in DOMAIN d.ht[0] : b < d.rehashidx => d.ht[0][b] = {}
    /\ cursor \in 0 .. Pow2[Width] - 1

\* A lookup finds exactly the keys that were added and not deleted, at every
\* stage of a rehash, no key is in both tables, and what rehashing has passed is
\* empty (DictTypeOK).
FindsMembers ==
    /\ DictTypeOK
    /\ \A k \in Keys : dictFind(d, k) <=> k \in members
    /\ In(d.ht[0]) \cap In(d.ht[1]) = {}

\* When a scan ends, it has given every key that was there all along, whatever
\* was resized and rehashed between its calls.
ScanGivesAll == cursor = 0 => due = {}

\* Every call brings the cursor nearer its end, so a scan is finite however
\* often the tables grow and shrink.
ScanAdvances ==
    [][cursor' # cursor /\ cursor' # 0 => rev(cursor', Width) > rev(cursor, Width)]_dictVars
=============================================================================
