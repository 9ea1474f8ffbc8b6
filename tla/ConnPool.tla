------------------------------ MODULE ConnPool ------------------------------
(***************************************************************************)
(* The connections to PostgreSQL and who holds them.  models/index.js      *)
(* gives Sequelize no pool options, so a few connections serve every       *)
(* request; one that finds none free waits in line until its time is up.   *)
(*                                                                         *)
(* softDeleteOrder and restoreOrder run every statement on the connection  *)
(* of their transaction.  createOrder does not: Product.findAll and, for   *)
(* each line, the getOrder of hooks/orderItemHooks.js name no transaction, *)
(* so they take a second connection while the first is held.               *)
(*                                                                         *)
(* A request is the list of what it does that can wait: take a connection  *)
(* for one statement ("query"), take one and keep it ("begin"), lock a row *)
(* until the end ("lock"), commit or roll back ("end").                    *)
(***************************************************************************)
EXTENDS Naturals, Sequences, FiniteSets, Functions

CONSTANTS
    Requests,        \* requests handled at a time
    PoolMax,         \* connections of the pool
    Products, Order, \* rows: the products, and one order
    MaxLines,        \* bound: lines of an order, of any products
    None

ASSUME MaxAssumption == PoolMax \in Nat \ {0} /\ MaxLines \in Nat

VARIABLES
    todo,   \* what each request still has to do
    kind,   \* which handler it is in
    keeps,  \* requests whose transaction holds a connection
    uses,   \* requests that hold a connection for one statement
    line,   \* requests waiting for a connection, the first to come first
    free,   \* connections nobody holds
    lock    \* the request that holds each row's lock

vars == <<todo, kind, keeps, uses, line, free, lock>>

Rows == Products \cup {Order}
query == [do |-> "query"]
begin == [do |-> "begin"]
Lock(x) == [do |-> "lock", row |-> x]
end == [do |-> "end"]

-----------------------------------------------------------------------------
(* What each handler does, after authenticateCustomer's read, for an order   *)
(* whose lines are of the products ps.                                       *)

createOrder(ps) ==
    <<query, begin, query>>                                    \* Product.findAll
        \o [i \in 1 .. 2 * Len(ps) |->                         \* afterCreate, decrement
              IF i % 2 = 1 THEN query ELSE Lock(ps[i \div 2])]
        \o <<end>>

softDeleteOrderReadsApart(ps) ==
    <<query, begin, query>>
        \o [i \in DOMAIN ps |-> Lock(ps[i])]
        \o <<Lock(Order), end>>

softDeleteOrder(ps) ==
    <<query, begin>>
        \o [i \in DOMAIN ps |-> Lock(ps[i])]                   \* Product.increment
        \o <<Lock(Order), end>>                                \* order.update

restoreOrder(ps) ==
    <<query, begin, Lock(Order)>>                              \* order.restore
        \o [i \in DOMAIN ps |-> Lock(ps[i])]                   \* Product.decrement
        \o <<end>>

\* updateOrder and patchOrderStatus: a read, then one UPDATE.
updateOrder(ps) == <<query, query, begin, Lock(Order), end>>

Work(k, ps) ==
    CASE k = "create"  -> createOrder(ps)
      [] k = "delete"  -> softDeleteOrder(ps)
      [] k = "restore" -> restoreOrder(ps)
      [] k = "update"  -> updateOrder(ps)

Kinds == {"create", "delete", "restore", "update"}

-----------------------------------------------------------------------------
Init ==
    /\ todo = [r \in Requests |-> <<>>]
    /\ kind = [r \in Requests |-> None]
    /\ keeps = {} /\ uses = {} /\ line = <<>> /\ free = PoolMax
    /\ lock = [x \in Rows |-> None]

Busy(r) == todo[r] # <<>>
Now(r) == Head(todo[r])
Waiting(r) == r \in Range(line)
Blocked(r) == Busy(r) /\ Now(r).do = "lock" /\ lock[Now(r).row] \notin {None, r}

Arrive(r, k, ps) ==
    /\ ~Busy(r)
    /\ todo' = [todo EXCEPT ![r] = Work(k, ps)]
    /\ kind' = [kind EXCEPT ![r] = k]
    /\ UNCHANGED <<keeps, uses, line, free, lock>>

\* A connection goes to request r, to keep or for one statement; td, ks and us
\* are todo, keeps and uses before that.
Give(r, td, ks, us) ==
    IF Head(td[r]) = begin
    THEN keeps' = ks \cup {r} /\ uses' = us /\ todo' = [td EXCEPT ![r] = Tail(@)]
    ELSE keeps' = ks /\ uses' = us \cup {r} /\ todo' = td

\* The pool gives a connection, or puts the request at the end of the line.
Acquire(r) ==
    /\ Busy(r) /\ Now(r) \in {query, begin} /\ r \notin uses /\ ~Waiting(r)
    /\ IF free > 0
       THEN free' = free - 1 /\ Give(r, todo, keeps, uses) /\ UNCHANGED line
       ELSE line' = Append(line, r) /\ UNCHANGED <<todo, keeps, uses, free>>
    /\ UNCHANGED <<kind, lock>>

\* A connection comes back and goes to the first in line.
Release(td, ks, us) ==
    IF line = <<>>
    THEN free' = free + 1 /\ todo' = td /\ keeps' = ks /\ uses' = us /\ UNCHANGED line
    ELSE line' = Tail(line) /\ Give(Head(line), td, ks, us) /\ UNCHANGED free

\* The statement is done and its connection goes back.
Query(r) ==
    /\ r \in uses
    /\ Release([todo EXCEPT ![r] = Tail(@)], keeps, uses \ {r})
    /\ UNCHANGED <<kind, lock>>

\* A statement on the transaction's connection locks a row.
LockRow(r) ==
    /\ Busy(r) /\ Now(r).do = "lock"
    /\ lock[Now(r).row] \in {None, r}
    /\ lock' = [lock EXCEPT ![Now(r).row] = r]
    /\ todo' = [todo EXCEPT ![r] = Tail(@)]
    /\ UNCHANGED <<kind, keeps, uses, line, free>>

Unlock(r) == [x \in Rows |-> IF lock[x] = r THEN None ELSE lock[x]]

\* Commit or rollback: the locks and the connection are given back.
End(r) ==
    /\ Busy(r) /\ Now(r) = end
    /\ lock' = Unlock(r)
    /\ Release([todo EXCEPT ![r] = <<>>], keeps \ {r}, uses)
    /\ kind' = [kind EXCEPT ![r] = None]

\* What is left for a request that gives up: the rollback, if it has a
\* transaction, and its answer.
GiveUp(r) == IF r \in keeps THEN <<end>> ELSE <<>>

RefuseAndForget(r) ==
    /\ Busy(r) /\ r \in keeps \ uses /\ ~Waiting(r) /\ ~Blocked(r) /\ Now(r) # end
    /\ todo' = [todo EXCEPT ![r] = <<>>]
    /\ UNCHANGED <<kind, keeps, uses, line, free, lock>>

\* Inside its transaction the handler throws or returns early (no such order or
\* product, too little stock, a delivered order, a statement that fails), and
\* rolls back.
Refuse(r) ==
    /\ Busy(r) /\ r \in keeps \ uses /\ ~Waiting(r) /\ ~Blocked(r) /\ Now(r) # end
    /\ todo' = [todo EXCEPT ![r] = GiveUp(r)]
    /\ UNCHANGED <<kind, keeps, uses, line, free, lock>>

\* The statement for which a connection was taken fails or finds nothing.
QueryFails(r) ==
    /\ r \in uses
    /\ Release([todo EXCEPT ![r] = GiveUp(r)], keeps, uses \ {r})
    /\ kind' = IF r \in keeps THEN kind ELSE [kind EXCEPT ![r] = None]
    /\ UNCHANGED lock

TimeoutRetries ==
    /\ line # <<>>
    /\ line' = Append(Tail(line), Head(line))
    /\ UNCHANGED <<todo, kind, keeps, uses, free, lock>>

\* The first in line has waited as long as the pool allows.
Timeout ==
    /\ line # <<>>
    /\ LET r == Head(line) IN
       /\ todo' = [todo EXCEPT ![r] = GiveUp(r)]
       /\ kind' = IF r \in keeps THEN kind ELSE [kind EXCEPT ![r] = None]
    /\ line' = Tail(line)
    /\ UNCHANGED <<keeps, uses, free, lock>>

\* PostgreSQL fails one of the transactions that wait for each other's rows.
Victim(r) ==
    /\ \E S \in SUBSET Requests :
          /\ r \in S /\ \A s \in S : Blocked(s)
          /\ {lock[Now(s).row] : s \in S} = S
    /\ todo' = [todo EXCEPT ![r] = GiveUp(r)]
    /\ UNCHANGED <<kind, keeps, uses, line, free, lock>>

Lines == UNION {[1 .. n -> Products] : n \in 1 .. MaxLines}

Next ==
    \/ \E r \in Requests :
          \/ \E k \in Kinds, ps \in Lines : Arrive(r, k, ps)
          \/ Acquire(r) \/ Query(r) \/ LockRow(r) \/ End(r)
          \/ Refuse(r) \/ QueryFails(r) \/ Victim(r)
    \/ Timeout

Spec == Init /\ [][Next]_vars

\* Statements end, timers fire, and PostgreSQL serves those who wait for a row
\* in turn and breaks a cycle of them.
Fairness ==
    /\ WF_vars(Timeout)
    /\ WF_vars(\E r \in Requests : Victim(r))
    /\ \A r \in Requests : WF_vars(Acquire(r) \/ Query(r) \/ End(r)) /\ SF_vars(LockRow(r))

FairSpec == Spec /\ Fairness

-----------------------------------------------------------------------------
Ops == {query, begin, end} \cup {Lock(x) : x \in Rows}

\* Every variable stays in its type.
TypeOK ==
    /\ todo \in [Requests -> Seq(Ops)]
    /\ kind \in [Requests -> Kinds \cup {None}]
    /\ keeps \subseteq Requests /\ uses \subseteq Requests
    /\ line \in Seq(Requests) /\ IsInjective(line)
    /\ free \in 0 .. PoolMax
    /\ lock \in [Rows -> Requests \cup {None}]

\* Whichever way a handler ends (its answer, an early return, an exception, a
\* timeout of the pool), it has given its connections and row locks back: every
\* connection is free or held by a request that is not answered yet, none is
\* free while somebody waits for one, and every variable is in its type.
NothingLeaks ==
    /\ TypeOK
    /\ free + Cardinality(keeps) + Cardinality(uses) = PoolMax
    /\ \A r \in keeps \cup uses : Busy(r)
    /\ \A x \in Rows : lock[x] = None \/ lock[x] \in keeps
    /\ line # <<>> => free = 0

\* When every connection is held and none of their holders can go on, so that
\* only a timeout will free one, a createOrder is among them that waits for its
\* second connection: no other handler can bring the pool to a stop.
StallNeedsCreate ==
    (/\ line # <<>>
     /\ \A r \in Requests : Busy(r) => Waiting(r) \/ Blocked(r)
     /\ ~ \E S \in (SUBSET Requests) \ {{}} :
            (\A s \in S : Blocked(s)) /\ {lock[Now(s).row] : s \in S} = S)
    => \E r \in keeps : Waiting(r) /\ kind[r] = "create"

\* Every request is answered, even when all connections are held by requests
\* that wait for another one.
Answered == \A r \in Requests : Busy(r) ~> ~Busy(r)
=============================================================================
