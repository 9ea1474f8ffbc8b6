--------------------------- MODULE ConnPoolProofs ---------------------------
(***************************************************************************)
(* What holds of the connections for every number of requests, every size  *)
(* of the pool, and orders of any number of lines.                         *)
(***************************************************************************)
EXTENDS ConnPool, FiniteSetTheorems, SequenceTheorems, WellFoundedInduction, TLAPS

Locks == {Lock(x) : x \in Rows}

\* A step inside the transaction of a request of kind k: a statement on its
\* connection or, in createOrder, one on another.
Within(o, k) == o \in Locks \/ (k = "create" /\ o = query)

\* What is left to a request that has a transaction: such steps, then the end.
Inside(t, k) ==
    /\ t # <<>> /\ t[Len(t)] = end
    /\ \A i \in 1 .. Len(t) - 1 : Within(t[i], k)

\* And to one that has none yet: some statements, then the transaction.
Outside(t, k) ==
    \E p \in 1 .. Len(t) - 1 :
        /\ \A i \in 1 .. p - 1 : t[i] = query
        /\ t[p] = begin /\ t[Len(t)] = end
        /\ \A i \in p + 1 .. Len(t) - 1 : Within(t[i], k)

Shaped(td, kd, ks) ==
    \A r \in Requests :
        IF r \in ks THEN Inside(td[r], kd[r]) ELSE td[r] = <<>> \/ Outside(td[r], kd[r])

\* Who holds a connection for one statement is at that statement.
InUse(td, us) == \A r \in us : td[r] # <<>> /\ Head(td[r]) = query

\* Who waits in line is at a statement that needs a connection, and has none
\* for it.
InLine(td, us, ln) ==
    /\ ln \in Seq(Requests) /\ IsInjective(ln)
    /\ \A r \in Range(ln) : td[r] # <<>> /\ Head(td[r]) \in {query, begin} /\ r \notin us

Counted(ks, us, n) ==
    /\ n \in Nat /\ IsFiniteSet(ks) /\ IsFiniteSet(us)
    /\ n + Cardinality(ks) + Cardinality(us) = PoolMax

Typed(td, kd, ks, us) ==
    /\ td \in [Requests -> Seq(Ops)] /\ kd \in [Requests -> Kinds \cup {None}]
    /\ ks \subseteq Requests /\ us \subseteq Requests

IInv ==
    /\ Typed(todo, kind, keeps, uses)
    /\ Shaped(todo, kind, keeps)
    /\ InUse(todo, uses)
    /\ InLine(todo, uses, line)
    /\ Counted(keeps, uses, free)
    /\ line # <<>> => free = 0
    /\ lock \in [Rows -> Requests \cup {None}]
    /\ \A x \in Rows : lock[x] = None \/ lock[x] \in keeps

-----------------------------------------------------------------------------
(* What is left to do                                                        *)

\* The kinds of step are told apart.
LEMMA OpsDiffer ==
    /\ query # begin /\ query # end /\ begin # end
    /\ query.do # "lock" /\ begin.do # "lock" /\ end.do # "lock"
    /\ \A o \in Locks : o.do = "lock" /\ o.row \in Rows
    /\ query \notin Locks /\ begin \notin Locks /\ end \notin Locks
    /\ Ops = {query, begin, end} \cup Locks
<1>1. query.do = "query" /\ begin.do = "begin" /\ end.do = "end"
  BY DEF query, begin, end
<1>2. ASSUME NEW o \in Locks PROVE o.do = "lock" /\ o.row \in Rows
  <2>1. PICK x \in Rows : o = Lock(x)
    BY DEF Locks
  <2> QED BY <2>1 DEF Lock
<1>3. query # begin /\ query # end /\ begin # end
  BY <1>1
<1>4. query \notin Locks /\ begin \notin Locks /\ end \notin Locks
  BY <1>1, <1>2
<1>5. Ops = {query, begin, end} \cup Locks
  BY DEF Ops, Locks
<1> QED BY <1>1, <1>2, <1>3, <1>4, <1>5

\* Sequences: the first element and the others.
LEMMA HeadFacts ==
    ASSUME NEW t \in Seq(Ops), t # <<>>
    PROVE  /\ Len(t) \in Nat \ {0} /\ Head(t) = t[1] /\ Head(t) \in Ops
           /\ Tail(t) \in Seq(Ops) /\ Len(Tail(t)) = Len(t) - 1
           /\ \A i \in 1 .. Len(t) - 1 : Tail(t)[i] = t[i + 1]
BY HeadTailProperties, EmptySeq

\* What a request with a transaction may be at.
LEMMA InsideHead ==
    ASSUME NEW t \in Seq(Ops), NEW k, Inside(t, k)
    PROVE  /\ Head(t) # begin
           /\ Head(t) = end \/ Head(t) \in Locks \/ (k = "create" /\ Head(t) = query)
<1>1. Len(t) \in Nat \ {0} /\ Head(t) = t[1]
  BY HeadFacts DEF Inside
<1>2. CASE Len(t) = 1
  BY <1>1, <1>2, OpsDiffer DEF Inside
<1>3. CASE Len(t) # 1
  <2>1. 1 \in 1 .. Len(t) - 1
    BY <1>1, <1>3
  <2>2. Within(t[1], k)
    BY <2>1 DEF Inside
  <2> QED BY <1>1, <2>2, OpsDiffer DEF Within
<1> QED BY <1>2, <1>3

\* It goes on with its next step.
LEMMA InsideTail ==
    ASSUME NEW t \in Seq(Ops), NEW k, Inside(t, k), Head(t) # end
    PROVE  Inside(Tail(t), k)
<1> DEFINE u == Tail(t)
<1>1. /\ Len(t) \in Nat \ {0} /\ Head(t) = t[1] /\ u \in Seq(Ops) /\ Len(u) = Len(t) - 1
      /\ \A i \in 1 .. Len(t) - 1 : u[i] = t[i + 1]
  BY HeadFacts DEF Inside
<1> HIDE DEF u
<1>2. Len(t) # 1
  BY <1>1 DEF Inside
<1>3. Len(u) \in Nat \ {0}
  BY <1>1, <1>2
<1>4. u # <<>>
  BY <1>3
<1>5. u[Len(u)] = end
  <2>1. Len(u) \in 1 .. Len(t) - 1 /\ Len(u) + 1 = Len(t)
    BY <1>1, <1>3
  <2> QED BY <1>1, <2>1 DEF Inside
<1>6. ASSUME NEW i \in 1 .. Len(u) - 1
      PROVE  Within(u[i], k)
  <2>1. i \in 1 .. Len(t) - 1 /\ i + 1 \in 1 .. Len(t) - 1
    BY <1>1, <1>3
  <2> QED BY <1>1, <2>1 DEF Inside
<1>7. Inside(u, k)
  BY <1>4, <1>5, <1>6 DEF Inside
<1> QED BY <1>7 DEF u

\* What is left after an early return is the rollback.
LEMMA InsideEnd == ASSUME NEW k PROVE Inside(<<end>>, k)
BY DEF Inside

\* A request without a transaction is at a statement or at the begin.  After
\* the one it is still without, after the other it has one.
LEMMA OutsideFacts ==
    ASSUME NEW t \in Seq(Ops), NEW k, Outside(t, k)
    PROVE  /\ t # <<>> /\ Head(t) \in {query, begin}
           /\ Head(t) = query => Outside(Tail(t), k)
           /\ Head(t) = begin => Inside(Tail(t), k)
<1> DEFINE u == Tail(t)
<1>1. PICK p \in 1 .. Len(t) - 1 :
        /\ \A i \in 1 .. p - 1 : t[i] = query
        /\ t[p] = begin /\ t[Len(t)] = end
        /\ \A i \in p + 1 .. Len(t) - 1 : Within(t[i], k)
  BY DEF Outside
<1>2. t # <<>>
  <2>1. Len(<<>>) = 0
    OBVIOUS
  <2> QED BY <2>1
<1>3. /\ Len(t) \in Nat \ {0} /\ Head(t) = t[1] /\ u \in Seq(Ops) /\ Len(u) = Len(t) - 1
      /\ \A i \in 1 .. Len(t) - 1 : u[i] = t[i + 1]
  BY <1>2, HeadFacts
<1> HIDE DEF u
<1>4. Len(u) \in Nat \ {0} /\ p \in Nat \ {0}
  BY <1>3
<1>5. u # <<>>
  BY <1>4
<1>6. u[Len(u)] = end
  <2>1. Len(u) \in 1 .. Len(t) - 1 /\ Len(u) + 1 = Len(t)
    BY <1>3, <1>4
  <2> QED BY <1>1, <1>3, <2>1
<1>7. CASE p = 1
  <2>1. ASSUME NEW i \in 1 .. Len(u) - 1 PROVE Within(u[i], k)
    <3>1. i \in 1 .. Len(t) - 1 /\ i + 1 \in p + 1 .. Len(t) - 1
      BY <1>3, <1>4, <1>7
    <3> QED BY <1>1, <1>3, <3>1
  <2>2. Inside(u, k)
    BY <1>5, <1>6, <2>1 DEF Inside
  <2>3. Head(t) = begin
    BY <1>1, <1>3, <1>7
  <2> QED BY <1>2, <2>2, <2>3, OpsDiffer DEF u
<1>8. CASE p # 1
  <2>1. p - 1 \in 1 .. Len(u) - 1 /\ p - 1 \in 1 .. Len(t) - 1 /\ p - 1 + 1 = p
    BY <1>3, <1>4, <1>8
  <2>2. ASSUME NEW i \in 1 .. p - 1 - 1 PROVE u[i] = query
    <3>1. i \in 1 .. Len(t) - 1 /\ i + 1 \in 1 .. p - 1
      BY <1>3, <1>4
    <3> QED BY <1>1, <1>3, <3>1
  <2>3. ASSUME NEW i \in p - 1 + 1 .. Len(u) - 1 PROVE Within(u[i], k)
    <3>1. i \in 1 .. Len(t) - 1 /\ i + 1 \in p + 1 .. Len(t) - 1
      BY <1>3, <1>4
    <3> QED BY <1>1, <1>3, <3>1
  <2>4. u[p - 1] = begin
    BY <1>1, <1>3, <2>1
  <2>5. Outside(u, k)
    BY <1>6, <2>1, <2>2, <2>3, <2>4 DEF Outside
  <2>6. Head(t) = query
    <3>1. 1 \in 1 .. p - 1
      BY <1>4, <1>8
    <3> QED BY <1>1, <1>3, <3>1
  <2> QED BY <1>2, <2>5, <2>6, OpsDiffer DEF u
<1> QED BY <1>7, <1>8

-----------------------------------------------------------------------------
(* What the handlers do                                                      *)

\* The steps of a list of lines, one for each: softDeleteOrder, restoreOrder.
LEMMA LockSteps ==
    ASSUME NEW n \in Nat, NEW ps \in [1 .. n -> Products]
    PROVE  /\ [i \in DOMAIN ps |-> Lock(ps[i])] \in Seq(Locks)
           /\ Len([i \in DOMAIN ps |-> Lock(ps[i])]) = n
<1> DEFINE f == [i \in DOMAIN ps |-> Lock(ps[i])]
<1>1. f = [i \in 1 .. n |-> Lock(ps[i])]
  OBVIOUS
<1>2. \A i \in 1 .. n : Lock(ps[i]) \in Locks
  BY DEF Locks, Rows
<1>3. f \in [1 .. n -> Locks]
  BY <1>1, <1>2
<1> QED BY <1>3

\* And two for each: createOrder.
LEMMA CreateSteps ==
    ASSUME NEW n \in Nat, NEW ps \in [1 .. n -> Products], NEW f,
           f = [i \in 1 .. 2 * Len(ps) |-> IF i % 2 = 1 THEN query ELSE Lock(ps[i \div 2])]
    PROVE  f \in Seq(Locks \cup {query}) /\ Len(f) = 2 * n
<1>1. Len(ps) = n
  BY SeqDef
<1>2. ASSUME NEW i \in 1 .. 2 * n, i % 2 # 1 PROVE Lock(ps[i \div 2]) \in Locks
  <2>1. i \div 2 \in 1 .. n
    BY <1>2
  <2> QED BY <2>1 DEF Locks, Rows
<1>3. f \in [1 .. 2 * n -> Locks \cup {query}]
  BY <1>1, <1>2
<1> QED BY <1>3

\* A handler's steps in three parts: up to somewhere in its transaction, the
\* steps of the lines, and the rest.
Opens(a, k) ==
    2 <= Len(a) /\ a[1] = query /\ a[2] = begin /\ \A i \in 3 .. Len(a) : Within(a[i], k)

GoesOn(b, k) == \A i \in 1 .. Len(b) : Within(b[i], k)

Closes(c, k) ==
    c # <<>> /\ c[Len(c)] = end /\ \A i \in 1 .. Len(c) - 1 : Within(c[i], k)

\* Together they are the steps of a request that has no transaction yet.
LEMMA WorkShape ==
    ASSUME NEW k, NEW a \in Seq(Ops), NEW b \in Seq(Ops), NEW c \in Seq(Ops),
           Opens(a, k), GoesOn(b, k), Closes(c, k)
    PROVE  a \o b \o c \in Seq(Ops) /\ Outside(a \o b \o c, k)
<1> DEFINE ab == a \o b
           t == ab \o c
<1>1. Len(a) \in Nat /\ Len(b) \in Nat /\ Len(c) \in Nat \ {0} /\ 2 <= Len(a)
  BY EmptySeq DEF Opens, Closes
<1>2. /\ ab \in Seq(Ops) /\ Len(ab) = Len(a) + Len(b)
      /\ \A i \in 1 .. Len(a) + Len(b) : ab[i] = IF i <= Len(a) THEN a[i] ELSE b[i - Len(a)]
  BY ConcatProperties
<1> HIDE DEF ab
<1>3. /\ t \in Seq(Ops) /\ Len(t) = Len(ab) + Len(c)
      /\ \A i \in 1 .. Len(ab) + Len(c) : t[i] = IF i <= Len(ab) THEN ab[i] ELSE c[i - Len(ab)]
  <2>1. ASSUME NEW d \in Seq(Ops)
        PROVE  /\ d \o c \in Seq(Ops) /\ Len(d \o c) = Len(d) + Len(c)
               /\ \A i \in 1 .. Len(d) + Len(c) :
                     (d \o c)[i] = IF i <= Len(d) THEN d[i] ELSE c[i - Len(d)]
    BY ConcatProperties
  <2> QED BY <1>2, <2>1, Zenon
<1> HIDE DEF t
<1>4. ASSUME NEW i \in 1 .. Len(a) PROVE t[i] = a[i]
  BY <1>1, <1>2, <1>3
<1>5. 2 \in 1 .. Len(t) - 1
  BY <1>1, <1>2, <1>3
<1>6. t[1] = query /\ t[2] = begin
  <2>1. 1 \in 1 .. Len(a) /\ 2 \in 1 .. Len(a)
    BY <1>1
  <2> QED BY <1>4, <2>1 DEF Opens
<1>7. t[Len(t)] = end
  <2>1. ~(Len(t) <= Len(ab)) /\ Len(t) - Len(ab) = Len(c) /\ Len(t) \in 1 .. Len(ab) + Len(c)
    BY <1>1, <1>2, <1>3
  <2> QED BY <1>3, <2>1 DEF Closes
<1>8. ASSUME NEW i \in 3 .. Len(t) - 1 PROVE Within(t[i], k)
  <2>1. CASE i <= Len(a)
    <3>1. i \in 1 .. Len(a) /\ i \in 3 .. Len(a)
      BY <1>1, <2>1
    <3> QED BY <1>4, <3>1 DEF Opens
  <2>2. CASE ~(i <= Len(a)) /\ i <= Len(ab)
    <3>1. i - Len(a) \in 1 .. Len(b) /\ i \in 1 .. Len(a) + Len(b) /\ i \in 1 .. Len(ab) + Len(c)
      BY <1>1, <1>2, <1>3, <2>2
    <3>2. t[i] = b[i - Len(a)]
      BY <1>2, <1>3, <2>2, <3>1
    <3> QED BY <3>1, <3>2 DEF GoesOn
  <2>3. CASE ~(i <= Len(ab))
    <3>1. i - Len(ab) \in 1 .. Len(c) - 1 /\ i \in 1 .. Len(ab) + Len(c)
      BY <1>1, <1>2, <1>3, <2>3
    <3>2. t[i] = c[i - Len(ab)]
      BY <1>3, <2>3, <3>1
    <3> QED BY <3>1, <3>2 DEF Closes
  <2> QED BY <2>1, <2>2, <2>3
<1>9. Outside(t, k)
  <2>1. 2 - 1 = 1 /\ 2 + 1 = 3
    OBVIOUS
  <2>2. \A i \in 1 .. 2 - 1 : t[i] = query
    BY <1>6
  <2>3. \A i \in 2 + 1 .. Len(t) - 1 : Within(t[i], k)
    BY <1>8, <2>1
  <2> QED BY <1>5, <1>6, <1>7, <2>2, <2>3 DEF Outside
<1> QED BY <1>3, <1>9 DEF t, ab

\* Every handler ends the transaction it begins, and only createOrder takes a
\* second connection in it.
LEMMA WorkFacts ==
    ASSUME NEW k \in Kinds, NEW ps \in Lines
    PROVE  Work(k, ps) \in Seq(Ops) /\ Outside(Work(k, ps), k)
<1>1. PICK n \in Nat : ps \in [1 .. n -> Products]
  BY MaxAssumption DEF Lines
<1>2. /\ query \in Ops /\ begin \in Ops /\ end \in Ops /\ Locks \subseteq Ops
      /\ Lock(Order) \in Locks
  BY OpsDiffer DEF Locks, Rows
<1>3. \A o \in Locks : Within(o, k)
  BY DEF Within
<1> DEFINE ls == [i \in DOMAIN ps |-> Lock(ps[i])]
<1>4. ls \in Seq(Locks)
  BY Zenon, <1>1, LockSteps
<1>5. ls \in Seq(Ops) /\ GoesOn(ls, k)
  BY <1>2, <1>3, <1>4 DEF GoesOn
<1> HIDE DEF ls
<1>6. CASE k = "create"
  <2> DEFINE f == [i \in 1 .. 2 * Len(ps) |-> IF i % 2 = 1 THEN query ELSE Lock(ps[i \div 2])]
             a == <<query, begin, query>>
             c == <<end>>
  <2>1. f \in Seq(Locks \cup {query})
    BY Zenon, <1>1, CreateSteps
  <2>2. Work(k, ps) = a \o f \o c
    BY <1>6 DEF Work, createOrder
  <2> HIDE DEF f
  <2>3. f \in Seq(Ops) /\ GoesOn(f, k)
    BY <1>2, <1>6, <2>1 DEF GoesOn, Within
  <2>4. Within(query, k)
    BY <1>6 DEF Within
  <2>5. /\ a \in Seq(Ops) /\ Len(a) = 3 /\ a[1] = query /\ a[2] = begin /\ a[3] = query
        /\ c \in Seq(Ops) /\ Len(c) = 1 /\ c[1] = end /\ c # <<>>
    BY <1>2
  <2> HIDE DEF a, c
  <2>6. Opens(a, k) /\ Closes(c, k)
    BY <2>4, <2>5 DEF Opens, Closes
  <2> QED BY <2>2, <2>3, <2>5, <2>6, WorkShape
<1>7. CASE k = "delete"
  <2> DEFINE a == <<query, begin>>
             c == <<Lock(Order), end>>
  <2>1. Work(k, ps) = a \o ls \o c
    BY <1>7 DEF Work, softDeleteOrder, ls
  <2>2. /\ a \in Seq(Ops) /\ Len(a) = 2 /\ a[1] = query /\ a[2] = begin
        /\ c \in Seq(Ops) /\ Len(c) = 2 /\ c[1] = Lock(Order) /\ c[2] = end /\ c # <<>>
    BY <1>2
  <2> HIDE DEF a, c
  <2>3. Opens(a, k) /\ Closes(c, k)
    BY <1>2, <1>3, <2>2 DEF Opens, Closes
  <2> QED BY <1>5, <2>1, <2>2, <2>3, WorkShape
<1>8. CASE k = "restore"
  <2> DEFINE a == <<query, begin, Lock(Order)>>
             c == <<end>>
  <2>1. Work(k, ps) = a \o ls \o c
    BY <1>8 DEF Work, restoreOrder, ls
  <2>2. /\ a \in Seq(Ops) /\ Len(a) = 3 /\ a[1] = query /\ a[2] = begin /\ a[3] = Lock(Order)
        /\ c \in Seq(Ops) /\ Len(c) = 1 /\ c[1] = end /\ c # <<>>
    BY <1>2
  <2> HIDE DEF a, c
  <2>3. Opens(a, k) /\ Closes(c, k)
    BY <1>2, <1>3, <2>2 DEF Opens, Closes
  <2> QED BY <1>5, <2>1, <2>2, <2>3, WorkShape
<1>9. CASE k = "update"
  <2> DEFINE t == <<query, query, begin, Lock(Order), end>>
  <2>1. Work(k, ps) = t
    BY <1>9 DEF Work, updateOrder
  <2>2. /\ t \in Seq(Ops) /\ Len(t) = 5 /\ t[1] = query /\ t[2] = query /\ t[3] = begin
        /\ t[4] = Lock(Order) /\ t[5] = end
    BY <1>2
  <2> HIDE DEF t
  <2>3. /\ 3 \in 1 .. Len(t) - 1 /\ (\A i \in 1 .. 3 - 1 : t[i] = query)
        /\ t[Len(t)] = end
        /\ (\A i \in 3 + 1 .. Len(t) - 1 : Within(t[i], k))
    BY <1>2, <1>3, <2>2
  <2>4. Outside(t, k)
    BY <2>2, <2>3 DEF Outside
  <2> QED BY <2>1, <2>2, <2>4
<1> QED BY <1>6, <1>7, <1>8, <1>9 DEF Kinds

-----------------------------------------------------------------------------
(* Connections                                                               *)

\* A connection less, or one more.
LEMMA CountFacts ==
    ASSUME NEW ks, NEW us, NEW n, Counted(ks, us, n), NEW r
    PROVE  /\ r \notin ks /\ n > 0 => Counted(ks \cup {r}, us, n - 1)
           /\ r \notin us /\ n > 0 => Counted(ks, us \cup {r}, n - 1)
           /\ r \in ks => Counted(ks \ {r}, us, n + 1)
           /\ r \in us => Counted(ks, us \ {r}, n + 1)
<1>1. /\ n \in Nat /\ Cardinality(ks) \in Nat /\ Cardinality(us) \in Nat
      /\ IsFiniteSet(ks) /\ IsFiniteSet(us)
      /\ n + Cardinality(ks) + Cardinality(us) = PoolMax
  BY FS_CardinalityType DEF Counted
<1>2. /\ IsFiniteSet(ks \cup {r}) /\ IsFiniteSet(us \cup {r})
      /\ r \notin ks => Cardinality(ks \cup {r}) = Cardinality(ks) + 1
      /\ r \notin us => Cardinality(us \cup {r}) = Cardinality(us) + 1
  BY <1>1, FS_AddElement
<1>3. /\ IsFiniteSet(ks \ {r}) /\ IsFiniteSet(us \ {r})
      /\ r \in ks => Cardinality(ks \ {r}) = Cardinality(ks) - 1
      /\ r \in us => Cardinality(us \ {r}) = Cardinality(us) - 1
  BY <1>1, FS_RemoveElement
<1>4. r \notin ks /\ n > 0 => Counted(ks \cup {r}, us, n - 1)
  BY <1>1, <1>2 DEF Counted
<1>5. r \notin us /\ n > 0 => Counted(ks, us \cup {r}, n - 1)
  BY <1>1, <1>2 DEF Counted
<1>6. r \in ks => Counted(ks \ {r}, us, n + 1)
  BY <1>1, <1>3 DEF Counted
<1>7. r \in us => Counted(ks, us \ {r}, n + 1)
  BY <1>1, <1>3 DEF Counted
<1> QED BY <1>4, <1>5, <1>6, <1>7

\* A request at a statement that needs a connection is given one.
LEMMA GiveKeeps ==
    ASSUME NEW td, NEW kd, NEW ks, NEW us, NEW ln, NEW n, NEW r \in Requests,
           Typed(td, kd, ks, us), Shaped(td, kd, ks), InUse(td, us), InLine(td, us, ln),
           Counted(ks, us, n), n > 0,
           r \notin us, r \notin Range(ln), td[r] # <<>>, Head(td[r]) \in {query, begin},
           Give(r, td, ks, us)
    PROVE  /\ Typed(todo', kd, keeps', uses') /\ Shaped(todo', kd, keeps')
           /\ InUse(todo', uses') /\ InLine(todo', uses', ln)
           /\ Counted(keeps', uses', n - 1)
           /\ ks \subseteq keeps'
<1>1. CASE Head(td[r]) = begin
  <2>1. keeps' = ks \cup {r} /\ uses' = us /\ todo' = [td EXCEPT ![r] = Tail(@)]
    BY <1>1 DEF Give
  <2>2. td \in [Requests -> Seq(Ops)] /\ td[r] \in Seq(Ops) /\ Tail(td[r]) \in Seq(Ops)
    BY HeadFacts DEF Typed
  <2>3. /\ todo' \in [Requests -> Seq(Ops)] /\ todo'[r] = Tail(td[r])
        /\ \A q \in Requests \ {r} : todo'[q] = td[q]
    BY <2>1, <2>2
  <2>4. r \notin ks
    <3>1. r \in ks => Inside(td[r], kd[r])
      BY DEF Shaped
    <3> QED BY <1>1, <2>2, <3>1, InsideHead
  <2>5. Inside(todo'[r], kd[r])
    <3>1. Outside(td[r], kd[r])
      BY <2>4 DEF Shaped
    <3> QED BY <1>1, <2>2, <2>3, <3>1, OutsideFacts
  <2>6. Typed(todo', kd, keeps', uses')
    BY <2>1, <2>3 DEF Typed
  <2>7. Shaped(todo', kd, keeps')
    BY <2>1, <2>3, <2>5 DEF Shaped
  <2>8. InUse(todo', uses')
    BY <2>1, <2>3 DEF InUse, Typed
  <2>9. InLine(todo', uses', ln)
    <3>1. Range(ln) \subseteq Requests
      BY DEF InLine, Range
    <3> QED BY <2>1, <2>3, <3>1 DEF InLine
  <2>10. Counted(keeps', uses', n - 1)
    BY Zenon, <2>1, <2>4, CountFacts
  <2> QED BY <2>1, <2>6, <2>7, <2>8, <2>9, <2>10
<1>2. CASE Head(td[r]) # begin
  <2>1. keeps' = ks /\ uses' = us \cup {r} /\ todo' = td
    BY <1>2 DEF Give
  <2>2. Head(td[r]) = query
    BY <1>2
  <2>3. Typed(todo', kd, keeps', uses')
    BY <2>1 DEF Typed
  <2>4. InUse(todo', uses')
    BY <2>1, <2>2 DEF InUse
  <2>5. InLine(todo', uses', ln)
    BY <2>1 DEF InLine
  <2>6. Counted(keeps', uses', n - 1)
    BY Zenon, <2>1, CountFacts
  <2> QED BY <2>1, <2>3, <2>4, <2>5, <2>6
<1> QED BY <1>1, <1>2

\* The head of a line and the rest of it.
LEMMA LineFacts ==
    ASSUME NEW ln \in Seq(Requests), ln # <<>>, IsInjective(ln)
    PROVE  /\ Head(ln) \in Requests /\ Head(ln) \in Range(ln)
           /\ Tail(ln) \in Seq(Requests) /\ IsInjective(Tail(ln))
           /\ Range(Tail(ln)) = Range(ln) \ {Head(ln)}
<1> DEFINE t == Tail(ln)
<1>1. /\ t \in Seq(Requests) /\ Len(t) = Len(ln) - 1 /\ Len(ln) \in Nat \ {0}
      /\ \A i \in 1 .. Len(t) : t[i] = ln[i + 1]
      /\ Head(ln) = ln[1] /\ 1 \in DOMAIN ln
  BY HeadTailProperties, EmptySeq
<1> HIDE DEF t
<1>2. Range(t) = Range(ln) \ {Head(ln)}
  <2>1. ASSUME NEW i \in DOMAIN t PROVE t[i] \in Range(ln) \ {Head(ln)}
    BY <1>1 DEF Range, IsInjective
  <2>2. ASSUME NEW i \in DOMAIN ln, ln[i] # Head(ln) PROVE ln[i] \in Range(t)
    <3>1. i - 1 \in DOMAIN t /\ t[i - 1] = ln[i]
      BY <1>1, <2>2
    <3> QED BY <3>1 DEF Range
  <2> QED BY <2>1, <2>2 DEF Range
<1>3. IsInjective(t)
  BY <1>1 DEF IsInjective
<1>4. Head(ln) \in Requests /\ Head(ln) \in Range(ln)
  BY <1>1 DEF Range
<1> QED BY <1>1, <1>2, <1>3, <1>4 DEF t

\* A connection that comes back is free, or goes to the first in line.
LEMMA ReleaseKeeps ==
    ASSUME NEW td, NEW kd, NEW ks, NEW us,
           Typed(td, kd, ks, us), Shaped(td, kd, ks), InUse(td, us), InLine(td, us, line),
           free \in Nat, Counted(ks, us, free + 1), line # <<>> => free = 0,
           Release(td, ks, us)
    PROVE  /\ Typed(todo', kd, keeps', uses') /\ Shaped(todo', kd, keeps')
           /\ InUse(todo', uses') /\ InLine(todo', uses', line')
           /\ Counted(keeps', uses', free') /\ (line' # <<>> => free' = 0)
           /\ ks \subseteq keeps'
<1>1. CASE line = <<>>
  <2>1. free' = free + 1 /\ todo' = td /\ keeps' = ks /\ uses' = us /\ line' = line
    BY <1>1 DEF Release
  <2> QED BY <1>1, <2>1
<1>2. CASE line # <<>>
  <2>1. line' = Tail(line) /\ Give(Head(line), td, ks, us) /\ free' = free
    BY <1>2 DEF Release
  <2>2. /\ Head(line) \in Requests /\ Head(line) \in Range(line)
        /\ Tail(line) \in Seq(Requests) /\ IsInjective(Tail(line))
        /\ Range(Tail(line)) = Range(line) \ {Head(line)}
    BY <1>2, LineFacts DEF InLine
  <2>3. InLine(td, us, Tail(line))
    BY <2>2 DEF InLine
  <2>4. /\ Head(line) \notin us /\ Head(line) \notin Range(Tail(line))
        /\ td[Head(line)] # <<>> /\ Head(td[Head(line)]) \in {query, begin}
    BY <2>2 DEF InLine
  <2>5. free + 1 > 0 /\ free + 1 - 1 = free
    OBVIOUS
  <2>6. /\ Typed(todo', kd, keeps', uses') /\ Shaped(todo', kd, keeps')
        /\ InUse(todo', uses') /\ InLine(todo', uses', Tail(line))
        /\ Counted(keeps', uses', free + 1 - 1)
        /\ ks \subseteq keeps'
    BY <2>1, <2>2, <2>3, <2>4, <2>5, GiveKeeps
  <2> QED BY <1>2, <2>1, <2>5, <2>6
<1> QED BY <1>1, <1>2

-----------------------------------------------------------------------------
(* The steps                                                                 *)

Shape(t, k, kept) == IF kept THEN Inside(t, k) ELSE t = <<>> \/ Outside(t, k)

\* Only what is left to one request changes, one that is not in line and holds
\* no connection for a statement.
LEMMA StepKeeps ==
    ASSUME NEW td, NEW kd, NEW ks, NEW us, NEW ln,
           Typed(td, kd, ks, us), Shaped(td, kd, ks), InUse(td, us), InLine(td, us, ln),
           NEW r \in Requests, r \notin us, r \notin Range(ln), NEW t \in Seq(Ops),
           NEW kd2 \in [Requests -> Kinds \cup {None}], \A q \in Requests \ {r} : kd2[q] = kd[q],
           NEW ks2 \in SUBSET Requests, \A q \in Requests \ {r} : q \in ks2 <=> q \in ks,
           Shape(t, kd2[r], r \in ks2)
    PROVE  /\ Typed([td EXCEPT ![r] = t], kd2, ks2, us)
           /\ Shaped([td EXCEPT ![r] = t], kd2, ks2)
           /\ InUse([td EXCEPT ![r] = t], us) /\ InLine([td EXCEPT ![r] = t], us, ln)
<1> DEFINE td2 == [td EXCEPT ![r] = t]
<1>1. /\ td2 \in [Requests -> Seq(Ops)] /\ td2[r] = t
      /\ \A q \in Requests \ {r} : td2[q] = td[q]
  BY DEF Typed
<1> HIDE DEF td2
<1>2. Typed(td2, kd2, ks2, us)
  BY <1>1 DEF Typed
<1>3. Shaped(td2, kd2, ks2)
  BY <1>1 DEF Shaped, Shape
<1>4. InUse(td2, us)
  BY <1>1 DEF InUse, Typed
<1>5. InLine(td2, us, ln)
  <2>1. Range(ln) \subseteq Requests
    BY DEF InLine, Range
  <2> QED BY <1>1, <2>1 DEF InLine
<1> QED BY <1>2, <1>3, <1>4, <1>5 DEF td2

\* Where a request is tells what it holds.
LEMMA Whereabouts ==
    ASSUME IInv, NEW r \in Requests
    PROVE  /\ todo[r] \in Seq(Ops)
           /\ Shape(todo[r], kind[r], r \in keeps)
           /\ r \in uses => Busy(r) /\ Now(r) = query /\ ~Waiting(r)
           /\ Waiting(r) => Busy(r) /\ Now(r) \in {query, begin} /\ r \notin uses
           /\ Busy(r) /\ Now(r) \notin {query, begin} =>
                 r \in keeps /\ r \notin uses /\ ~Waiting(r)
           /\ r \in keeps => Busy(r) /\ Now(r) # begin
<1>1. todo[r] \in Seq(Ops)
  BY DEF IInv, Typed
<1>2. Shape(todo[r], kind[r], r \in keeps)
  BY DEF IInv, Shaped, Shape
<1>3. r \in uses => Busy(r) /\ Now(r) = query /\ ~Waiting(r)
  BY DEF IInv, InUse, InLine, Busy, Now, Waiting
<1>4. Waiting(r) => Busy(r) /\ Now(r) \in {query, begin} /\ r \notin uses
  BY DEF IInv, InLine, Busy, Now, Waiting
<1>5. Busy(r) /\ r \notin keeps => Now(r) \in {query, begin}
  BY <1>1, <1>2, OutsideFacts DEF Shape, Busy, Now
<1>6. r \in keeps => Busy(r) /\ Now(r) # begin
  <2>1. r \in keeps => Inside(todo[r], kind[r])
    BY <1>2 DEF Shape
  <2> QED BY <1>1, <2>1, InsideHead DEF Inside, Busy, Now
<1> QED BY <1>1, <1>2, <1>3, <1>4, <1>5, <1>6

\* What is left to a request that gives up.
LEMMA GiveUpShape ==
    ASSUME NEW r, NEW k
    PROVE  GiveUp(r) \in Seq(Ops) /\ Shape(GiveUp(r), k, r \in keeps)
<1>1. <<end>> \in Seq(Ops) /\ <<>> \in Seq(Ops)
  BY OpsDiffer
<1> QED BY <1>1, InsideEnd DEF GiveUp, Shape

\* Nothing has come in yet and every connection is free.
LEMMA InitHolds == Init => IInv
<1> SUFFICES ASSUME Init PROVE IInv
  OBVIOUS
<1>1. Typed(todo, kind, keeps, uses) /\ Shaped(todo, kind, keeps) /\ InUse(todo, uses)
  <2>1. <<>> \in Seq(Ops)
    OBVIOUS
  <2> QED BY <2>1 DEF Init, Typed, Shaped, InUse
<1>2. InLine(todo, uses, line)
  BY DEF Init, InLine, IsInjective, Range
<1>3. Counted(keeps, uses, free)
  BY FS_EmptySet, MaxAssumption DEF Init, Counted
<1> QED BY <1>1, <1>2, <1>3 DEF Init, IInv

\* A request comes in.
LEMMA ArriveKeeps ==
    ASSUME IInv, NEW r \in Requests, NEW k \in Kinds, NEW ps \in Lines, Arrive(r, k, ps)
    PROVE  IInv'
<1>1. /\ ~Busy(r) /\ todo' = [todo EXCEPT ![r] = Work(k, ps)]
      /\ kind' = [kind EXCEPT ![r] = k] /\ UNCHANGED <<keeps, uses, line, free, lock>>
  BY DEF Arrive
<1>2. r \notin uses /\ r \notin Range(line) /\ r \notin keeps
  BY <1>1, Whereabouts DEF Waiting
<1>3. Work(k, ps) \in Seq(Ops) /\ Outside(Work(k, ps), k)
  BY WorkFacts
<1>4. /\ kind' \in [Requests -> Kinds \cup {None}] /\ kind'[r] = k
      /\ \A q \in Requests \ {r} : kind'[q] = kind[q]
  BY <1>1 DEF IInv, Typed
<1>5. Shape(Work(k, ps), kind'[r], r \in keeps)
  BY <1>2, <1>3, <1>4 DEF Shape
<1>6. keeps \in SUBSET Requests
  BY DEF IInv, Typed
<1>7. /\ Typed(todo', kind', keeps, uses) /\ Shaped(todo', kind', keeps)
      /\ InUse(todo', uses) /\ InLine(todo', uses, line)
  BY ZenonT(60), <1>1, <1>2, <1>3, <1>4, <1>5, <1>6, StepKeeps DEF IInv
<1> QED BY <1>1, <1>7 DEF IInv

\* A step of one request that takes no connection and gives none back.
LEMMA RequestKeeps ==
    ASSUME IInv, NEW r \in Requests, r \notin uses, ~Waiting(r), NEW t \in Seq(Ops),
           Shape(t, kind[r], r \in keeps), todo' = [todo EXCEPT ![r] = t],
           UNCHANGED <<kind, keeps, uses, line, free>>,
           lock' \in [Rows -> Requests \cup {None}],
           \A x \in Rows : lock'[x] = None \/ lock'[x] \in keeps
    PROVE  IInv'
<1>1. keeps \in SUBSET Requests /\ kind \in [Requests -> Kinds \cup {None}]
  BY DEF IInv, Typed
<1>2. r \notin Range(line)
  BY DEF Waiting
<1>3. /\ Typed(todo', kind, keeps, uses) /\ Shaped(todo', kind, keeps)
      /\ InUse(todo', uses) /\ InLine(todo', uses, line)
  BY ZenonT(60), <1>1, <1>2, StepKeeps DEF IInv
<1> QED BY <1>3 DEF IInv

\* A row is locked by the request whose transaction it is in.
LEMMA LockRowKeeps ==
    ASSUME IInv, NEW r \in Requests, LockRow(r)
    PROVE  IInv'
<1>1. /\ Busy(r) /\ Now(r).do = "lock" /\ lock' = [lock EXCEPT ![Now(r).row] = r]
      /\ todo' = [todo EXCEPT ![r] = Tail(todo[r])] /\ UNCHANGED <<kind, keeps, uses, line, free>>
  BY DEF LockRow
<1>2. Now(r) # end /\ Now(r) \notin {query, begin}
  BY <1>1, OpsDiffer
<1>3. r \in keeps /\ r \notin uses /\ ~Waiting(r) /\ todo[r] \in Seq(Ops)
  BY <1>1, <1>2, Whereabouts
<1>4. Inside(todo[r], kind[r])
  BY <1>3, Whereabouts DEF Shape
<1>5. Tail(todo[r]) \in Seq(Ops) /\ Inside(Tail(todo[r]), kind[r])
  BY <1>1, <1>2, <1>3, <1>4, InsideTail, HeadFacts DEF Busy, Now
<1>6. Shape(Tail(todo[r]), kind[r], r \in keeps)
  BY <1>3, <1>5 DEF Shape
<1>7. /\ lock' \in [Rows -> Requests \cup {None}]
      /\ \A x \in Rows : lock'[x] = None \/ lock'[x] \in keeps
  BY Zenon, <1>1, <1>3 DEF IInv
<1> QED BY <1>1, <1>3, <1>5, <1>6, <1>7, RequestKeeps

\* A handler gives up inside its transaction.
LEMMA RefuseKeeps ==
    ASSUME IInv, NEW r \in Requests, Refuse(r)
    PROVE  IInv'
<1>1. /\ r \notin uses /\ ~Waiting(r) /\ todo' = [todo EXCEPT ![r] = GiveUp(r)]
      /\ UNCHANGED <<kind, keeps, uses, line, free, lock>>
  BY DEF Refuse
<1>2. GiveUp(r) \in Seq(Ops) /\ Shape(GiveUp(r), kind[r], r \in keeps)
  BY GiveUpShape
<1>3. /\ lock' \in [Rows -> Requests \cup {None}]
      /\ \A x \in Rows : lock'[x] = None \/ lock'[x] \in keeps
  BY <1>1 DEF IInv
<1> QED BY <1>1, <1>2, <1>3, RequestKeeps

\* PostgreSQL makes one that waits for a row give up.
LEMMA VictimKeeps ==
    ASSUME IInv, NEW r \in Requests, Victim(r)
    PROVE  IInv'
<1>1. /\ Blocked(r) /\ todo' = [todo EXCEPT ![r] = GiveUp(r)]
      /\ UNCHANGED <<kind, keeps, uses, line, free, lock>>
  BY DEF Victim
<1>2. Busy(r) /\ Now(r) \notin {query, begin}
  BY <1>1, OpsDiffer DEF Blocked
<1>3. r \notin uses /\ ~Waiting(r)
  BY <1>2, Whereabouts
<1>4. GiveUp(r) \in Seq(Ops) /\ Shape(GiveUp(r), kind[r], r \in keeps)
  BY GiveUpShape
<1>5. /\ lock' \in [Rows -> Requests \cup {None}]
      /\ \A x \in Rows : lock'[x] = None \/ lock'[x] \in keeps
  BY <1>1 DEF IInv
<1> QED BY <1>1, <1>3, <1>4, <1>5, RequestKeeps

\* A request takes a connection, or gets in line when there is none.
LEMMA AcquireKeeps ==
    ASSUME IInv, NEW r \in Requests, Acquire(r)
    PROVE  IInv'
<1>1. /\ Busy(r) /\ Now(r) \in {query, begin} /\ r \notin uses /\ ~Waiting(r)
      /\ UNCHANGED <<kind, lock>>
  BY DEF Acquire
<1>2. /\ r \notin Range(line) /\ todo[r] # <<>> /\ Head(todo[r]) \in {query, begin}
      /\ free \in Nat
  BY <1>1 DEF Waiting, Busy, Now, IInv, Counted
<1>3. CASE free > 0
  <2>1. free' = free - 1 /\ Give(r, todo, keeps, uses) /\ line' = line
    BY <1>3 DEF Acquire
  <2>2. /\ Typed(todo', kind, keeps', uses') /\ Shaped(todo', kind, keeps')
        /\ InUse(todo', uses') /\ InLine(todo', uses', line)
        /\ Counted(keeps', uses', free - 1)
        /\ keeps \subseteq keeps'
    BY <1>1, <1>2, <1>3, <2>1, GiveKeeps DEF IInv
  <2>3. line = <<>>
    BY <1>2, <1>3 DEF IInv
  <2>4. \A x \in Rows : lock[x] = None \/ lock[x] \in keeps'
    BY <2>2 DEF IInv
  <2> QED BY <1>1, <2>1, <2>2, <2>3, <2>4 DEF IInv
<1>4. CASE ~(free > 0)
  <2>1. line' = Append(line, r) /\ UNCHANGED <<todo, keeps, uses, free>>
    BY <1>4 DEF Acquire
  <2>2. free = 0
    BY <1>2, <1>4
  <2>3. /\ Append(line, r) \in Seq(Requests) /\ Range(Append(line, r)) = Range(line) \cup {r}
        /\ IsInjective(Append(line, r))
    <3>1. line \in Seq(Requests) /\ IsInjective(line)
      BY DEF IInv, InLine
    <3> QED BY <1>2, <3>1, AppendProperties DEF Range, IsInjective
  <2>4. InLine(todo, uses, Append(line, r))
    BY <1>1, <1>2, <2>3 DEF IInv, InLine
  <2> QED BY <1>1, <2>1, <2>2, <2>4 DEF IInv
<1> QED BY <1>3, <1>4

\* The request gives back the connection of its statement, and goes on with t.
LEMMA StatementKeeps ==
    ASSUME IInv, NEW r \in uses, NEW t \in Seq(Ops),
           NEW kd \in [Requests -> Kinds \cup {None}], \A q \in Requests \ {r} : kd[q] = kind[q],
           Shape(t, kd[r], r \in keeps),
           Release([todo EXCEPT ![r] = t], keeps, uses \ {r}), kind' = kd, UNCHANGED lock
    PROVE  IInv'
<1> DEFINE td == [todo EXCEPT ![r] = t]
           us == uses \ {r}
<1>1. r \in Requests /\ keeps \in SUBSET Requests
  BY DEF IInv, Typed
<1>2. Typed(todo, kind, keeps, us) /\ InUse(todo, us) /\ InLine(todo, us, line)
  BY DEF IInv, Typed, InUse, InLine
<1>3. r \notin us /\ r \notin Range(line)
  BY DEF IInv, InLine
<1>4. free \in Nat /\ Counted(keeps, us, free + 1)
  <2>1. Counted(keeps, uses, free)
    BY DEF IInv
  <2>2. Counted(keeps, uses \ {r}, free + 1)
    BY Zenon, <2>1, CountFacts
  <2> QED BY <2>1, <2>2 DEF Counted
<1> HIDE DEF us
<1>5. /\ Typed(td, kd, keeps, us) /\ Shaped(td, kd, keeps)
      /\ InUse(td, us) /\ InLine(td, us, line)
  BY <1>1, <1>2, <1>3, StepKeeps DEF IInv
<1>6. Release(td, keeps, us)
  BY DEF us
<1> HIDE DEF td
<1>7. line # <<>> => free = 0
  BY DEF IInv
<1>8. /\ Typed(todo', kd, keeps', uses') /\ Shaped(todo', kd, keeps')
      /\ InUse(todo', uses') /\ InLine(todo', uses', line')
      /\ Counted(keeps', uses', free') /\ (line' # <<>> => free' = 0)
      /\ keeps \subseteq keeps'
  BY <1>4, <1>5, <1>6, <1>7, ReleaseKeeps
<1>9. \A x \in Rows : lock[x] = None \/ lock[x] \in keeps'
  BY <1>8 DEF IInv
<1> QED BY <1>8, <1>9 DEF IInv

\* The statement is done.
LEMMA QueryKeeps ==
    ASSUME IInv, NEW r \in Requests, Query(r)
    PROVE  IInv'
<1>1. /\ r \in uses /\ Release([todo EXCEPT ![r] = Tail(todo[r])], keeps, uses \ {r})
      /\ UNCHANGED <<kind, lock>>
  BY DEF Query
<1>2. todo[r] \in Seq(Ops) /\ todo[r] # <<>> /\ Head(todo[r]) = query /\ Head(todo[r]) # end
  BY <1>1, Whereabouts, OpsDiffer DEF Busy, Now
<1>3. Shape(todo[r], kind[r], r \in keeps)
  BY Whereabouts
<1>4. Tail(todo[r]) \in Seq(Ops)
  BY <1>2, HeadFacts
<1>5. Shape(Tail(todo[r]), kind[r], r \in keeps)
  <2>1. CASE r \in keeps
    BY <1>2, <1>3, <2>1, InsideTail DEF Shape
  <2>2. CASE r \notin keeps
    BY <1>2, <1>3, <2>2, OutsideFacts DEF Shape
  <2> QED BY <2>1, <2>2
<1>6. kind \in [Requests -> Kinds \cup {None}]
  BY DEF IInv, Typed
<1> QED BY <1>1, <1>4, <1>5, <1>6, StatementKeeps

\* A request that gives up is done, unless it has a transaction to roll back.
LEMMA KindFacts ==
    ASSUME IInv, NEW r \in Requests, NEW kd,
           kd = IF r \in keeps THEN kind ELSE [kind EXCEPT ![r] = None]
    PROVE  kd \in [Requests -> Kinds \cup {None}] /\ \A q \in Requests \ {r} : kd[q] = kind[q]
BY DEF IInv, Typed

\* The statement fails.
LEMMA QueryFailsKeeps ==
    ASSUME IInv, NEW r \in Requests, QueryFails(r)
    PROVE  IInv'
<1>1. /\ r \in uses /\ Release([todo EXCEPT ![r] = GiveUp(r)], keeps, uses \ {r})
      /\ kind' = (IF r \in keeps THEN kind ELSE [kind EXCEPT ![r] = None])
      /\ UNCHANGED lock
  BY DEF QueryFails
<1>2. GiveUp(r) \in Seq(Ops) /\ Shape(GiveUp(r), kind'[r], r \in keeps)
  BY GiveUpShape
<1>3. kind' \in [Requests -> Kinds \cup {None}] /\ \A q \in Requests \ {r} : kind'[q] = kind[q]
  BY Zenon, <1>1, KindFacts
<1> QED BY <1>1, <1>2, <1>3, StatementKeeps

\* The first in line gives up.
LEMMA TimeoutKeeps ==
    ASSUME IInv, Timeout
    PROVE  IInv'
<1> DEFINE r == Head(line)
<1>1. /\ line # <<>> /\ todo' = [todo EXCEPT ![r] = GiveUp(r)]
      /\ kind' = (IF r \in keeps THEN kind ELSE [kind EXCEPT ![r] = None])
      /\ line' = Tail(line) /\ UNCHANGED <<keeps, uses, free, lock>>
  BY DEF Timeout
<1>2. /\ r \in Requests /\ r \in Range(line)
      /\ Tail(line) \in Seq(Requests) /\ IsInjective(Tail(line))
      /\ Range(Tail(line)) = Range(line) \ {r}
  BY <1>1, LineFacts DEF IInv, InLine
<1> HIDE DEF r
<1>3. InLine(todo, uses, Tail(line)) /\ r \notin uses /\ r \notin Range(Tail(line))
  BY <1>2 DEF IInv, InLine
<1>4. GiveUp(r) \in Seq(Ops) /\ Shape(GiveUp(r), kind'[r], r \in keeps)
  BY GiveUpShape
<1>5. kind' \in [Requests -> Kinds \cup {None}] /\ \A q \in Requests \ {r} : kind'[q] = kind[q]
  BY Zenon, <1>1, <1>2, KindFacts
<1>6. keeps \in SUBSET Requests
  BY DEF IInv, Typed
<1>7. /\ Typed(todo', kind', keeps, uses) /\ Shaped(todo', kind', keeps)
      /\ InUse(todo', uses) /\ InLine(todo', uses, Tail(line))
  <2> DEFINE t == GiveUp(r)
             td == [todo EXCEPT ![r] = t]
             kd == kind'
  <2>1. t \in Seq(Ops) /\ Shape(t, kd[r], r \in keeps) /\ todo' = td
    BY <1>1, <1>4
  <2>2. kd \in [Requests -> Kinds \cup {None}] /\ \A q \in Requests \ {r} : kd[q] = kind[q]
    BY <1>5
  <2> HIDE DEF t, kd
  <2>3. Typed(todo, kind, keeps, uses) /\ Shaped(todo, kind, keeps) /\ InUse(todo, uses)
    BY DEF IInv
  <2>4. /\ Typed(td, kd, keeps, uses) /\ Shaped(td, kd, keeps)
        /\ InUse(td, uses) /\ InLine(td, uses, Tail(line))
    BY ZenonT(60), <1>2, <1>3, <1>6, <2>1, <2>2, <2>3, StepKeeps
  <2> QED BY <2>1, <2>4 DEF kd
<1>8. free = 0
  BY <1>1 DEF IInv
<1> QED BY <1>1, <1>7, <1>8 DEF IInv

\* A transaction ends: its locks and its connection go back.
LEMMA EndKeeps ==
    ASSUME IInv, NEW r \in Requests, End(r)
    PROVE  IInv'
<1> DEFINE td == [todo EXCEPT ![r] = <<>>]
           ks == keeps \ {r}
           kd == [kind EXCEPT ![r] = None]
<1>1. /\ Busy(r) /\ Now(r) = end /\ lock' = Unlock(r)
      /\ Release(td, ks, uses) /\ kind' = kd
  BY DEF End
<1>2. r \in keeps /\ r \notin uses /\ ~Waiting(r)
  BY <1>1, Whereabouts, OpsDiffer
<1>3. kd \in [Requests -> Kinds \cup {None}] /\ \A q \in Requests \ {r} : kd[q] = kind[q]
  BY DEF IInv, Typed
<1>4. ks \in SUBSET Requests /\ r \notin ks /\ \A q \in Requests \ {r} : q \in ks <=> q \in keeps
  BY DEF IInv, Typed
<1>5. free \in Nat /\ Counted(ks, uses, free + 1)
  <2>1. Counted(keeps, uses, free)
    BY DEF IInv
  <2>2. Counted(keeps \ {r}, uses, free + 1)
    BY Zenon, <1>2, <2>1, CountFacts
  <2> QED BY <2>1, <2>2 DEF Counted
<1>6. \A x \in Rows : lock'[x] = None \/ lock'[x] \in ks
  BY <1>1 DEF IInv, Unlock
<1>7. lock' \in [Rows -> Requests \cup {None}]
  BY <1>1 DEF IInv, Unlock
<1> HIDE DEF ks, kd
<1>8. <<>> \in Seq(Ops) /\ Shape(<<>>, kd[r], r \in ks)
  BY <1>4 DEF Shape
<1>9. /\ Typed(td, kd, ks, uses) /\ Shaped(td, kd, ks)
      /\ InUse(td, uses) /\ InLine(td, uses, line)
  <2>1. r \notin Range(line)
    BY <1>2 DEF Waiting
  <2> QED BY <1>2, <1>3, <1>4, <1>8, <2>1, StepKeeps DEF IInv
<1> HIDE DEF td
<1>10. line # <<>> => free = 0
  BY DEF IInv
<1>11. /\ Typed(todo', kd, keeps', uses') /\ Shaped(todo', kd, keeps')
       /\ InUse(todo', uses') /\ InLine(todo', uses', line')
       /\ Counted(keeps', uses', free') /\ (line' # <<>> => free' = 0)
       /\ ks \subseteq keeps'
  BY <1>1, <1>5, <1>9, <1>10, ReleaseKeeps
<1>12. \A x \in Rows : lock'[x] = None \/ lock'[x] \in keeps'
  BY <1>6, <1>11
<1> QED BY <1>1, <1>7, <1>11, <1>12 DEF IInv

-----------------------------------------------------------------------------
(* What follows                                                              *)

\* The invariant holds in every state.
THEOREM InvariantHolds == Spec => []IInv
<1>1. ASSUME IInv, Next PROVE IInv'
  BY <1>1, ArriveKeeps, AcquireKeeps, QueryKeeps, LockRowKeeps, EndKeeps, RefuseKeeps,
     QueryFailsKeeps, VictimKeeps, TimeoutKeeps DEF Next
<1>2. ASSUME IInv, UNCHANGED vars PROVE IInv'
  BY <1>2 DEF vars, IInv
<1> QED BY InitHolds, <1>1, <1>2, PTL DEF Spec

\* However a handler ends, its connections and row locks have been given back,
\* and no connection is free while somebody waits for one (commit, rollback and
\* the early returns of controllers/orderController.js).
THEOREM ConnectionsComeBack == Spec => []NothingLeaks
<1>1. IInv => NothingLeaks
  <2> SUFFICES ASSUME IInv PROVE NothingLeaks
    OBVIOUS
  <2>1. /\ Cardinality(keeps) \in Nat /\ Cardinality(uses) \in Nat /\ free \in Nat
        /\ free + Cardinality(keeps) + Cardinality(uses) = PoolMax
    BY FS_CardinalityType DEF IInv, Counted
  <2>2. free \in 0 .. PoolMax
    BY <2>1, MaxAssumption
  <2>3. TypeOK
    BY <2>2 DEF IInv, Typed, InLine, TypeOK
  <2>4. ASSUME NEW r \in keeps \cup uses PROVE Busy(r)
    <3>1. r \in Requests
      BY DEF IInv, Typed
    <3> QED BY <3>1, Whereabouts
  <2> QED BY <2>1, <2>3, <2>4 DEF IInv, NothingLeaks
<1> QED BY InvariantHolds, <1>1, PTL

\* The elements of C point to each other.
Circle(f, C) == C # {} /\ {f[s] : s \in C} = C

\* In a finite set where each element points to one of the set, some elements
\* point to each other around a circle.
LEMMA CircleExists ==
    ASSUME NEW S, IsFiniteSet(S), S # {}, NEW f, \A s \in S : f[s] \in S
    PROVE  \E C \in SUBSET S : Circle(f, C)
<1> DEFINE Closed == {T \in SUBSET S : T # {} /\ \A s \in T : f[s] \in T}
           Sizes == {Cardinality(T) : T \in Closed}
<1>1. \A T \in Closed : IsFiniteSet(T) /\ Cardinality(T) \in Nat
  BY FS_Subset, FS_CardinalityType
<1>2. S \in Closed
  OBVIOUS
<1>3. Sizes \subseteq Nat /\ Sizes # {}
  BY <1>1, <1>2
<1>4. PICK m \in Sizes : \A n \in Sizes : ~(<<n, m>> \in OpToRel(<, Nat))
  BY Zenon, <1>3, NatLessThanWellFounded, WFMin
<1>5. \A n \in Sizes : ~(n < m)
  BY Zenon, <1>3, <1>4 DEF OpToRel
<1>6. PICK T \in Closed : m = Cardinality(T)
  OBVIOUS
<1> DEFINE U == {f[s] : s \in T}
<1>7. U \in Closed /\ U \in SUBSET T
  OBVIOUS
<1>8. Cardinality(U) <= Cardinality(T) /\ (Cardinality(T) = Cardinality(U) => T = U)
  BY <1>1, <1>7, FS_Subset
<1>9. Cardinality(U) = Cardinality(T)
  <2>1. Cardinality(U) \in Sizes
    BY Zenon, <1>7
  <2>2. ~(Cardinality(U) < Cardinality(T))
    BY <1>5, <1>6, <2>1
  <2>3. Cardinality(U) \in Nat /\ Cardinality(T) \in Nat
    BY Zenon, <1>1, <1>7
  <2> HIDE DEF U
  <2> QED BY <1>8, <2>2, <2>3
<1>10. T \in SUBSET S /\ Circle(f, T)
  BY <1>8, <1>9 DEF Circle
<1> QED BY <1>10

\* When the pool has come to a stop, a createOrder is among those who hold a
\* connection and wait for another (Product.findAll and getOrder without the
\* transaction).
THEOREM OnlyCreateStalls == Spec => []StallNeedsCreate
<1>1. IInv => StallNeedsCreate
  <2> SUFFICES ASSUME IInv, line # <<>>,
                      \A r \in Requests : Busy(r) => Waiting(r) \/ Blocked(r),
                      ~ \E S \in (SUBSET Requests) \ {{}} :
                          (\A s \in S : Blocked(s)) /\ {lock[Now(s).row] : s \in S} = S,
                      ~ \E r \in keeps : Waiting(r) /\ kind[r] = "create"
               PROVE  FALSE
    BY DEF StallNeedsCreate
  <2>1. keeps \subseteq Requests /\ uses \subseteq Requests /\ IsFiniteSet(keeps)
    BY DEF IInv, Typed, Counted
  <2>2. uses = {}
    <3>1. ASSUME NEW r \in uses PROVE FALSE
      <4>1. Busy(r) /\ Now(r) = query /\ ~Waiting(r)
        BY <2>1, Whereabouts
      <4>2. ~Blocked(r)
        BY <4>1, OpsDiffer DEF Blocked
      <4> QED BY <2>1, <4>1, <4>2
    <3> QED BY <3>1
  <2>3. keeps # {}
    <3>1. free = 0 /\ free + Cardinality(keeps) + Cardinality(uses) = PoolMax
      BY DEF IInv, Counted
    <3>2. Cardinality({}) = 0
      BY FS_EmptySet
    <3>3. ASSUME keeps = {} PROVE FALSE
      <4>1. Cardinality(keeps) = 0 /\ Cardinality(uses) = 0
        BY <2>2, <3>2, <3>3
      <4> QED BY <3>1, <4>1, MaxAssumption
    <3> QED BY <3>3
  <2>4. ASSUME NEW r \in keeps
        PROVE  Blocked(r) /\ lock[Now(r).row] \in keeps
    <3>1. Busy(r) /\ todo[r] \in Seq(Ops) /\ Inside(todo[r], kind[r])
      BY <2>1, Whereabouts DEF Shape
    <3>2. Now(r) = end \/ Now(r) \in Locks \/ (kind[r] = "create" /\ Now(r) = query)
      BY <3>1, InsideHead DEF Now
    <3>3. ~Waiting(r)
      <4>1. Waiting(r) => Now(r) \in {query, begin}
        BY <2>1, Whereabouts
      <4> QED BY <3>2, <4>1, OpsDiffer
    <3>4. Blocked(r)
      BY <2>1, <3>1, <3>3
    <3>5. Now(r).do = "lock" /\ lock[Now(r).row] # None
      BY <3>4 DEF Blocked
    <3>6. Now(r) \in Locks
      BY <3>2, <3>5, OpsDiffer
    <3>7. Now(r).row \in Rows
      BY <3>6, OpsDiffer
    <3> QED BY <3>4, <3>5, <3>7 DEF IInv
  <2> DEFINE f == [s \in keeps |-> lock[Now(s).row]]
  <2>5. PICK C \in SUBSET keeps : Circle(f, C)
    <3>1. \A s \in keeps : f[s] \in keeps
      BY <2>4
    <3> HIDE DEF f
    <3> QED BY <2>1, <2>3, <3>1, CircleExists
  <2>6. {lock[Now(s).row] : s \in C} = C
    <3>1. \A s \in C : f[s] = lock[Now(s).row]
      OBVIOUS
    <3> HIDE DEF f
    <3>2. {f[s] : s \in C} = C
      BY <2>5 DEF Circle
    <3> QED BY <3>1, <3>2
  <2>7. C \in (SUBSET Requests) \ {{}} /\ \A s \in C : Blocked(s)
    BY <2>1, <2>4, <2>5 DEF Circle
  <2> QED BY <2>6, <2>7
<1> QED BY InvariantHolds, <1>1, PTL
=============================================================================
