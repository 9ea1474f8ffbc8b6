-------------------------- MODULE OrderStockProofs --------------------------
(***************************************************************************)
(* LocksCoverWrites, HeldWhileLive and StockAccounted of OrderStock, for   *)
(* any products, baskets, stock and number of concurrent requests.         *)
(*                                                                         *)
(* StockAccounted is about sums over the lines of an order and over the    *)
(* orders.  What it needs of them is proved here first, by induction on    *)
(* the size of a set: the induction is NatInd, which follows from every    *)
(* set of naturals having a least element.                                 *)
(***************************************************************************)
EXTENDS OrderStock, FiniteSetTheorems, WellFoundedInduction, TLAPS

\* What the order row is while a handler works on it: a create's order is not
\* there yet, and the row a delete or a restore read is still as it was read
\* unless another handler of the order came in between.
ReadsHold ==
    \A r \in Requests :
        /\ pc[r] = "idle" => op[r] = "create" /\ oid[r] = r /\ row[r] = "absent"
        /\ InFlight(r) =>
            /\ op[r] = "create" => oid[r] = r /\ row[r] = "absent"
            /\ op[r] # "create" => row[oid[r]] # "absent"
            /\ op[r] = "delete" /\ oid[r] \notin overlap => row[oid[r]] = "live"
            /\ op[r] = "restore" /\ oid[r] \notin overlap => row[oid[r]] = "deleted"

\* Two handlers on one order are recorded.
OverlapSeen ==
    \A q, r \in Requests :
        q # r /\ InFlight(q) /\ InFlight(r) /\ oid[q] = oid[r] => oid[r] \in overlap

OrdersOK == ReadsHold /\ OverlapSeen /\ HeldWhileLive

\* Units of product p on the lines the loop of request r has done.
Moved(r, p) == SumFunctionOnSet(Units(oid[r], p), 1 .. next[r] - 1)

\* The change of an open transaction is what its loop has done so far, of the
\* lines of one order that nothing else writes, and it is all of them once the
\* loop is over; outside a transaction nothing is pending.
LoopAt(r) ==
    /\ pc[r] = "idle" => next[r] = 1
    /\ InFlight(r) => next[r] <= Len(items[oid[r]]) + 1
    /\ pc[r] = "commit" \/ (pc[r] = "row" /\ op[r] = "delete") =>
           next[r] = Len(items[oid[r]]) + 1
    /\ \A p \in Products :
           pend[r][p] = IF ~InFlight(r) THEN 0
                        ELSE IF op[r] = "delete" THEN Moved(r, p) ELSE 0 - Moved(r, p)

LoopOK == \A r \in Requests : LoopAt(r)

\* Finitely many orders have a row, and one that has none holds nothing.
PlacedOK == IsFiniteSet(Placed) /\ \A o \in Orders : row[o] = "absent" => held[o] = 0

LedgerOK == LoopOK /\ PlacedOK /\ StockAccounted

IInv == TypeOK /\ LocksCoverWrites /\ OrdersOK /\ LedgerOK

-----------------------------------------------------------------------------
(* Sums over finite sets.                                                    *)

\* SumFunctionOnSet takes the elements of a set one at a time, in an order
\* fixed by CHOOSE; it is the function on the subsets of the set, D, that
\* satisfies this equation.
Pick(s) == CHOOSE x \in s : TRUE
Iter(f, D, it) ==
    it = [s \in D |-> IF s = {} THEN 0 ELSE f[Pick(s)] + it[s \ {Pick(s)}]]

\* The sum by its definition.
LEMMA Unfold ==
    ASSUME NEW f, NEW S
    PROVE  SumFunctionOnSet(f, S) = (CHOOSE it : Iter(f, SUBSET S, it))[S]
  BY DEF SumFunctionOnSet, FoldFunctionOnSet, MapThenFoldSet, Iter, Pick

\* Induction over the naturals, for a set: what is not in it has no least element.
LEMMA NatInd ==
    ASSUME NEW G, 0 \in G, \A n \in Nat : n \in G => n + 1 \in G
    PROVE  Nat \subseteq G
<1> DEFINE B == Nat \ G
<1> SUFFICES ASSUME B # {} PROVE FALSE
  OBVIOUS
<1>1. B \subseteq Nat
  OBVIOUS
<1>4. PICK m \in B : \A n \in B : ~(<<n, m>> \in OpToRel(<, Nat))
  BY Zenon, <1>1, NatLessThanWellFounded, WFMin
<1>5. \A n \in B : ~(n < m)
  BY Zenon, <1>4 DEF OpToRel
<1>6. m # 0 /\ m - 1 \in Nat /\ m - 1 < m /\ m = (m - 1) + 1
  BY <1>1
<1>7. m - 1 \in B
  BY <1>6
<1> QED
  BY <1>5, <1>6, <1>7

\* The subsets of S with at most n elements.
UpTo(S, n) == {s \in SUBSET S : Cardinality(s) <= n}

\* Taking an element out of a finite set leaves one less.
LEMMA PickFacts ==
    ASSUME NEW S, IsFiniteSet(S), NEW s \in SUBSET S, s # {}
    PROVE  /\ Pick(s) \in s /\ s \ {Pick(s)} \in SUBSET S
           /\ Cardinality(s) \in Nat \ {0}
           /\ Cardinality(s \ {Pick(s)}) = Cardinality(s) - 1
<1>1. Pick(s) \in s
  BY DEF Pick
<1>2. IsFiniteSet(s)
  BY FS_Subset
<1>3. Cardinality(s) \in Nat /\ Cardinality(s) # 0
  BY <1>2, FS_CardinalityType, FS_EmptySet
<1>4. Cardinality(s \ {Pick(s)}) = Cardinality(s) - 1
  BY Zenon, <1>1, <1>2, FS_RemoveElement
<1> QED
  BY <1>1, <1>3, <1>4

\* There is such a function: each size of subset extends the one below it.
LEMMA IterExists ==
    ASSUME NEW S, IsFiniteSet(S), NEW f
    PROVE  \E it : Iter(f, SUBSET S, it)
<1> DEFINE G == {n \in Nat : \E it : Iter(f, UpTo(S, n), it)}
<1>1. 0 \in G
  <2> DEFINE it == [s \in UpTo(S, 0) |-> 0]
  <2>1. \A s \in UpTo(S, 0) : s = {}
    <3> SUFFICES ASSUME NEW s \in UpTo(S, 0), s # {} PROVE FALSE
      OBVIOUS
    <3>1. Cardinality(s) <= 0 /\ s \in SUBSET S
      BY DEF UpTo
    <3>2. Cardinality(s) \in Nat \ {0}
      BY Zenon, <3>1, PickFacts
    <3> QED
      BY <3>1, <3>2
  <2>2. Iter(f, UpTo(S, 0), it)
    BY <2>1 DEF Iter
  <2> QED
    BY <2>2
<1>2. ASSUME NEW n \in Nat, n \in G PROVE n + 1 \in G
  <2>1. PICK g : Iter(f, UpTo(S, n), g)
    BY <1>2
  <2> DEFINE h == [s \in UpTo(S, n + 1) |-> IF s = {} THEN 0 ELSE f[Pick(s)] + g[s \ {Pick(s)}]]
  <2>2. \A s \in UpTo(S, n) : h[s] = g[s] /\ s \in UpTo(S, n + 1)
    <3> SUFFICES ASSUME NEW s \in UpTo(S, n) PROVE h[s] = g[s] /\ s \in UpTo(S, n + 1)
      OBVIOUS
    <3>1. Cardinality(s) <= n /\ s \in SUBSET S /\ Cardinality(s) \in Nat
      BY FS_Subset, FS_CardinalityType DEF UpTo
    <3>2. s \in UpTo(S, n + 1)
      BY <3>1 DEF UpTo
    <3> QED
      BY Zenon, <2>1, <3>2 DEF Iter
  <2>3. \A s \in UpTo(S, n + 1) : s # {} => s \ {Pick(s)} \in UpTo(S, n)
    <3> SUFFICES ASSUME NEW s \in UpTo(S, n + 1), s # {} PROVE s \ {Pick(s)} \in UpTo(S, n)
      OBVIOUS
    <3>1. Cardinality(s) <= n + 1 /\ s \in SUBSET S
      BY DEF UpTo
    <3>2. /\ s \ {Pick(s)} \in SUBSET S
          /\ Cardinality(s) \in Nat \ {0}
          /\ Cardinality(s \ {Pick(s)}) = Cardinality(s) - 1
      BY <3>1, PickFacts
    <3> QED
      BY <3>1, <3>2 DEF UpTo
  <2>4. Iter(f, UpTo(S, n + 1), h)
    <3>1. \A s \in UpTo(S, n + 1) : s # {} => h[s \ {Pick(s)}] = g[s \ {Pick(s)}]
      BY Zenon, <2>2, <2>3
    <3>2. h = [s \in UpTo(S, n + 1) |-> IF s = {} THEN 0 ELSE f[Pick(s)] + h[s \ {Pick(s)}]]
      BY Zenon, <3>1
    <3> QED
      BY Zenon, <3>2 DEF Iter
  <2> QED
    BY <2>4
<1> HIDE DEF G
<1>3. Nat \subseteq G
  BY <1>1, <1>2, NatInd
<1>4. Cardinality(S) \in G
  BY <1>3, FS_CardinalityType
<1>5. UpTo(S, Cardinality(S)) = SUBSET S
  BY FS_Subset DEF UpTo
<1> QED
  BY Zenon, <1>4, <1>5 DEF G

\* What it returns.
LEMMA IterFacts ==
    ASSUME NEW S, NEW f, NEW it, Iter(f, SUBSET S, it)
    PROVE  /\ it[{}] = 0
           /\ \A s \in SUBSET S : s # {} => it[s] = f[Pick(s)] + it[s \ {Pick(s)}]
<1>1. it = [s \in SUBSET S |-> IF s = {} THEN 0 ELSE f[Pick(s)] + it[s \ {Pick(s)}]]
  BY Zenon DEF Iter
<1> QED
  BY ONLY <1>1, Zenon

\* it is the function of the sums over the subsets of a finite S.
IterOK(f, S, it) == IsFiniteSet(S) /\ Iter(f, SUBSET S, it)

\* The sum over T is the same whether it is reached from S or from T itself.
LEMMA IterAgree ==
    ASSUME NEW f, NEW S, NEW it, IterOK(f, S, it),
           NEW T \in SUBSET S, NEW jt, IterOK(f, T, jt)
    PROVE  it[T] = jt[T]
<1> DEFINE G == {n \in Nat : \A s \in SUBSET T : Cardinality(s) = n => it[s] = jt[s]}
<1>0. IsFiniteSet(T) /\ Iter(f, SUBSET S, it) /\ Iter(f, SUBSET T, jt)
  BY DEF IterOK
<1>a. it[{}] = 0 /\ \A s \in SUBSET S : s # {} => it[s] = f[Pick(s)] + it[s \ {Pick(s)}]
  <2> HIDE DEF G
  <2>1. Iter(f, SUBSET S, it)
    BY <1>0
  <2>2. it[{}] = 0
    BY <2>1, IterFacts
  <2>3. ASSUME NEW s \in SUBSET S, s # {} PROVE it[s] = f[Pick(s)] + it[s \ {Pick(s)}]
    BY <2>1, <2>3, IterFacts
  <2> QED
    BY <2>2, <2>3
<1>b. jt[{}] = 0 /\ \A s \in SUBSET T : s # {} => jt[s] = f[Pick(s)] + jt[s \ {Pick(s)}]
  <2> HIDE DEF G
  <2>1. Iter(f, SUBSET T, jt)
    BY <1>0
  <2>2. jt[{}] = 0
    BY Zenon, <2>1, IterFacts
  <2>3. ASSUME NEW s \in SUBSET T, s # {} PROVE jt[s] = f[Pick(s)] + jt[s \ {Pick(s)}]
    BY <2>1, <2>3, IterFacts
  <2> QED
    BY <2>2, <2>3
<1>2. \A s \in SUBSET T : s # {} => /\ Pick(s) \in s /\ s \ {Pick(s)} \in SUBSET T
           /\ Cardinality(s) \in Nat \ {0}
           /\ Cardinality(s \ {Pick(s)}) = Cardinality(s) - 1
  BY <1>0, PickFacts
<1>3. 0 \in G
  <2>1. ASSUME NEW s \in SUBSET T, Cardinality(s) = 0 PROVE it[s] = jt[s]
    <3>1. s = {}
      BY Zenon, <1>2, <2>1
    <3> QED
      BY <1>a, <1>b, <3>1
  <2> QED
    BY <2>1
<1>4. ASSUME NEW n \in Nat, n \in G PROVE n + 1 \in G
  <2>1. ASSUME NEW s \in SUBSET T, Cardinality(s) = n + 1 PROVE it[s] = jt[s]
    <3>1. CASE s = {}
      BY <1>a, <1>b, <3>1
    <3>2. CASE s # {}
      <4>1. /\ Pick(s) \in T /\ s \ {Pick(s)} \in SUBSET T
            /\ Cardinality(s \ {Pick(s)}) = n
        BY <1>2, <2>1, <3>2
      <4>2. it[s \ {Pick(s)}] = jt[s \ {Pick(s)}]
        BY <1>4, <4>1
      <4>3. it[s] = f[Pick(s)] + it[s \ {Pick(s)}] /\ jt[s] = f[Pick(s)] + jt[s \ {Pick(s)}]
        BY <1>a, <1>b, <3>2
      <4> QED
        BY <4>2, <4>3
    <3> QED
      BY <3>1, <3>2
  <2> QED
    BY <2>1
<1> HIDE DEF G
<1>5. Cardinality(T) \in G
  BY <1>0, <1>3, <1>4, NatInd, FS_CardinalityType
<1> QED
  BY <1>5 DEF G

\* The recursive equation of the sum.
LEMMA SumEq ==
    ASSUME NEW f, NEW S, IsFiniteSet(S)
    PROVE  /\ SumFunctionOnSet(f, {}) = 0
           /\ S # {} => SumFunctionOnSet(f, S) = f[Pick(S)] + SumFunctionOnSet(f, S \ {Pick(S)})
<1> DEFINE It(T) == CHOOSE it : Iter(f, SUBSET T, it)
<1>1. ASSUME NEW T \in SUBSET S
      PROVE  IterOK(f, T, It(T)) /\ SumFunctionOnSet(f, T) = It(T)[T]
  <2>1. IsFiniteSet(T)
    BY FS_Subset
  <2>2. \E it : Iter(f, SUBSET T, it)
    BY <2>1, IterExists
  <2>3. SumFunctionOnSet(f, T) = It(T)[T]
    BY Unfold
  <2> QED
    BY Zenon, <2>1, <2>2, <2>3 DEF IterOK
<1> HIDE DEF It
<1>2. SumFunctionOnSet(f, {}) = 0
  <2>1. Iter(f, SUBSET {}, It({})) /\ SumFunctionOnSet(f, {}) = It({})[{}]
    BY <1>1 DEF IterOK
  <2>2. It({})[{}] = 0
    BY ONLY <2>1, IterFacts
  <2> QED
    BY <2>1, <2>2
<1>3. ASSUME S # {} PROVE SumFunctionOnSet(f, S) = f[Pick(S)] + SumFunctionOnSet(f, S \ {Pick(S)})
  <2> DEFINE T == S \ {Pick(S)}
             it == It(S)
             jt == It(T)
  <2>1. T \in SUBSET S
    OBVIOUS
  <2>2. IterOK(f, S, it) /\ SumFunctionOnSet(f, S) = it[S]
    BY <1>1
  <2>3. IterOK(f, T, jt) /\ SumFunctionOnSet(f, T) = jt[T]
    BY <1>1, <2>1
  <2>4. Iter(f, SUBSET S, it)
    BY <2>2 DEF IterOK
  <2> HIDE DEF it, jt
  <2>5. it[S] = f[Pick(S)] + it[T]
    BY <1>3, <2>4, IterFacts
  <2> HIDE DEF T
  <2>6. it[T] = jt[T]
    BY <2>1, <2>2, <2>3, IterAgree
  <2>7. SumFunctionOnSet(f, S) = f[Pick(S)] + SumFunctionOnSet(f, T)
    BY <2>2, <2>3, <2>5, <2>6
  <2> QED
    BY <2>7 DEF T
<1> QED
  BY <1>2, <1>3

\* Abbreviations: the sum, an integer at every element, two functions that agree.
Sum(f, S) == SumFunctionOnSet(f, S)
IntOn(f, S) == IsFiniteSet(S) /\ \A x \in S : f[x] \in Int
Same(f, g, S) == IsFiniteSet(S) /\ \A x \in S : f[x] = g[x]

\* Functions that agree on a set have the same sum over it.
LEMMA SumSame ==
    ASSUME NEW f, NEW g, NEW S, Same(f, g, S)
    PROVE  Sum(f, S) = Sum(g, S)
<1> DEFINE G == {n \in Nat : \A s \in SUBSET S : Cardinality(s) = n => Sum(f, s) = Sum(g, s)}
<1>0. IsFiniteSet(S) /\ \A x \in S : f[x] = g[x]
  BY DEF Same
<1>1. \A s \in SUBSET S : s # {} => /\ Pick(s) \in s /\ s \ {Pick(s)} \in SUBSET S
           /\ Cardinality(s) \in Nat \ {0}
           /\ Cardinality(s \ {Pick(s)}) = Cardinality(s) - 1
  BY <1>0, PickFacts
<1>2. ASSUME NEW s \in SUBSET S
      PROVE  /\ s = {} => Sum(f, s) = Sum(g, s)
             /\ s # {} => /\ Sum(f, s) = f[Pick(s)] + Sum(f, s \ {Pick(s)})
                          /\ Sum(g, s) = f[Pick(s)] + Sum(g, s \ {Pick(s)})
  <2>1. IsFiniteSet(s)
    BY <1>0, FS_Subset
  <2>2. Sum(f, {}) = 0 /\ (s # {} => Sum(f, s) = f[Pick(s)] + Sum(f, s \ {Pick(s)}))
    BY <2>1, SumEq DEF Sum
  <2>3. Sum(g, {}) = 0 /\ (s # {} => Sum(g, s) = g[Pick(s)] + Sum(g, s \ {Pick(s)}))
    BY <2>1, SumEq DEF Sum
  <2> QED
    BY Zenon, <1>0, <1>1, <2>2, <2>3
<1>3. 0 \in G
  BY Zenon, <1>1, <1>2
<1>4. ASSUME NEW n \in Nat, n \in G PROVE n + 1 \in G
  <2>1. ASSUME NEW s \in SUBSET S, Cardinality(s) = n + 1 PROVE Sum(f, s) = Sum(g, s)
    <3>1. CASE s = {}
      BY <1>2, <3>1
    <3>2. CASE s # {}
      <4>1. s \ {Pick(s)} \in SUBSET S /\ Cardinality(s \ {Pick(s)}) = n
        BY <1>1, <2>1, <3>2
      <4>2. Sum(f, s \ {Pick(s)}) = Sum(g, s \ {Pick(s)})
        BY <1>4, <4>1
      <4> QED
        BY <1>2, <3>2, <4>2
    <3> QED
      BY <3>1, <3>2
  <2> QED
    BY <2>1
<1> HIDE DEF G
<1>5. Cardinality(S) \in G
  BY <1>0, <1>3, <1>4, NatInd, FS_CardinalityType
<1> QED
  BY <1>5 DEF G

\* The sum is an integer, and any element may be the one added last.
SumGood(f, s) == Sum(f, s) \in Int /\ \A x \in s : Sum(f, s) = f[x] + Sum(f, s \ {x})

\* A sum does not depend on the order of its terms.
LEMMA SumAny ==
    ASSUME NEW f, NEW S, IntOn(f, S)
    PROVE  SumGood(f, S)
<1> DEFINE G == {n \in Nat : \A s \in SUBSET S : Cardinality(s) <= n => SumGood(f, s)}
<1>0. IsFiniteSet(S) /\ \A x \in S : f[x] \in Int
  BY DEF IntOn
<1>1. \A s \in SUBSET S : IsFiniteSet(s) /\ Cardinality(s) \in Nat
  BY <1>0, FS_Subset, FS_CardinalityType
<1>2. ASSUME NEW s \in SUBSET S, NEW x \in s
      PROVE  /\ s \ {x} \in SUBSET S
             /\ Cardinality(s) \in Nat \ {0}
             /\ Cardinality(s \ {x}) = Cardinality(s) - 1
  <2>1. IsFiniteSet(s) /\ Cardinality(s) \in Nat
    BY <1>1
  <2>2. Cardinality(s \ {x}) = Cardinality(s) - 1
    BY Zenon, <2>1, FS_RemoveElement
  <2>3. Cardinality(s) # 0
    BY <2>1, FS_EmptySet
  <2> QED
    BY <2>1, <2>2, <2>3
<1>3. SumGood(f, {})
  <2>1. IsFiniteSet({})
    BY FS_EmptySet
  <2>2. Sum(f, {}) = 0
    BY Zenon, <2>1, SumEq DEF Sum
  <2> QED
    BY <2>2 DEF SumGood
<1>4. 0 \in G
  <2>1. ASSUME NEW s \in SUBSET S, Cardinality(s) <= 0 PROVE s = {}
    <3> SUFFICES ASSUME NEW x \in s PROVE FALSE
      OBVIOUS
    <3>1. Cardinality(s) \in Nat \ {0}
      BY Zenon, <1>2
    <3> QED
      BY <2>1, <3>1
  <2> QED
    BY <1>3, <2>1
<1>5. ASSUME NEW n \in Nat, n \in G PROVE n + 1 \in G
  <2>0. \A s \in SUBSET S : Cardinality(s) <= n => SumGood(f, s)
    BY <1>5
  <2>1. ASSUME NEW s \in SUBSET S, Cardinality(s) <= n + 1, s # {} PROVE SumGood(f, s)
    <3>1. PICK y \in s : Sum(f, s) = f[y] + Sum(f, s \ {y})
      <4>1. Pick(s) \in s
        BY <2>1 DEF Pick
      <4>2. IsFiniteSet(s)
        BY <1>1
      <4> QED
        BY <2>1, <4>1, <4>2, SumEq DEF Sum
    <3>2. \A x \in s : s \ {x} \in SUBSET S /\ SumGood(f, s \ {x}) /\ f[x] \in Int
      <4> SUFFICES ASSUME NEW x \in s
                   PROVE  s \ {x} \in SUBSET S /\ SumGood(f, s \ {x}) /\ f[x] \in Int
        OBVIOUS
      <4>1. /\ s \ {x} \in SUBSET S
            /\ Cardinality(s) \in Nat \ {0}
            /\ Cardinality(s \ {x}) = Cardinality(s) - 1
        BY <1>2
      <4>2. Cardinality(s \ {x}) <= n
        BY <2>1, <4>1
      <4> QED
        BY <1>0, <2>0, <4>1, <4>2
    <3>3. ASSUME NEW x \in s, x # y PROVE Sum(f, s) = f[x] + Sum(f, s \ {x})
      <4> DEFINE u == s \ {x}
                 t == s \ {y}
                 w == t \ {x}
      <4>1. x \in t /\ y \in u /\ w = u \ {y} /\ w \in SUBSET S
        BY <3>3
      <4>2. Sum(f, t) = f[x] + Sum(f, w) /\ Sum(f, t) \in Int
        BY <3>2, <4>1 DEF SumGood
      <4>3. Sum(f, u) = f[y] + Sum(f, w)
        BY <3>2, <4>1 DEF SumGood
      <4>4. Sum(f, w) \in Int /\ f[x] \in Int /\ f[y] \in Int
        <5>1. Cardinality(t) = Cardinality(s) - 1 /\ Cardinality(s) \in Nat /\ t \in SUBSET S
          BY <1>2
        <5>2. Cardinality(w) = Cardinality(t) - 1
          BY <1>2, <4>1, <5>1
        <5>3. SumGood(f, w)
          BY <2>0, <2>1, <4>1, <5>1, <5>2
        <5> QED
          BY Zenon, <3>2, <5>3 DEF SumGood
      <4>5. Sum(f, s) = f[y] + Sum(f, t)
        BY <3>1
      <4> HIDE DEF u, t, w
      <4>6. Sum(f, s) = f[x] + Sum(f, u)
        BY <4>2, <4>3, <4>4, <4>5
      <4> QED
        BY <4>6 DEF u
    <3>4. Sum(f, s) \in Int
      BY <3>1, <3>2 DEF SumGood
    <3> QED
      BY <3>1, <3>3, <3>4 DEF SumGood
  <2> QED
    BY <1>3, <2>1
<1> HIDE DEF G
<1>6. Cardinality(S) \in G
  BY <1>1, <1>4, <1>5, NatInd
<1>7. Cardinality(S) \in Nat
  BY <1>1
<1> QED
  BY <1>6, <1>7 DEF G

\* Changing one term, or adding it, changes the sum by as much.
LEMMA SumChange ==
    ASSUME NEW f, NEW g, NEW S, NEW o, IntOn(f, S \cup {o}), IntOn(g, S \cup {o}),
           \A x \in S \ {o} : f[x] = g[x], o \notin S => f[o] = 0
    PROVE  SumFunctionOnSet(g, S \cup {o}) = SumFunctionOnSet(f, S) + g[o] - f[o]
<1> DEFINE U == S \cup {o}
           T == S \ {o}
<1>1. IsFiniteSet(U) /\ f[o] \in Int /\ g[o] \in Int /\ T = U \ {o} /\ IntOn(f, T)
  <2>1. IsFiniteSet(U) /\ f[o] \in Int /\ g[o] \in Int /\ T = U \ {o}
    BY DEF IntOn
  <2>2. IsFiniteSet(T)
    BY <2>1, FS_Subset
  <2> QED
    BY <2>1, <2>2 DEF IntOn
<1>2. Sum(g, U) = g[o] + Sum(g, T) /\ Sum(f, U) = f[o] + Sum(f, T)
  <2>1. SumGood(g, U) /\ SumGood(f, U)
    BY SumAny
  <2> QED
    BY <1>1, <2>1 DEF SumGood
<1>3. Sum(g, T) = Sum(f, T)
  <2>1. Same(g, f, T)
    BY <1>1 DEF Same, IntOn
  <2> QED
    BY <2>1, SumSame
<1>4. Sum(f, T) \in Int
  BY <1>1, SumAny DEF SumGood
<1>5. Sum(f, S) = f[o] + Sum(f, T)
  <2>1. CASE o \in S
    <3>1. U = S
      BY <2>1
    <3> QED
      BY <1>2, <3>1
  <2>2. CASE o \notin S
    <3>1. T = S /\ f[o] = 0
      BY <2>2
    <3> HIDE DEF T
    <3> QED
      BY <1>4, <3>1
  <2> QED
    BY <2>1, <2>2
<1>6. Sum(g, U) = Sum(f, S) + g[o] - f[o]
  <2> HIDE DEF U, T
  <2> QED
    BY <1>1, <1>2, <1>3, <1>4, <1>5
<1> QED
  BY <1>6 DEF Sum
-----------------------------------------------------------------------------
\* The line a loop is at is a line of the order.
LEMMA LineFacts ==
    ASSUME TypeOK, NEW r \in Requests, LinesLeft(r)
    PROVE  Line(r).product \in Products /\ Line(r).quantity \in Int /\ Change(r) \in Int
<1>1. next[r] \in 1 .. Len(items[oid[r]])
  BY DEF TypeOK, LinesLeft
<1>2. Line(r) \in [product : Products, quantity : Int]
  <2>1. items[oid[r]] \in Seq([product : Products, quantity : Int])
    BY ZenonT(30) DEF TypeOK
  <2>2. \A S : \A s \in Seq(S) : \A i \in 1 .. Len(s) : s[i] \in S
    OBVIOUS
  <2>3. items[oid[r]][next[r]] \in [product : Products, quantity : Int]
    BY ONLY <1>1, <2>1, <2>2, Zenon
  <2>4. QED
    BY <2>3 DEF Line
<1>3. QED
  BY <1>2 DEF Change

\* Every statement keeps every variable in its type.
LEMMA TypeStep == TypeOK /\ [Next]_vars => TypeOK'
<1> SUFFICES ASSUME TypeOK, [Next]_vars PROVE TypeOK'
  OBVIOUS
<1> USE DEF rows, handlers
<1>1. ASSUME NEW r \in Requests, NEW b \in Baskets, StartCreate(r, b)
      PROVE  TypeOK'
  BY ZenonT(30), <1>1, BasketAssumption DEF TypeOK, StartCreate, Working, Orders
<1>2. ASSUME NEW r \in Requests, NEW o \in Orders, StartDelete(r, o) \/ StartRestore(r, o)
      PROVE  TypeOK'
  <2>1. PICK what \in {"delete", "restore"}, accepted \in BOOLEAN, first \in Working :
            StartOn(r, o, what, accepted, first)
    BY ZenonT(30), <1>2 DEF StartDelete, StartRestore, Working
  <2>2. QED
    BY ZenonT(30), <2>1 DEF TypeOK, StartOn
<1>3. ASSUME NEW r \in Requests, Work(r)
      PROVE  TypeOK'
  <2>1. CASE WriteOrder(r)
    BY ZenonT(30), <2>1 DEF TypeOK, WriteOrder, Working, Rows
  <2>2. CASE MoveStock(r)
    <3>1. Line(r).product \in Products /\ Change(r) \in Int
      BY <2>2, LineFacts DEF MoveStock
    <3>2. pend' \in [Requests -> [Products -> Int]]
      <4>1. pend[r] \in [Products -> Int]
        BY DEF TypeOK
      <4>2. [pend[r] EXCEPT ![Line(r).product] = @ + Change(r)] \in [Products -> Int]
        BY <3>1, <4>1
      <4>3. pend' = [pend EXCEPT ![r] = [pend[r] EXCEPT ![Line(r).product] = @ + Change(r)]]
        BY <2>2 DEF MoveStock, TypeOK
      <4>4. QED
        BY <4>2, <4>3 DEF TypeOK
    <3>3. lock' \in [Rows -> Requests \cup {Nobody}]
      BY <2>2, <3>1 DEF TypeOK, MoveStock, Rows
    <3>4. next' \in [Requests -> Nat \ {0}]
      BY <2>2 DEF TypeOK, MoveStock
    <3>5. QED
      BY ZenonT(30), <2>2, <3>2, <3>3, <3>4 DEF TypeOK, MoveStock
  <2>3. CASE EndLoop(r)
    BY ZenonT(30), <2>3 DEF TypeOK, EndLoop, Working
  <2>4. CASE Commit(r)
    <3>1. NewStatus(r) \in Statuses
      BY DEF TypeOK, NewStatus, Statuses
    <3>2. lock' \in [Rows -> Requests \cup {Nobody}]
      BY <2>4 DEF TypeOK, Commit, Unlock
    <3>3. stock' \in [Products -> Int] /\ pend' \in [Requests -> [Products -> Int]]
      BY <2>4 DEF TypeOK, Commit, NoChange
    <3>4. /\ row' \in [Orders -> {"absent", "live", "deleted"}]
          /\ status' \in [Orders -> Statuses]
          /\ held' \in [Orders -> Int]
      BY <2>4, <3>1 DEF TypeOK, Commit
    <3>5. pc' \in [Requests -> Working \cup {"idle", "refused", "done"}]
      BY <2>4 DEF TypeOK, Commit
    <3>6. QED
      BY ZenonT(30), <2>4, <3>2, <3>3, <3>4, <3>5 DEF TypeOK, Commit
  <2>5. QED
    BY <1>3, <2>1, <2>2, <2>3, <2>4 DEF Work
<1>4. ASSUME NEW r \in Requests, Fail(r) \/ DeadlockAbort(r)
      PROVE  TypeOK'
  <2>1. Rollback(r)
    BY <1>4 DEF Fail, DeadlockAbort
  <2>2. pend' \in [Requests -> [Products -> Int]]
    BY <2>1 DEF TypeOK, Rollback, NoChange
  <2>3. lock' \in [Rows -> Requests \cup {Nobody}]
    BY <2>1 DEF TypeOK, Rollback, Unlock
  <2>4. QED
    BY ZenonT(30), <2>1, <2>2, <2>3 DEF TypeOK, Rollback
<1>5. ASSUME NEW o \in Orders, NEW s \in StatusWrites, WriteStatus(o, s)
      PROVE  TypeOK'
  BY ZenonT(30), <1>5, StatusAssumption DEF TypeOK, WriteStatus
<1>6. ASSUME NEW p \in Products, ListProduct(p)
      PROVE  TypeOK'
  BY ZenonT(30), <1>6 DEF TypeOK, ListProduct
<1>7. CASE UNCHANGED vars
  BY ZenonT(30), <1>7 DEF TypeOK, vars
<1>8. QED
  BY <1>1, <1>2, <1>3, <1>4, <1>5, <1>6, <1>7 DEF Next

\* A row lock is taken before the change it covers and released with it.
LEMMA LocksStep == TypeOK /\ LocksCoverWrites /\ [Next]_vars => LocksCoverWrites'
<1> SUFFICES ASSUME TypeOK, LocksCoverWrites, [Next]_vars PROVE LocksCoverWrites'
  OBVIOUS
<1> USE DEF rows, handlers, LocksCoverWrites, InFlight
<1>0. Nobody \notin Requests /\ Products \subseteq Rows /\ Orders \subseteq Rows
  BY IdAssumption DEF Rows, Orders
<1>1. ASSUME NEW r \in Requests, NEW b \in Baskets, StartCreate(r, b)
      PROVE  LocksCoverWrites'
  BY <1>1 DEF TypeOK, StartCreate, Working
<1>2. ASSUME NEW r \in Requests, NEW o \in Orders, StartDelete(r, o) \/ StartRestore(r, o)
      PROVE  LocksCoverWrites'
  <2>1. /\ pc[r] = "idle"
        /\ pc' = [pc EXCEPT ![r] = pc'[r]]
        /\ lock' = lock /\ pend' = pend
    BY <1>2 DEF TypeOK, StartDelete, StartRestore, StartOn
  <2>2. QED
    BY ZenonT(30), <2>1 DEF TypeOK, Working
<1>3. ASSUME NEW r \in Requests, Work(r)
      PROVE  LocksCoverWrites'
  <2>1. CASE WriteOrder(r)
    BY <1>0, <2>1, IdAssumption DEF TypeOK, WriteOrder, Working, CanLock
  <2>2. CASE MoveStock(r)
    <3>1. PICK p \in Products :
             /\ Line(r).product = p
             /\ lock[p] \in {Nobody, r}
             /\ lock' = [lock EXCEPT ![p] = r]
             /\ pend' = [pend EXCEPT ![r][p] = @ + Change(r)]
             /\ pc' = pc
      BY ZenonT(30), <2>2, LineFacts DEF MoveStock, CanLock
    <3>2. \A q \in Requests, x \in Products :
             (q # r \/ x # p) => pend'[q][x] = pend[q][x]
      BY <3>1 DEF TypeOK
    <3>3. \A x \in Rows : lock'[x] = IF x = p THEN r ELSE lock[x]
      BY <1>0, <3>1 DEF TypeOK
    <3>4. InFlight(r)
      BY <2>2 DEF MoveStock, Working
    <3>5. \A x \in Rows : lock'[x] # Nobody => InFlight(lock[x])'
      BY <3>1, <3>3, <3>4
    <3>6. ASSUME NEW q \in Requests, NEW x \in Products, pend'[q][x] # 0
          PROVE  lock'[x] = q
      <4>1. CASE q = r /\ x = p
        BY <1>0, <3>3, <4>1
      <4>2. CASE q # r \/ x # p
        <5>1. lock[x] = q
          BY <3>2, <3>6, <4>2
        <5>2. QED
          BY <1>0, <3>1, <3>3, <4>2, <5>1
      <4>3. QED
        BY <4>1, <4>2
    <3>7. QED
      BY <3>5, <3>6
  <2>3. CASE EndLoop(r)
    BY <2>3 DEF TypeOK, EndLoop, Working
  <2>4. CASE Commit(r)
    <3>1. lock' = Unlock(r) /\ pend' = [pend EXCEPT ![r] = NoChange]
          /\ pc' = [pc EXCEPT ![r] = "done"]
      BY <2>4 DEF Commit
    <3>2. QED
      BY <1>0, <3>1 DEF TypeOK, Unlock, NoChange
  <2>5. QED
    BY <1>3, <2>1, <2>2, <2>3, <2>4 DEF Work
<1>4. ASSUME NEW r \in Requests, Fail(r) \/ DeadlockAbort(r)
      PROVE  LocksCoverWrites'
  <2>1. lock' = Unlock(r) /\ pend' = [pend EXCEPT ![r] = NoChange]
        /\ pc' = [pc EXCEPT ![r] = "refused"]
    BY <1>4 DEF Fail, DeadlockAbort, Rollback
  <2>2. QED
    BY <1>0, <2>1 DEF TypeOK, Unlock, NoChange
<1>5. ASSUME NEW o \in Orders, NEW s \in StatusWrites, WriteStatus(o, s)
      PROVE  LocksCoverWrites'
  BY <1>5 DEF WriteStatus
<1>6. ASSUME NEW p \in Products, ListProduct(p)
      PROVE  LocksCoverWrites'
  BY <1>6 DEF ListProduct
<1>7. CASE UNCHANGED vars
  BY <1>7 DEF vars
<1>8. QED
  BY <1>1, <1>2, <1>3, <1>4, <1>5, <1>6, <1>7 DEF Next

\* A step that starts no handler and commits none leaves the orders as they are.
LEMMA QuietStep ==
    ASSUME TypeOK, OrdersOK,
           UNCHANGED <<row, op, oid, held, overlap>>,
           \A q \in Requests : /\ pc'[q] = "idle" => pc[q] = "idle"
                               /\ InFlight(q)' => InFlight(q)
    PROVE  OrdersOK'
<1>1. ReadsHold'
  BY DEF OrdersOK, ReadsHold
<1>2. OverlapSeen'
  BY DEF OrdersOK, OverlapSeen
<1>3. HeldWhileLive'
  BY DEF OrdersOK, HeldWhileLive
<1>4. QED
  BY <1>1, <1>2, <1>3 DEF OrdersOK

\* createOrder works on an order no other handler can have found.
LEMMA StartCreateStep ==
    ASSUME TypeOK, OrdersOK, NEW r \in Requests, NEW b \in Baskets, StartCreate(r, b)
    PROVE  OrdersOK'
<1>1. /\ pc[r] = "idle" /\ pc' = [pc EXCEPT ![r] = pc'[r]]
      /\ pc'[r] \in {"row", "refused"}
      /\ UNCHANGED <<row, op, oid, held, overlap>>
  BY DEF StartCreate, TypeOK
<1>2. op[r] = "create" /\ oid[r] = r /\ row[r] = "absent"
  BY <1>1 DEF OrdersOK, ReadsHold
<1>3. \A q \in Requests : q # r /\ InFlight(q) => oid[q] # r
  BY <1>2 DEF OrdersOK, ReadsHold, TypeOK
<1>4. \A q \in Requests : q # r => pc'[q] = pc[q]
  BY <1>1 DEF TypeOK
<1>5. ReadsHold'
  BY <1>1, <1>2, <1>4 DEF OrdersOK, ReadsHold, InFlight
<1>6. OverlapSeen'
  BY <1>1, <1>2, <1>3, <1>4 DEF OrdersOK, OverlapSeen, InFlight
<1>7. HeldWhileLive'
  BY <1>1 DEF OrdersOK, HeldWhileLive
<1>8. QED
  BY <1>5, <1>6, <1>7 DEF OrdersOK

\* softDeleteOrder and restoreOrder read a row that is there.
LEMMA StartOnStep ==
    ASSUME TypeOK, OrdersOK, NEW r \in Requests, NEW o \in Orders,
           StartDelete(r, o) \/ StartRestore(r, o)
    PROVE  OrdersOK'
<1>1. /\ pc[r] = "idle" /\ oid' = [oid EXCEPT ![r] = o]
      /\ op' = [op EXCEPT ![r] = op'[r]] /\ op'[r] \in {"delete", "restore"}
      /\ pc' = [pc EXCEPT ![r] = pc'[r]] /\ pc'[r] \in {"row", "lines", "refused"}
      /\ row' = row /\ held' = held
      /\ overlap' = overlap \/ overlap' = overlap \cup {o}
  BY DEF StartDelete, StartRestore, StartOn, rows, TypeOK
<1>2. InFlight(r)' => /\ op'[r] = "delete" => row[o] = "live"
                      /\ op'[r] = "restore" => row[o] = "deleted"
                      /\ Busy(r, o) => o \in overlap'
  BY DEF StartDelete, StartRestore, StartOn, TypeOK, InFlight, Working
<1>3. \A q \in Requests : q # r => pc'[q] = pc[q] /\ op'[q] = op[q] /\ oid'[q] = oid[q]
  BY <1>1 DEF TypeOK
<1>4. oid'[r] = o
  BY <1>1 DEF TypeOK
<1>5. ReadsHold'
  BY <1>1, <1>2, <1>3, <1>4 DEF OrdersOK, ReadsHold, InFlight
<1>6. OverlapSeen'
  <2> SUFFICES ASSUME NEW p \in Requests, NEW q \in Requests, p # q,
                      InFlight(p)', InFlight(q)', oid'[p] = oid'[q]
               PROVE  oid'[q] \in overlap'
    BY DEF OverlapSeen
  <2>1. CASE p # r /\ q # r
    BY <1>1, <1>3, <2>1 DEF OrdersOK, OverlapSeen, InFlight
  <2>2. CASE p = r \/ q = r
    <3>1. Busy(r, o)
      BY <1>3, <1>4, <2>2 DEF Busy, InFlight
    <3>2. QED
      BY <1>2, <1>4, <2>2, <3>1
  <2>3. QED
    BY <2>1, <2>2
<1>7. HeldWhileLive'
  BY <1>1 DEF OrdersOK, HeldWhileLive
<1>8. QED
  BY <1>5, <1>6, <1>7 DEF OrdersOK

\* A commit turns the row the handler read, and the units with it.
LEMMA CommitStep ==
    ASSUME TypeOK, OrdersOK, NEW r \in Requests, Commit(r)
    PROVE  OrdersOK'
<1>1. PICK o \in Orders : oid[r] = o
  BY DEF TypeOK
<1>2. /\ row' = [row EXCEPT ![o] = IF op[r] = "delete" THEN "deleted" ELSE "live"]
      /\ held' = [held EXCEPT ![o] = IF op[r] = "delete" THEN @ - 1 ELSE @ + 1]
      /\ UNCHANGED <<op, oid, overlap>>
      /\ pc' = [pc EXCEPT ![r] = "done"]
      /\ InFlight(r)
  BY <1>1 DEF Commit, InFlight, Working
<1>3. \A q \in Requests : /\ q # r => pc'[q] = pc[q]
                          /\ InFlight(q)' => q # r /\ InFlight(q)
  BY <1>2 DEF TypeOK, InFlight, Working
<1>4. op[r] = "create" => o = r /\ row[o] = "absent"
  BY <1>1, <1>2 DEF OrdersOK, ReadsHold
<1>5. op[r] # "create" => row[o] # "absent"
  BY <1>1, <1>2 DEF OrdersOK, ReadsHold
<1>6. ASSUME NEW q \in Requests, q # r, InFlight(q), oid[q] = o
      PROVE  op[q] # "create" /\ o \in overlap
  BY <1>1, <1>2, <1>4, <1>5, <1>6 DEF OrdersOK, ReadsHold, OverlapSeen
<1>7. ReadsHold'
  <2> SUFFICES ASSUME NEW q \in Requests
               PROVE  /\ pc'[q] = "idle" =>
                           op'[q] = "create" /\ oid'[q] = q /\ row'[q] = "absent"
                      /\ InFlight(q)' =>
                        /\ op'[q] = "create" => oid'[q] = q /\ row'[q] = "absent"
                        /\ op'[q] # "create" => row'[oid'[q]] # "absent"
                        /\ op'[q] = "delete" /\ oid'[q] \notin overlap' => row'[oid'[q]] = "live"
                        /\ op'[q] = "restore" /\ oid'[q] \notin overlap' => row'[oid'[q]] = "deleted"
    BY DEF ReadsHold
  <2>1. ASSUME pc'[q] = "idle"
        PROVE  op'[q] = "create" /\ oid'[q] = q /\ row'[q] = "absent"
    <3>1. q # r /\ pc[q] = "idle"
      BY <1>2, <1>3, <2>1 DEF TypeOK
    <3>2. row[q] = "absent" /\ op[q] = "create" /\ oid[q] = q
      BY <3>1 DEF OrdersOK, ReadsHold
    <3>3. o # q
      BY <1>4, <1>5, <3>1, <3>2
    <3>4. QED
      BY <1>2, <3>2, <3>3 DEF TypeOK, Orders
  <2>2. CASE InFlight(q)' /\ oid[q] = o
    <3>1. op[q] # "create" /\ o \in overlap
      BY <1>3, <1>6, <2>2
    <3>2. QED
      BY <1>2, <2>1, <2>2, <3>1 DEF TypeOK
  <2>3. CASE InFlight(q)' /\ oid[q] # o
    <3>1. row'[oid[q]] = row[oid[q]]
      BY <1>2, <2>3 DEF TypeOK
    <3>2. InFlight(q)
      BY <1>3, <2>3
    <3>3. QED
      BY <1>2, <2>1, <3>1, <3>2 DEF OrdersOK, ReadsHold
  <2>4. QED
    BY <2>1, <2>2, <2>3
<1>8. OverlapSeen'
  BY <1>2, <1>3 DEF OrdersOK, OverlapSeen
<1>9. HeldWhileLive'
  <2> SUFFICES ASSUME NEW x \in Orders, x \notin overlap
               PROVE  held'[x] = IF row'[x] = "live" THEN 1 ELSE 0
    BY <1>2 DEF HeldWhileLive
  <2>1. held[x] = IF row[x] = "live" THEN 1 ELSE 0
    BY DEF OrdersOK, HeldWhileLive
  <2>2. CASE x # o
    BY <1>2, <2>1, <2>2 DEF TypeOK
  <2>3. CASE x = o
    <3>1. row[o] = IF op[r] = "delete" THEN "live"
                   ELSE IF op[r] = "restore" THEN "deleted" ELSE "absent"
      BY <1>1, <1>2, <1>4, <2>3 DEF OrdersOK, ReadsHold, TypeOK
    <3>2. QED
      BY <1>2, <2>1, <2>3, <3>1 DEF TypeOK
  <2>4. QED
    BY <2>2, <2>3
<1>10. QED
  BY <1>7, <1>8, <1>9 DEF OrdersOK

-----------------------------------------------------------------------------
(* The loops and the stock.                                                  *)

\* The units of a product on the lines of an order are integers.
LEMMA UnitsFacts ==
    ASSUME TypeOK, NEW o \in Orders, NEW p \in Products
    PROVE  /\ DOMAIN items[o] = 1 .. Len(items[o]) /\ Len(items[o]) \in Nat
           /\ \A n \in Nat : n <= Len(items[o]) => IntOn(Units(o, p), 1 .. n)
           /\ Ordered(o, p) \in Int
<1>1. items[o] \in Seq([product : Products, quantity : Int])
  BY Zenon DEF TypeOK
<1>2. DOMAIN items[o] = 1 .. Len(items[o]) /\ Len(items[o]) \in Nat
  BY <1>1
<1>3. \A i \in 1 .. Len(items[o]) : items[o][i].quantity \in Int
  <2>1. \A S : \A s \in Seq(S) : \A i \in 1 .. Len(s) : s[i] \in S
    OBVIOUS
  <2>2. \A i \in 1 .. Len(items[o]) : items[o][i] \in [product : Products, quantity : Int]
    BY ONLY <1>1, <2>1, Zenon
  <2> QED
    BY <2>2
<1>4. ASSUME NEW n \in Nat, n <= Len(items[o]) PROVE IntOn(Units(o, p), 1 .. n)
  <2>1. IsFiniteSet(1 .. n)
    BY FS_Interval
  <2>2. \A i \in 1 .. n : i \in 1 .. Len(items[o])
    BY <1>2, <1>4
  <2>3. \A i \in 1 .. n : Units(o, p)[i] \in Int
    BY <1>2, <1>3, <2>2 DEF Units
  <2> QED
    BY <2>1, <2>3 DEF IntOn
<1>5. Ordered(o, p) \in Int
  <2>1. IntOn(Units(o, p), 1 .. Len(items[o]))
    BY <1>2, <1>4
  <2>2. Sum(Units(o, p), 1 .. Len(items[o])) \in Int
    BY <2>1, SumAny DEF SumGood
  <2> QED
    BY <1>2, <2>2 DEF Ordered, Sum
<1> QED
  BY <1>2, <1>4, <1>5

\* Before its first turn a loop has done nothing.
LEMMA SumNothing ==
    ASSUME NEW f, NEW n, n = 1
    PROVE  SumFunctionOnSet(f, 1 .. n - 1) = 0
<1>1. 1 .. n - 1 = {}
  OBVIOUS
<1>2. SumFunctionOnSet(f, {}) = 0
  BY Zenon, SumEq, FS_EmptySet
<1> QED
  BY <1>1, <1>2

\* What a loop has done: nothing before its first turn, one line more after
\* each, and the whole order at the end.
LEMMA MovedFacts ==
    ASSUME TypeOK, NEW r \in Requests, NEW p \in Products
    PROVE  /\ next[r] = 1 => Moved(r, p) = 0
           /\ next[r] = Len(items[oid[r]]) + 1 => Moved(r, p) = Ordered(oid[r], p)
           /\ LinesLeft(r) =>
                 /\ Moved(r, p) \in Int
                 /\ SumFunctionOnSet(Units(oid[r], p), 1 .. next[r])
                        = Moved(r, p) + IF Line(r).product = p THEN Line(r).quantity ELSE 0
<1> DEFINE o == oid[r]
           n == next[r]
           f == Units(o, p)
<1>1. o \in Orders /\ n \in Nat /\ n > 0
  BY DEF TypeOK
<1>2. /\ DOMAIN items[o] = 1 .. Len(items[o]) /\ Len(items[o]) \in Nat
      /\ \A m \in Nat : m <= Len(items[o]) => IntOn(f, 1 .. m)
  BY <1>1, UnitsFacts
<1>3. ASSUME n = 1 PROVE Moved(r, p) = 0
  BY <1>3, SumNothing DEF Moved
<1>4. ASSUME n = Len(items[o]) + 1 PROVE Moved(r, p) = Ordered(o, p)
  <2>1. n - 1 = Len(items[o])
    BY <1>1, <1>2, <1>4
  <2> QED
    BY <1>2, <2>1 DEF Moved, Ordered
<1>5. ASSUME LinesLeft(r)
      PROVE  /\ Moved(r, p) \in Int
             /\ SumFunctionOnSet(f, 1 .. n)
                    = Moved(r, p) + IF Line(r).product = p THEN Line(r).quantity ELSE 0
  <2>1. n \in 1 .. n /\ (1 .. n) \ {n} = 1 .. n - 1 /\ n - 1 \in Nat
        /\ n <= Len(items[o]) /\ n - 1 <= Len(items[o])
    BY <1>1, <1>2, <1>5 DEF LinesLeft
  <2>2. SumGood(f, 1 .. n) /\ SumGood(f, 1 .. n - 1)
    BY <1>1, <1>2, <2>1, SumAny
  <2>3. Sum(f, 1 .. n) = f[n] + Sum(f, 1 .. n - 1) /\ Sum(f, 1 .. n - 1) \in Int
    BY <2>1, <2>2 DEF SumGood
  <2>4. f[n] = IF Line(r).product = p THEN Line(r).quantity ELSE 0
    BY <1>1, <1>2, <2>1 DEF Units, Line
  <2>5. f[n] \in Int
    BY <1>1, <1>2, <2>1 DEF IntOn
  <2> QED
    BY <2>3, <2>4, <2>5 DEF Sum, Moved
<1> QED
  BY <1>3, <1>4, <1>5

\* A step that leaves a handler and the lines of its order alone.
LEMMA LoopFrame ==
    ASSUME NEW q \in Requests, LoopAt(q), pc'[q] = pc[q], op'[q] = op[q],
           oid'[q] = oid[q], next'[q] = next[q], pend'[q] = pend[q],
           InFlight(q) => items'[oid[q]] = items[oid[q]]
    PROVE  LoopAt(q)'
<1>1. InFlight(q)' <=> InFlight(q)
  BY DEF InFlight
<1>2. InFlight(q) => \A p \in Products : Moved(q, p)' = Moved(q, p)
  BY DEF Moved, Units
<1>3. pc[q] \in {"commit", "row"} => InFlight(q)
  BY DEF InFlight, Working
<1> QED
  BY <1>1, <1>2, <1>3 DEF LoopAt

\* Only a commit moves stock, places an order or changes what an order holds.
LEMMA SameStock ==
    ASSUME PlacedOK, StockAccounted, UNCHANGED <<stock, row, items, held>>
    PROVE  PlacedOK' /\ StockAccounted'
<1>1. Placed' = Placed
  BY DEF Placed
<1>2. \A p \in Products : Taken(p)' = Taken(p)
  BY DEF Taken, Ordered, Units
<1> QED
  BY <1>1, <1>2 DEF PlacedOK, StockAccounted

\* createOrder writes the lines of an order that no row and no handler uses.
LEMMA StartCreateLedger ==
    ASSUME TypeOK, OrdersOK, LedgerOK, NEW r \in Requests, NEW b \in Baskets, StartCreate(r, b)
    PROVE  LedgerOK'
<1>1. /\ pc[r] = "idle" /\ pc' = [pc EXCEPT ![r] = pc'[r]]
      /\ pc'[r] \in {"row", "refused"}
      /\ items' = [items EXCEPT ![r] = b] /\ b \in Seq([product : Products, quantity : Int])
      /\ UNCHANGED <<stock, row, op, oid, next, pend, held>>
  BY Zenon, BasketAssumption DEF StartCreate, TypeOK
<1>2. op[r] = "create" /\ oid[r] = r /\ row[r] = "absent"
  BY <1>1 DEF OrdersOK, ReadsHold
<1>3. \A q \in Requests : q # r /\ InFlight(q) => oid[q] # r
  BY <1>2 DEF OrdersOK, ReadsHold, TypeOK
<1>4. \A o \in Orders : o # r => items'[o] = items[o]
  BY <1>1 DEF TypeOK
<1>5. LoopOK'
  <2>1. ASSUME NEW q \in Requests, q # r PROVE LoopAt(q)'
    <3>1. /\ pc'[q] = pc[q] /\ op'[q] = op[q] /\ oid'[q] = oid[q]
          /\ next'[q] = next[q] /\ pend'[q] = pend[q] /\ LoopAt(q)
      BY <1>1, <2>1 DEF TypeOK, LedgerOK, LoopOK
    <3>2. InFlight(q) => items'[oid[q]] = items[oid[q]]
      BY <1>3, <1>4, <2>1 DEF TypeOK
    <3> QED
      BY <3>1, <3>2, LoopFrame
  <2>2. LoopAt(r)'
    <3>1. LoopAt(r) /\ ~InFlight(r)
      BY <1>1 DEF LedgerOK, LoopOK, InFlight, Working
    <3>2. next'[r] = 1 /\ \A p \in Products : pend'[r][p] = 0
      BY <1>1, <3>1 DEF LoopAt
    <3>3. \A p \in Products : Moved(r, p)' = 0
      BY <3>2, SumNothing DEF Moved
    <3>4. Len(items'[oid'[r]]) \in Nat
      BY <1>1, <1>2 DEF TypeOK, Orders
    <3> QED
      BY <1>1, <1>2, <3>2, <3>3, <3>4 DEF LoopAt
  <2> QED
    BY <2>1, <2>2 DEF LoopOK
<1>6. Placed' = Placed /\ r \notin Placed /\ IsFiniteSet(Placed) /\ Placed \subseteq Orders
  BY <1>1, <1>2 DEF Placed, LedgerOK, PlacedOK
<1>7. PlacedOK'
  BY <1>1, <1>6 DEF LedgerOK, PlacedOK
<1>8. ASSUME NEW p \in Products
      PROVE  SumFunctionOnSet(Taken(p)', Placed) = SumFunctionOnSet(Taken(p), Placed)
  <2>1. \A o \in Placed : Units(o, p)' = Units(o, p) /\ items'[o] = items[o]
    BY <1>4, <1>6 DEF Units
  <2>2. \A o \in Placed : Ordered(o, p)' = Ordered(o, p)
    BY <2>1 DEF Ordered
  <2>3. \A o \in Placed : Taken(p)'[o] = Taken(p)[o]
    BY <1>1, <1>6, <2>2 DEF Taken
  <2>4. Same(Taken(p)', Taken(p), Placed)
    BY <1>6, <2>3 DEF Same
  <2> QED
    BY <2>4, SumSame DEF Sum
<1>9. StockAccounted'
  BY <1>1, <1>6, <1>8 DEF LedgerOK, StockAccounted
<1> QED
  BY <1>5, <1>7, <1>9 DEF LedgerOK

\* A step of one handler that commits nothing: the others go on as they were.
LEMMA OneHandler ==
    ASSUME TypeOK, LedgerOK, NEW r \in Requests, UNCHANGED <<stock, row, items, held>>,
           \A q \in Requests \ {r} :
               /\ pc'[q] = pc[q] /\ op'[q] = op[q] /\ oid'[q] = oid[q]
               /\ next'[q] = next[q] /\ pend'[q] = pend[q],
           LoopAt(r)'
    PROVE  LedgerOK'
<1>1. PlacedOK' /\ StockAccounted'
  BY SameStock DEF LedgerOK
<1>2. ASSUME NEW q \in Requests, q # r PROVE LoopAt(q)'
  <2>1. LoopAt(q) /\ items'[oid[q]] = items[oid[q]]
    BY DEF LedgerOK, LoopOK
  <2> QED
    BY <1>2, <2>1, LoopFrame
<1> QED
  BY <1>1, <1>2 DEF LedgerOK, LoopOK

\* One turn of the loop adds its line to the pending change.
LEMMA MoveStockLedger ==
    ASSUME TypeOK, LedgerOK, NEW r \in Requests, MoveStock(r)
    PROVE  LedgerOK'
<1>1. /\ pc[r] = "lines" /\ LinesLeft(r) /\ InFlight(r) /\ LoopAt(r)
      /\ UNCHANGED <<stock, row, items, held, pc, op, oid>>
      /\ next' = [next EXCEPT ![r] = @ + 1]
      /\ pend' = [pend EXCEPT ![r][Line(r).product] = @ + Change(r)]
  BY DEF MoveStock, LedgerOK, LoopOK, InFlight, Working, rows
<1>2. Line(r).product \in Products /\ Line(r).quantity \in Int
  BY <1>1, LineFacts
<1>3. \A q \in Requests \ {r} :
         /\ pc'[q] = pc[q] /\ op'[q] = op[q] /\ oid'[q] = oid[q]
         /\ next'[q] = next[q] /\ pend'[q] = pend[q]
  BY <1>1 DEF TypeOK
<1>4. next[r] \in Nat /\ next'[r] = next[r] + 1 /\ next[r] > 0
  BY <1>1 DEF TypeOK
<1>5. next'[r] <= Len(items'[oid'[r]]) + 1
  <2>1. Len(items[oid[r]]) \in Nat
    BY DEF TypeOK
  <2> QED
    BY <1>1, <1>4, <2>1 DEF LinesLeft
<1>6. ASSUME NEW p \in Products
      PROVE  pend'[r][p] = IF op[r] = "delete" THEN Moved(r, p)' ELSE 0 - Moved(r, p)'
  <2> DEFINE c == IF Line(r).product = p THEN Line(r).quantity ELSE 0
  <2>1. c \in Int
    BY <1>2
  <2>2. pend'[r][p] = pend[r][p] + IF op[r] = "delete" THEN c ELSE -c
    <3>1. pend[r][p] \in Int
      BY DEF TypeOK
    <3>2. pend'[r][p] = IF Line(r).product = p THEN pend[r][p] + Change(r) ELSE pend[r][p]
      BY <1>1, <1>2 DEF TypeOK
    <3> QED
      BY <1>2, <3>1, <3>2 DEF Change
  <2>3. Moved(r, p)' = Moved(r, p) + c /\ Moved(r, p) \in Int
    <3>1. Moved(r, p)' = SumFunctionOnSet(Units(oid[r], p), 1 .. next[r])
      <4>1. next'[r] - 1 = next[r]
        BY <1>4
      <4>2. Units(oid[r], p)' = Units(oid[r], p)
        BY <1>1 DEF Units
      <4> QED
        BY <1>1, <4>1, <4>2 DEF Moved
    <3> QED
      BY <1>1, <3>1, MovedFacts
  <2>4. pend[r][p] = IF op[r] = "delete" THEN Moved(r, p) ELSE 0 - Moved(r, p)
    BY <1>1 DEF LoopAt
  <2> HIDE DEF c
  <2> QED
    BY <2>1, <2>2, <2>3, <2>4
<1>7. LoopAt(r)'
  <2>1. InFlight(r)' /\ pc'[r] = "lines" /\ op'[r] = op[r]
    BY <1>1 DEF InFlight
  <2> QED
    BY <1>5, <1>6, <2>1 DEF LoopAt
<1> QED
  BY <1>1, <1>3, <1>7, OneHandler

\* softDeleteOrder and restoreOrder start with nothing moved.
LEMMA StartOnLedger ==
    ASSUME TypeOK, LedgerOK, NEW r \in Requests, NEW o \in Orders,
           StartDelete(r, o) \/ StartRestore(r, o)
    PROVE  LedgerOK'
<1>1. /\ pc[r] = "idle" /\ oid' = [oid EXCEPT ![r] = o]
      /\ op' = [op EXCEPT ![r] = op'[r]] /\ op'[r] \in {"delete", "restore"}
      /\ pc' = [pc EXCEPT ![r] = pc'[r]]
      /\ UNCHANGED <<stock, row, items, held, next, pend>>
  BY DEF StartDelete, StartRestore, StartOn, rows, TypeOK
<1>2. \A q \in Requests \ {r} :
         /\ pc'[q] = pc[q] /\ op'[q] = op[q] /\ oid'[q] = oid[q]
         /\ next'[q] = next[q] /\ pend'[q] = pend[q]
  BY <1>1 DEF TypeOK
<1>3. LoopAt(r) /\ ~InFlight(r)
  BY <1>1 DEF LedgerOK, LoopOK, InFlight, Working
<1>4. next'[r] = 1 /\ \A p \in Products : pend'[r][p] = 0
  BY <1>1, <1>3 DEF LoopAt
<1>5. \A p \in Products : Moved(r, p)' = 0
  BY <1>4, SumNothing DEF Moved
<1>6. Len(items'[oid'[r]]) \in Nat
  <2>1. items'[oid'[r]] = items[o]
    BY <1>1 DEF TypeOK
  <2> QED
    BY <2>1 DEF TypeOK
<1>7. /\ pc'[r] # "idle" /\ pc'[r] # "commit"
      /\ ~(pc'[r] = "row" /\ op'[r] = "delete")
      /\ next'[r] <= Len(items'[oid'[r]]) + 1
  <2>1. /\ pc'[r] \in {"row", "lines", "refused"}
        /\ pc'[r] = "row" => op'[r] = "restore"
    BY DEF StartDelete, StartRestore, StartOn, TypeOK
  <2>2. next'[r] <= Len(items'[oid'[r]]) + 1
    BY <1>4, <1>6
  <2> QED
    BY <2>1, <2>2
<1>8. LoopAt(r)'
  <2>1. ASSUME NEW p \in Products
        PROVE  (pend[r][p] = IF ~InFlight(r) THEN 0
                             ELSE IF op[r] = "delete" THEN Moved(r, p) ELSE 0 - Moved(r, p))'
    <3>1. pend'[r][p] = 0 /\ Moved(r, p)' = 0
      BY <1>4, <1>5
    <3>2. 0 - Moved(r, p)' = 0
      BY <3>1
    <3> QED
      BY Zenon, <3>1, <3>2
  <2> QED
    BY Zenon, <1>7, <2>1 DEF LoopAt
<1> QED
  BY <1>1, <1>2, <1>8, OneHandler

\* A loop is left only at its end, so what follows it finds every line moved.
LEMMA PcLedger ==
    ASSUME TypeOK, LedgerOK, NEW r \in Requests, WriteOrder(r) \/ EndLoop(r)
    PROVE  LedgerOK'
<1>1. /\ pc[r] \in Working /\ pc' = [pc EXCEPT ![r] = pc'[r]] /\ pc'[r] \in Working
      /\ pc'[r] = "commit" \/ (pc'[r] = "row" /\ op[r] = "delete") =>
             (pc[r] = "row" /\ op[r] = "delete") \/ ~LinesLeft(r)
      /\ UNCHANGED <<stock, row, items, held, op, oid, next, pend>>
  BY DEF WriteOrder, EndLoop, TypeOK, Working, rows
<1>2. LoopAt(r) /\ InFlight(r) /\ InFlight(r)'
  BY <1>1 DEF LedgerOK, LoopOK, InFlight
<1>3. Len(items[oid[r]]) \in Nat /\ next[r] \in Nat
  BY DEF TypeOK
<1>4. \A p \in Products : Moved(r, p)' = Moved(r, p)
  BY <1>1 DEF Moved, Units
<1>5. LoopAt(r)'
  <2>1. next[r] <= Len(items[oid[r]]) + 1
    BY <1>2 DEF LoopAt
  <2>2. pc'[r] = "commit" \/ (pc'[r] = "row" /\ op[r] = "delete") =>
            next[r] = Len(items[oid[r]]) + 1
    BY <1>1, <1>2, <1>3, <2>1 DEF LoopAt, LinesLeft
  <2>3. pc'[r] # "idle"
    BY <1>1 DEF Working
  <2> QED
    BY <1>1, <1>2, <1>4, <2>1, <2>2, <2>3 DEF LoopAt
<1>6. \A q \in Requests \ {r} :
         /\ pc'[q] = pc[q] /\ op'[q] = op[q] /\ oid'[q] = oid[q]
         /\ next'[q] = next[q] /\ pend'[q] = pend[q]
  BY <1>1 DEF TypeOK
<1> QED
  BY <1>1, <1>5, <1>6, OneHandler

\* A rollback drops what its loop has done.
LEMMA RollbackLedger ==
    ASSUME TypeOK, LedgerOK, NEW r \in Requests, Rollback(r)
    PROVE  LedgerOK'
<1>1. /\ pc' = [pc EXCEPT ![r] = "refused"] /\ pend' = [pend EXCEPT ![r] = NoChange]
      /\ UNCHANGED <<stock, row, items, held, op, oid, next>>
  BY DEF Rollback, rows
<1>2. pc'[r] = "refused" /\ ~InFlight(r)' /\ \A p \in Products : pend'[r][p] = 0
  BY <1>1 DEF TypeOK, InFlight, Working, NoChange
<1>3. LoopAt(r)'
  BY <1>2 DEF LoopAt
<1>4. \A q \in Requests \ {r} :
         /\ pc'[q] = pc[q] /\ op'[q] = op[q] /\ oid'[q] = oid[q]
         /\ next'[q] = next[q] /\ pend'[q] = pend[q]
  BY <1>1 DEF TypeOK
<1> QED
  BY <1>1, <1>3, <1>4, OneHandler

\* A product when a factor changes by one.
LEMMA TimesStep ==
    ASSUME NEW a \in Int, NEW b \in Int
    PROVE  /\ a * b \in Int
           /\ (a + 1) * b = a * b + b
           /\ (a - 1) * b = a * b - b
  OBVIOUS

\* A commit moves the stock by the whole order and the order's holding with it.
LEMMA CommitLedger ==
    ASSUME TypeOK, OrdersOK, LedgerOK, NEW r \in Requests, Commit(r)
    PROVE  LedgerOK'
<1>1. PICK o \in Orders : oid[r] = o
  BY DEF TypeOK
<1>2. /\ row' = [row EXCEPT ![o] = IF op[r] = "delete" THEN "deleted" ELSE "live"]
      /\ held' = [held EXCEPT ![o] = IF op[r] = "delete" THEN @ - 1 ELSE @ + 1]
      /\ stock' = [p \in Products |-> stock[p] + pend[r][p]]
      /\ pend' = [pend EXCEPT ![r] = NoChange]
      /\ pc' = [pc EXCEPT ![r] = "done"]
      /\ UNCHANGED <<items, op, oid, next>>
      /\ pc[r] = "commit" /\ InFlight(r)
  BY <1>1 DEF Commit, InFlight, Working
<1>3. LoopOK /\ IsFiniteSet(Placed) /\ StockAccounted
      /\ \A x \in Orders : row[x] = "absent" => held[x] = 0
  BY DEF LedgerOK, PlacedOK
<1>4. /\ \A x \in Orders \ {o} : row'[x] = row[x] /\ held'[x] = held[x]
      /\ row'[o] # "absent"
      /\ held[o] \in Int
      /\ held'[o] = IF op[r] = "delete" THEN held[o] - 1 ELSE held[o] + 1
  BY <1>2 DEF TypeOK
<1>5. \A q \in Requests \ {r} : pc'[q] = pc[q] /\ pend'[q] = pend[q]
  BY <1>2 DEF TypeOK
<1>6. LoopOK'
  <2>1. ASSUME NEW q \in Requests, q # r PROVE LoopAt(q)'
    <3>1. /\ pc'[q] = pc[q] /\ op'[q] = op[q] /\ oid'[q] = oid[q]
          /\ next'[q] = next[q] /\ pend'[q] = pend[q] /\ LoopAt(q)
          /\ items'[oid[q]] = items[oid[q]]
      BY <1>2, <1>3, <1>5, <2>1 DEF LoopOK
    <3> QED
      BY <3>1, LoopFrame
  <2>2. pc'[r] = "done" /\ ~InFlight(r)' /\ \A p \in Products : pend'[r][p] = 0
    BY <1>2 DEF TypeOK, InFlight, Working, NoChange
  <2>3. LoopAt(r)'
    BY <2>2 DEF LoopAt
  <2> QED
    BY <2>1, <2>3 DEF LoopOK
<1>7. Placed' = Placed \cup {o}
  BY <1>4 DEF Placed
<1>8. IsFiniteSet(Placed \cup {o})
  BY <1>3, FS_AddElement
<1>9. PlacedOK'
  <2>1. ASSUME NEW x \in Orders, row'[x] = "absent" PROVE held'[x] = 0
    <3>1. x # o /\ row[x] = "absent"
      BY <1>4, <2>1
    <3> QED
      BY <1>4, <1>3, <3>1
  <2> QED
    BY <1>7, <1>8, <2>1 DEF PlacedOK
<1>10. ASSUME NEW p \in Products
      PROVE  stock'[p] + SumFunctionOnSet(Taken(p)', Placed') = InitStock[p]
  <2> DEFINE f == Taken(p)
             g == Taken(p)'
             u == Ordered(o, p)
  <2>1. \A x \in Orders : Ordered(x, p)' = Ordered(x, p) /\ Ordered(x, p) \in Int
    <3>1. \A x \in Orders : Ordered(x, p)' = Ordered(x, p)
      BY <1>2 DEF Ordered, Units
    <3> QED
      BY <3>1, UnitsFacts
  <2>2. \A x \in Orders : f[x] = held[x] * Ordered(x, p) /\ g[x] = held'[x] * Ordered(x, p)
    BY <2>1 DEF Taken
  <2>3. \A x \in Orders : f[x] \in Int /\ g[x] \in Int
    <3>1. \A x \in Orders : held[x] \in Int
      BY DEF TypeOK
    <3>2. \A x \in Orders : held'[x] \in Int
      BY <1>4, <3>1
    <3> QED
      BY <2>1, <2>2, <3>1, <3>2, TimesStep
  <2>4. \A x \in Placed \ {o} : f[x] = g[x]
    <3>1. \A x \in Placed \ {o} : x \in Orders /\ held'[x] = held[x]
      BY <1>4 DEF Placed
    <3> QED
      BY <2>2, <3>1
  <2>5. o \notin Placed => f[o] = 0
    <3>1. o \notin Placed => held[o] = 0
      BY <1>3 DEF Placed
    <3> QED
      BY <2>1, <2>2, <3>1
  <2>6. pend[r][p] = IF op[r] = "delete" THEN u ELSE 0 - u
    <3>1. next[r] = Len(items[oid[r]]) + 1 /\ LoopAt(r)
      BY <1>2, <1>3 DEF LoopOK, LoopAt
    <3>2. Moved(r, p) = u
      BY Zenon, <1>1, <3>1, MovedFacts
    <3> QED
      BY Zenon, <1>2, <3>1, <3>2 DEF LoopAt
  <2>7. g[o] - f[o] = IF op[r] = "delete" THEN -u ELSE u
    <3>1. held[o] \in Int /\ held'[o] = IF op[r] = "delete" THEN held[o] - 1 ELSE held[o] + 1
      BY <1>4
    <3>2. /\ held[o] * u \in Int
          /\ (held[o] + 1) * u = held[o] * u + u
          /\ (held[o] - 1) * u = held[o] * u - u
      BY <2>1, <3>1, TimesStep
    <3>3. u \in Int
      BY <2>1
    <3>4. f[o] = held[o] * u /\ g[o] = held'[o] * u
      BY <2>2
    <3> HIDE DEF u, f, g
    <3>5. CASE op[r] = "delete"
      BY <3>1, <3>2, <3>3, <3>4, <3>5
    <3>6. CASE op[r] # "delete"
      BY <3>1, <3>2, <3>3, <3>4, <3>6
    <3> QED
      BY <3>5, <3>6
  <2>8. IntOn(f, Placed \cup {o}) /\ IntOn(g, Placed \cup {o}) /\ IntOn(f, Placed)
    BY <1>3, <1>8, <2>3 DEF IntOn, Placed
  <2>9. stock[p] + Sum(f, Placed) = InitStock[p] /\ stock[p] \in Int /\ u \in Int
        /\ stock'[p] = stock[p] + pend[r][p]
    BY Zenon, <1>2, <1>3, <2>1 DEF StockAccounted, Sum, TypeOK
  <2>10. f[o] \in Int /\ g[o] \in Int
    BY <2>3
  <2> HIDE DEF u, f, g
  <2>11. Sum(g, Placed \cup {o}) = Sum(f, Placed) + g[o] - f[o]
    BY <2>4, <2>5, <2>8, SumChange DEF Sum
  <2>12. Sum(f, Placed) \in Int
    BY <2>8, SumAny DEF SumGood
  <2>13. stock'[p] + Sum(g, Placed \cup {o}) = InitStock[p]
    BY <2>6, <2>7, <2>9, <2>10, <2>11, <2>12
  <2> QED
    BY <1>7, <2>13 DEF Sum, g
<1>11. StockAccounted'
  BY <1>10 DEF StockAccounted
<1> QED
  BY <1>6, <1>9, <1>11 DEF LedgerOK

-----------------------------------------------------------------------------
\* The invariant holds before the first request.
LEMMA InitInv == Init => IInv
<1> SUFFICES ASSUME Init PROVE IInv
  OBVIOUS
<1>1. TypeOK
  BY StockAssumption DEF Init, TypeOK, NoChange, Statuses, Orders
<1>2. LocksCoverWrites
  BY DEF Init, LocksCoverWrites, NoChange
<1>3. OrdersOK
  BY DEF Init, OrdersOK, ReadsHold, OverlapSeen, HeldWhileLive, InFlight, Working, Orders
<1>4. LedgerOK
  <2>1. LoopOK
    BY DEF Init, LoopOK, LoopAt, InFlight, Working, NoChange
  <2>2. Placed = {}
    BY DEF Init, Placed
  <2>3. IsFiniteSet({})
    BY FS_EmptySet
  <2>4. PlacedOK
    BY <2>2, <2>3 DEF Init, PlacedOK
  <2>5. \A p \in Products : SumFunctionOnSet(Taken(p), {}) = 0
    BY <2>3, SumEq
  <2>6. StockAccounted
    BY <2>2, <2>5, StockAssumption DEF Init, StockAccounted
  <2> QED
    BY <2>1, <2>4, <2>6 DEF LedgerOK
<1>5. QED
  BY <1>1, <1>2, <1>3, <1>4 DEF IInv

\* Every step preserves it.
LEMMA InvStep == IInv /\ [Next]_vars => IInv'
<1> SUFFICES ASSUME TypeOK, LocksCoverWrites, OrdersOK, LedgerOK, [Next]_vars PROVE IInv'
  BY DEF IInv
<1>1. TypeOK' /\ LocksCoverWrites'
  BY TypeStep, LocksStep
<1>2. OrdersOK'
  <2> USE DEF rows, handlers, InFlight, Working
  <2>1. ASSUME NEW r \in Requests, NEW b \in Baskets, StartCreate(r, b)
        PROVE  OrdersOK'
    BY <2>1, StartCreateStep
  <2>2. ASSUME NEW r \in Requests, NEW o \in Orders, StartDelete(r, o) \/ StartRestore(r, o)
        PROVE  OrdersOK'
    BY <2>2, StartOnStep
  <2>3. ASSUME NEW r \in Requests, WriteOrder(r) \/ MoveStock(r) \/ EndLoop(r)
        PROVE  OrdersOK'
    <3>1. /\ UNCHANGED <<row, op, oid, held, overlap>>
          /\ \A q \in Requests : /\ pc'[q] = "idle" => pc[q] = "idle"
                                 /\ InFlight(q)' => InFlight(q)
      BY <2>3 DEF WriteOrder, MoveStock, EndLoop, TypeOK
    <3>2. QED
      BY <3>1, QuietStep
  <2>4. ASSUME NEW r \in Requests, Commit(r)
        PROVE  OrdersOK'
    BY <2>4, CommitStep
  <2>5. ASSUME NEW r \in Requests, Fail(r) \/ DeadlockAbort(r)
        PROVE  OrdersOK'
    <3>1. /\ UNCHANGED <<row, op, oid, held, overlap>>
          /\ \A q \in Requests : /\ pc'[q] = "idle" => pc[q] = "idle"
                                 /\ InFlight(q)' => InFlight(q)
      BY <2>5 DEF Fail, DeadlockAbort, Rollback, TypeOK
    <3>2. QED
      BY <3>1, QuietStep
  <2>6. ASSUME UNCHANGED <<row, handlers, held, overlap>>
        PROVE  OrdersOK'
    BY <2>6, QuietStep
  <2>7. QED
    BY <2>1, <2>2, <2>3, <2>4, <2>5, <2>6
       DEF Next, Work, WriteStatus, ListProduct, vars
<1>3. LedgerOK'
  <2>1. ASSUME NEW r \in Requests, NEW b \in Baskets, StartCreate(r, b)
        PROVE  LedgerOK'
    BY <2>1, StartCreateLedger
  <2>2. ASSUME NEW r \in Requests, NEW o \in Orders, StartDelete(r, o) \/ StartRestore(r, o)
        PROVE  LedgerOK'
    BY <1>1, <2>2, StartOnLedger
  <2>3. ASSUME NEW r \in Requests, Work(r)
        PROVE  LedgerOK'
    BY <1>1, <2>3, PcLedger, MoveStockLedger, CommitLedger DEF Work
  <2>4. ASSUME NEW r \in Requests, Fail(r) \/ DeadlockAbort(r)
        PROVE  LedgerOK'
    BY <2>4, RollbackLedger DEF Fail, DeadlockAbort
  <2>5. ASSUME UNCHANGED <<stock, row, items, held, handlers>>
        PROVE  LedgerOK'
    <3>1. PlacedOK' /\ StockAccounted'
      BY <2>5, SameStock DEF LedgerOK
    <3>2. ASSUME NEW q \in Requests PROVE LoopAt(q)'
      BY <2>5, LoopFrame DEF LedgerOK, LoopOK, handlers
    <3> QED
      BY <3>1, <3>2 DEF LedgerOK, LoopOK
  <2>6. QED
    BY <2>1, <2>2, <2>3, <2>4, <2>5 DEF Next, WriteStatus, ListProduct, vars, rows, handlers
<1>4. QED
  BY <1>1, <1>2, <1>3 DEF IInv

\* The inductive invariant of the order transactions.
THEOREM InvariantHolds == Spec => []IInv
  BY InitInv, InvStep, PTL DEF Spec

\* Every variable of the order transactions stays in its type.
THEOREM TypeCorrect == Spec => []TypeOK
<1>1. IInv => TypeOK
  BY DEF IInv
<1>2. QED
  BY <1>1, InvariantHolds, PTL

\* Every uncommitted stock change of createOrder, softDeleteOrder and
\* restoreOrder is on a row its transaction holds, and no answered request
\* holds a row, for any number of requests and products.
THEOREM LocksCover == Spec => []LocksCoverWrites
<1>1. IInv => LocksCoverWrites
  BY DEF IInv
<1>2. QED
  BY <1>1, InvariantHolds, PTL

\* No unit is lost or made up by createOrder, softDeleteOrder and restoreOrder,
\* whatever fails, deadlocks or overlaps: the stock of every product is what it
\* was at first less what the orders hold, for any baskets, with any quantities,
\* and any number of requests at once.
THEOREM UnitsAccounted == Spec => []StockAccounted
<1>1. IInv => StockAccounted
  BY DEF IInv, LedgerOK
<1>2. QED
  BY <1>1, InvariantHolds, PTL

\* An order whose delete and restore handlers never overlapped holds its units
\* exactly while it is live, for any number of requests and any baskets.
THEOREM UnitsHeld == Spec => []HeldWhileLive
<1>1. IInv => HeldWhileLive
  BY DEF IInv, OrdersOK
<1>2. QED
  BY <1>1, InvariantHolds, PTL
=============================================================================
