---------------------------- MODULE PagesProofs ----------------------------
(***************************************************************************)
(* NoneSkipped, TwiceOnlyIfPushed and PagesAreTheList of Pages, for any    *)
(* rows, creation times, lines per order and parameters.                   *)
(***************************************************************************)
EXTENDS Pages, FiniteSetTheorems, SequenceTheorems, TLAPS

(* Positions in a list                                                       *)

\* The rows of a list that come before row x, and how many there are.
Above(l, x) == {y \in l : Created[y] > Created[x]}
Pos(l, x) == Cardinality(Above(l, x))

\* Lists are finite, and so is what comes before a row.
LEMMA PosFacts ==
    ASSUME NEW l \in SUBSET Rows, NEW x
    PROVE  /\ IsFiniteSet(l) /\ Cardinality(l) \in Nat
           /\ IsFiniteSet(Above(l, x)) /\ Pos(l, x) \in Nat
<1>1. IsFiniteSet(l)
  BY RowsAssumption, FS_Subset
<1>2. IsFiniteSet(Above(l, x))
  BY <1>1, FS_Subset DEF Above
<1> QED
  BY <1>1, <1>2, FS_CardinalityType DEF Pos

\* A row of the list is itself not above it.
LEMMA PosInList ==
    ASSUME NEW l \in SUBSET Rows, NEW x \in l
    PROVE  Pos(l, x) < Cardinality(l)
<1>1. Above(l, x) \subseteq l \ {x}
  BY CreatedAssumption DEF Above
<1>2. IsFiniteSet(l) /\ Cardinality(l) \in Nat /\ Pos(l, x) \in Nat
  BY Zenon, PosFacts
<1>3. IsFiniteSet(l \ {x}) /\ Cardinality(l \ {x}) = Cardinality(l) - 1
  BY <1>2, FS_RemoveElement
<1>4. Cardinality(Above(l, x)) <= Cardinality(l \ {x})
  BY <1>1, <1>3, FS_Subset
<1> QED
  BY <1>2, <1>3, <1>4 DEF Pos

\* The newer of two rows is not further down.
LEMMA PosOrder ==
    ASSUME NEW l \in SUBSET Rows, NEW x \in Rows, NEW y \in Rows, Pos(l, x) < Pos(l, y)
    PROVE  Created[x] >= Created[y]
<1> SUFFICES ASSUME ~(Created[x] >= Created[y]) PROVE FALSE
  OBVIOUS
<1>1. Created[x] \in Nat /\ Created[y] \in Nat /\ \A z \in l : Created[z] \in Nat
  BY CreatedAssumption
<1>2. Above(l, y) \subseteq Above(l, x)
  BY <1>1 DEF Above
<1>3. Pos(l, y) <= Pos(l, x)
  <2>1. IsFiniteSet(Above(l, x))
    BY Zenon, PosFacts
  <2> QED
    BY <1>2, <2>1, FS_Subset DEF Pos
<1>4. Pos(l, x) \in Nat /\ Pos(l, y) \in Nat
  BY Zenon, PosFacts
<1> QED
  BY <1>3, <1>4

\* A sequence that names no row twice names as many rows as it is long.
LEMMA DistinctLen ==
    ASSUME NEW n \in Nat, NEW s, NEW S, s \in [1 .. n -> S],
           \A i, j \in 1 .. n : i # j => s[i] # s[j]
    PROVE  IsFiniteSet({s[i] : i \in 1 .. n}) /\ Cardinality({s[i] : i \in 1 .. n}) = n
<1> DEFINE T == {s[i] : i \in 1 .. n}
           f == [i \in 1 .. n |-> s[i]]
<1>1. f \in Bijection(1 .. n, T)
  BY DEF Bijection, Injection, Surjection, IsInjective
<1>2. IsFiniteSet(1 .. n) /\ Cardinality(1 .. n) = n
  BY FS_Interval
<1>3. ExistsBijection(1 .. n, T)
  BY <1>1 DEF ExistsBijection
<1> QED
  BY <1>2, <1>3, FS_Bijection

\* The order of a query: every row once, and an untied row at its position.
LEMMA OrderFacts ==
    ASSUME NEW l \in SUBSET Rows, NEW s \in SetToSeqs(l), Newest(s)
    PROVE  LET n == Cardinality(l) IN
           /\ n \in Nat /\ s \in [1 .. n -> l] /\ Len(s) = n
           /\ \A i, j \in 1 .. n : i # j => s[i] # s[j]
           /\ \A x \in l : \E i \in 1 .. n : s[i] = x
           /\ \A i \in 1 .. n : ~Tied(s[i]) => Pos(l, s[i]) = i - 1
<1> DEFINE n == Cardinality(l)
<1>1. IsFiniteSet(l) /\ n \in Nat
  BY PosFacts
<1>2. s \in [1 .. n -> l] /\ \A i, j \in 1 .. n : i # j => s[i] # s[j]
  BY DEF SetToSeqs
<1> HIDE DEF n
<1>3. Len(s) = n /\ DOMAIN s = 1 .. n
  BY <1>1, <1>2, LenProperties
<1>4. \A x \in l : \E i \in 1 .. n : s[i] = x
  <2> DEFINE T == {s[i] : i \in 1 .. n}
  <2>1. T \subseteq l
    BY <1>2
  <2>2. IsFiniteSet(T) /\ Cardinality(T) = n
    BY Zenon, <1>1, <1>2, DistinctLen
  <2>3. T = l
    BY <1>1, <2>1, <2>2, FS_Subset DEF n
  <2> QED
    BY <2>3
<1>5. ASSUME NEW i \in 1 .. n, ~Tied(s[i]) PROVE Pos(l, s[i]) = i - 1
  <2> DEFINE T == {s[j] : j \in 1 .. i - 1}
             t == [j \in 1 .. i - 1 |-> s[j]]
  <2>1. i - 1 \in Nat /\ \A j \in 1 .. i - 1 : j \in 1 .. n
    BY <1>1
  <2>2. t \in [1 .. i - 1 -> l] /\ \A j, k \in 1 .. i - 1 : j # k => t[j] # t[k]
    BY <1>2, <2>1
  <2>3. {t[j] : j \in 1 .. i - 1} = T
    OBVIOUS
  <2>4. Cardinality(T) = i - 1
    <3> HIDE DEF t
    <3>1. Cardinality({t[j] : j \in 1 .. i - 1}) = i - 1
      BY Zenon, <2>1, <2>2, DistinctLen
    <3> QED
      BY Zenon, <2>3, <3>1
  <2>5. \A j \in 1 .. n : s[j] \in Rows /\ Created[s[j]] \in Nat
    BY <1>2, CreatedAssumption
  <2>6. \A j \in 1 .. n : j < i => Created[s[j]] > Created[s[i]]
    <3>1. \A j \in 1 .. n : j < i => Created[s[j]] >= Created[s[i]]
      BY <1>3 DEF Newest
    <3>2. \A j \in 1 .. n : j # i => Created[s[j]] # Created[s[i]]
      BY <1>2, <1>5, <2>5 DEF Tied
    <3> QED
      BY <1>1, <2>5, <3>1, <3>2
  <2>7. \A j \in 1 .. n : j >= i => ~(Created[s[j]] > Created[s[i]])
    <3>1. \A j \in 1 .. n : i < j => Created[s[i]] >= Created[s[j]]
      BY <1>3 DEF Newest
    <3> QED
      BY <1>1, <2>5, <3>1
  <2>8. Above(l, s[i]) = T
    <3>1. \A y \in T : y \in Above(l, s[i])
      BY <1>1, <1>2, <2>1, <2>6 DEF Above
    <3>2. ASSUME NEW y \in Above(l, s[i]) PROVE y \in T
      <4>1. PICK j \in 1 .. n : s[j] = y
        BY <1>4 DEF Above
      <4>2. ~(j >= i)
        BY <2>7, <4>1 DEF Above
      <4> QED
        BY <1>1, <4>1, <4>2
    <3> QED
      BY <3>1, <3>2
  <2> QED
    BY <2>4, <2>8 DEF Pos
<1> QED
  BY <1>1, <1>2, <1>3, <1>4, <1>5 DEF n

\* r is the page with m rows from position o on of list l.
PageOf(l, o, m, r) ==
    /\ r \in Seq(Rows) /\ ToSet(r) \subseteq l
    /\ \A i, j \in DOMAIN r : i # j => r[i] # r[j]
    /\ Newest(r)
    /\ \A x \in l : ~Tied(x) => (x \in ToSet(r) <=> Pos(l, x) >= o /\ Pos(l, x) < o + m)

\* What OFFSET and LIMIT leave of the list.
LEMMA SliceFacts ==
    ASSUME NEW l \in SUBSET Rows, NEW s \in SetToSeqs(l), Newest(s),
           NEW o \in Nat, NEW m \in Nat, NEW r, r = Slice(s, o, m)
    PROVE  PageOf(l, o, m, r)
<1> DEFINE n == Cardinality(l)
           e == IF o + m < n THEN o + m ELSE n
<1>1. /\ n \in Nat /\ s \in [1 .. n -> l] /\ Len(s) = n
      /\ \A i, j \in 1 .. n : i # j => s[i] # s[j]
      /\ \A x \in l : \E i \in 1 .. n : s[i] = x
      /\ \A i \in 1 .. n : ~Tied(s[i]) => Pos(l, s[i]) = i - 1
  BY OrderFacts
<1>2. r = SubSeq(s, o + 1, e)
  BY <1>1 DEF Slice
<1> HIDE DEF n
<1>3. r = [i \in 1 .. (e - o) |-> s[i + o]]
  BY <1>1, <1>2
<1> DEFINE c == e - o
<1>4. /\ c \in Int /\ c <= m /\ c <= n - o /\ (c = m \/ c = n - o)
      /\ \A i \in 1 .. c : i + o \in 1 .. n
  BY <1>1
<1> HIDE DEF e
<1>5. DOMAIN r = 1 .. c /\ \A i \in 1 .. c : r[i] = s[i + o] /\ r[i] \in l
  BY <1>1, <1>3, <1>4
<1> HIDE DEF c
<1>6. r \in Seq(Rows)
  <2> DEFINE k == IF c < 0 THEN 0 ELSE c
  <2>1. k \in Nat /\ 1 .. k = 1 .. c
    BY <1>4
  <2> HIDE DEF k
  <2>2. r \in [1 .. k -> Rows]
    BY Zenon, <1>3, <1>5, <2>1 DEF c
  <2> QED
    BY <2>1, <2>2, SeqDef
<1>7. ToSet(r) \subseteq l
  BY <1>5 DEF ToSet
<1>8. \A i, j \in DOMAIN r : i # j => r[i] # r[j]
  BY <1>1, <1>4, <1>5
<1>9. Newest(r)
  <2>1. \A i, j \in 1 .. n : i < j => Created[s[i]] >= Created[s[j]]
    BY <1>1 DEF Newest
  <2>2. \A i, j \in 1 .. c : i < j =>
            i + o \in 1 .. n /\ j + o \in 1 .. n /\ i + o < j + o
    BY <1>4
  <2>3. \A i, j \in 1 .. c : i < j => Created[r[i]] >= Created[r[j]]
    BY <1>5, <2>1, <2>2
  <2> QED
    BY <1>5, <2>3 DEF Newest
<1>10. ASSUME NEW x \in l, ~Tied(x)
       PROVE  x \in ToSet(r) <=> Pos(l, x) >= o /\ Pos(l, x) < o + m
  <2>1. PICK i \in 1 .. n : s[i] = x
    BY <1>1
  <2>2. Pos(l, x) = i - 1
    BY <1>1, <1>10, <2>1
  <2>3. x \in ToSet(r) <=> \E j \in 1 .. c : s[j + o] = x
    BY <1>5 DEF ToSet
  <2>4. (\E j \in 1 .. c : s[j + o] = x) <=> (\E j \in 1 .. c : j + o = i)
    BY Zenon, <1>1, <1>4, <2>1
  <2>5. (\E j \in 1 .. c : j + o = i) <=> i - 1 >= o /\ i - 1 < o + m
    <3>1. (\E j \in 1 .. c : j + o = i) => i - 1 >= o /\ i - 1 < o + m
      BY <1>1, <1>4
    <3>2. i - 1 >= o /\ i - 1 < o + m => i - o \in 1 .. c /\ (i - o) + o = i
      BY <1>1, <1>4
    <3> QED
      BY <3>1, <3>2
  <2> QED
    BY <2>2, <2>3, <2>4, <2>5
<1> QED
  BY <1>6, <1>7, <1>8, <1>9, <1>10 DEF PageOf

\* COUNT counts every row of the list, and nothing when there is none.
LEMMA JoinFacts ==
    ASSUME list \in SUBSET Rows
    PROVE  /\ Cardinality(Join) \in Nat /\ Cardinality(list) <= Cardinality(Join)
           /\ Cardinality(list) \in Nat
           /\ Cardinality(Join) = 0 => list = {}
<1> DEFINE F == {{x} \X (1 .. Joined[x]) : x \in list}
           one == {<<x, 1>> : x \in list}
           f == [x \in list |-> <<x, 1>>]
<1>1. IsFiniteSet(list) /\ Cardinality(list) \in Nat
  BY PosFacts
<1>2. IsFiniteSet(F)
  <2> DEFINE g == [x \in list |-> {x} \X (1 .. Joined[x])]
  <2>1. g \in Surjection(list, F)
    BY Zenon DEF Surjection
  <2> HIDE DEF g, F
  <2> QED
    BY <1>1, <2>1, FS_Surjection
<1>3. ASSUME NEW x \in list PROVE IsFiniteSet({x} \X (1 .. Joined[x]))
  <2>1. Joined[x] \in Nat
    BY JoinedAssumption
  <2>2. IsFiniteSet(1 .. Joined[x])
    BY <2>1, FS_Interval
  <2>3. IsFiniteSet({x})
    BY Zenon, FS_Singleton
  <2> QED
    BY Zenon, <2>2, <2>3, FS_Product
<1>4. IsFiniteSet(Join)
  <2>1. \A S \in F : IsFiniteSet(S)
    BY <1>3
  <2>2. Join = UNION F
    BY DEF Join
  <2> HIDE DEF F
  <2> QED
    BY <1>2, <2>1, <2>2, FS_UNION
<1>5. one \subseteq Join
  BY JoinedAssumption DEF Join
<1>6. IsFiniteSet(one) /\ Cardinality(one) = Cardinality(list)
  <2>1. f \in Bijection(list, one)
    BY DEF Bijection, Injection, Surjection, IsInjective
  <2>2. ExistsBijection(list, one)
    BY <2>1 DEF ExistsBijection
  <2> QED
    BY <1>1, <2>2, FS_Bijection
<1>7. Cardinality(Join) \in Nat /\ Cardinality(one) <= Cardinality(Join)
  BY <1>4, <1>5, FS_Subset, FS_CardinalityType
<1>8. Cardinality(list) = 0 => list = {}
  BY <1>1, FS_EmptySet
<1> QED
  BY <1>1, <1>6, <1>7, <1>8

-----------------------------------------------------------------------------
(* The inductive invariant                                                   *)

\* The rows of the pages answered so far.
Shown == ToSet(got)
\* The rows of the page at hand.
OnPage == IF rows = None THEN {} ELSE ToSet(rows)

\* The first position the walk has not reached.
Reached == IF rows = None THEN walk.offset ELSE walk.offset + walk.limit

\* No row above x has left the list since the walk began.
Unmoved(x) == Newer(x) \cap left = {} /\ ~Tied(x)
\* No row above x has entered the list since then.
Unpushed(x) == Newer(x) \cap entered = {} /\ ~Tied(x)
\* The list has not changed since then.
Still == entered = {} /\ left = {} /\ \A x \in list : ~Tied(x)

\* Every variable but the walk is in its type.
Types ==
    /\ list \in SUBSET Rows /\ stayed \subseteq list
    /\ entered \subseteq Rows /\ left \subseteq Rows /\ torn \subseteq entered
    /\ count \in Nat \cup {None}
    /\ rows = None \/ rows \in Seq(Rows)
    /\ got \in Seq(Rows)

\* The page that is asked for; only the first can be refused for its limit.
WalkOK ==
    /\ walk.page \in Nat \ {0} /\ walk.limit \in Int
    /\ walk.offset = (walk.page - 1) * walk.limit
    /\ count # None \/ rows # None \/ walk.page # 1 => walk.limit > 0

\* A row that was never moved up was shown or is still to come; the COUNT of a
\* page that is not torn covers the rows there were, so the walk goes on while
\* one of them is still to come.
SkipOK ==
    /\ \A x \in stayed : Unmoved(x) => x \in Shown \cup OnPage \/ Pos(list, x) >= Reached
    /\ count # None /\ rows = None /\ torn = {} => Cardinality(list) <= count
    /\ count # None /\ rows # None /\ torn = {} =>
          \A x \in stayed : Unmoved(x) => x \in Shown \cup OnPage \/ Reached < count
    /\ count = 0 => stayed = {}

\* A row that was never pushed down is behind the walk once it was shown.
TwiceOK ==
    /\ \A y \in Shown \cup OnPage : Unpushed(y) => Pos(list, y) < Reached
    /\ rows # None =>
          /\ \A y \in Shown \cap OnPage : ~Unpushed(y)
          /\ \A i, j \in DOMAIN rows : i # j => rows[i] # rows[j]

\* While the list does not change, the pages so far are its rows up to the
\* offset, newest first.
StillOK ==
    Still =>
        /\ Shown = {y \in list : Pos(list, y) < walk.offset} /\ Newest(got)
        /\ rows # None =>
              /\ OnPage = {y \in list : Pos(list, y) >= walk.offset /\ Pos(list, y) < Reached}
              /\ Newest(rows)
        /\ count # None => Cardinality(list) <= count

\* What holds between the pages of a walk.
PageOK == walk.at = "page" => WalkOK /\ SkipOK /\ TwiceOK /\ StillOK

\* What PagesAreTheList says of a walk that is over.
Whole ==
    walk.at = "done" /\ entered = {} /\ left = {} /\ ~(\E x \in list : Tied(x)) =>
        Newest(got) /\ Len(got) = Cardinality(list) /\ ToSet(got) = list

\* The inductive invariant of a walk.
IInv == Types /\ PageOK /\ NoneSkipped /\ TwiceOnlyIfPushed /\ Whole
-----------------------------------------------------------------------------

\* The page a walk goes on to.
LEMMA AskFacts ==
    ASSUME NEW p, NEW l, Ask(p, l)
    PROVE  LET g == paginate(p, l) IN
           /\ walk'.at = "page" /\ walk'.page = g.page /\ walk'.limit = g.limit
           /\ walk'.offset = g.offset
           /\ count' = None /\ rows' = None /\ torn' = {}
  BY DEF Ask

\* The first page, whatever the parameters.
LEMMA FirstFacts ==
    ASSUME NEW p \in PageParams, NEW l \in LimitParams
    PROVE  LET g == paginate(p, l) IN g.page = 1 /\ g.limit \in Int /\ g.offset = 0
<1>1. parseIntOr(p, 1) \in Int /\ parseIntOr(p, 1) <= 1 /\ parseIntOr(l, 5) \in Int
  BY ParamAssumption, FirstAssumption DEF parseIntOr
<1> QED
  BY <1>1 DEF paginate

\* The page after a page.
LEMMA LaterFacts ==
    ASSUME NEW p \in Nat \ {0}, NEW l \in Nat \ {0}
    PROVE  LET g == paginate(p + 1, l) IN
           g.page = p + 1 /\ g.limit = l /\ g.offset = p * l
<1>1. parseIntOr(p + 1, 1) = p + 1 /\ parseIntOr(l, 5) = l
  BY NoneAssumption DEF parseIntOr
<1> QED
  BY <1>1 DEF paginate

\* After the last page nothing is left to show.
LEMMA LastPage ==
    ASSUME NEW c \in Nat, NEW p \in Nat \ {0}, NEW l \in Nat \ {0}, ~(p < totalPages(c, l))
    PROVE  c <= p * l
<1> DEFINE q == (c + l - 1) \div l
           r == (c + l - 1) % l
<1>1. q \in Nat /\ r \in 0 .. l - 1 /\ c + l - 1 = l * q + r
  OBVIOUS
<1>2. q <= p
  BY <1>1 DEF totalPages
<1> HIDE DEF q, r
<1>3. l * q <= p * l
  BY <1>1, <1>2
<1> QED
  BY <1>1, <1>3

\* A list that is counted as empty has one answer.
LEMMA NoPages ==
    ASSUME NEW l \in Nat \ {0}, NEW p \in Nat \ {0}
    PROVE  ~(p < totalPages(0, l))
<1>1. (0 + l - 1) \div l = 0
  OBVIOUS
<1> QED
  BY <1>1 DEF totalPages

\* What pages put together hold.
LEMMA ConcatFacts ==
    ASSUME NEW s \in Seq(Rows), NEW t \in Seq(Rows)
    PROVE  /\ s \o t \in Seq(Rows) /\ DOMAIN (s \o t) = 1 .. Len(s) + Len(t)
           /\ DOMAIN s = 1 .. Len(s) /\ DOMAIN t = 1 .. Len(t)
           /\ Len(s) \in Nat /\ Len(t) \in Nat
           /\ \A i \in 1 .. Len(s) : (s \o t)[i] = s[i]
           /\ \A i \in 1 .. Len(s) + Len(t) : i \notin 1 .. Len(s) =>
                 i - Len(s) \in 1 .. Len(t) /\ (s \o t)[i] = t[i - Len(s)]
           /\ ToSet(s \o t) = ToSet(s) \cup ToSet(t)
<1>1. /\ s \o t \in Seq(Rows) /\ DOMAIN (s \o t) = 1 .. Len(s) + Len(t)
      /\ DOMAIN s = 1 .. Len(s) /\ DOMAIN t = 1 .. Len(t)
      /\ Len(s) \in Nat /\ Len(t) \in Nat
  OBVIOUS
<1>2. \A i \in 1 .. Len(s) : (s \o t)[i] = s[i]
  OBVIOUS
<1>3. \A i \in 1 .. Len(s) + Len(t) : i \notin 1 .. Len(s) =>
         i - Len(s) \in 1 .. Len(t) /\ (s \o t)[i] = t[i - Len(s)]
  OBVIOUS
<1>4. \A j \in 1 .. Len(t) : j + Len(s) \in 1 .. Len(s) + Len(t) /\ (s \o t)[j + Len(s)] = t[j]
  OBVIOUS
<1>5. ToSet(s \o t) \subseteq ToSet(s) \cup ToSet(t)
  BY <1>1, <1>2, <1>3 DEF ToSet
<1>6. ToSet(s) \subseteq ToSet(s \o t)
  BY <1>1, <1>2 DEF ToSet
<1>7. ToSet(t) \subseteq ToSet(s \o t)
  BY <1>1, <1>4 DEF ToSet
<1> QED
  BY <1>1, <1>2, <1>3, <1>5, <1>6, <1>7

\* It holds before the first walk.
LEMMA InitKeeps == Init => IInv
  BY NoneAssumption DEF Init, IInv, Types, PageOK, NoneSkipped, TwiceOnlyIfPushed, Whole, Idle

\* Start keeps it: nothing is shown, and everything is still to come.
LEMMA StartKeeps ==
    ASSUME IInv, NEW p \in PageParams, NEW l \in LimitParams, Start(p, l)
    PROVE  IInv'
<1>1. /\ walk'.at = "page" /\ walk'.page = 1 /\ walk'.limit \in Int /\ walk'.offset = 0
      /\ count' = None /\ rows' = None /\ torn' = {}
  BY AskFacts, FirstFacts DEF Start
<1>2. got' = <<>> /\ stayed' = list /\ entered' = {} /\ left' = {} /\ list' = list
  BY DEF Start
<1>3. list \in SUBSET Rows /\ None \notin Nat
  BY NoneAssumption DEF IInv, Types
<1>4. Types'
  BY <1>1, <1>2, <1>3 DEF Types
<1>5. Shown' = {} /\ OnPage' = {} /\ Reached' = 0
  BY <1>1, <1>2 DEF Shown, OnPage, Reached, ToSet
<1>6. \A x : Pos(list, x) \in Nat
  BY <1>3, PosFacts
<1>7. WalkOK'
  BY <1>1 DEF WalkOK
<1>8. SkipOK' /\ TwiceOK'
  BY <1>1, <1>2, <1>3, <1>5, <1>6 DEF SkipOK, TwiceOK
<1>9. StillOK'
  BY <1>1, <1>2, <1>3, <1>5, <1>6 DEF StillOK, Newest
<1>10. NoneSkipped' /\ TwiceOnlyIfPushed' /\ Whole'
  BY <1>1, <1>2 DEF NoneSkipped, TwiceOnlyIfPushed, Whole
<1> QED
  BY <1>4, <1>7, <1>8, <1>9, <1>10 DEF IInv, PageOK

\* CountRows keeps it, before and after the SELECT.
LEMMA CountKeeps ==
    ASSUME IInv, CountRows
    PROVE  IInv'
<1>1. /\ walk.at = "page" /\ walk.limit > 0 /\ count = None
      /\ count' = Cardinality(Join)
      /\ UNCHANGED <<list, walk, rows, got, stayed, entered, left, torn>>
  BY DEF CountRows
<1>2. Types /\ WalkOK /\ SkipOK /\ TwiceOK /\ StillOK
  BY <1>1 DEF IInv, PageOK
<1>3. /\ count' \in Nat /\ Cardinality(list) <= count' /\ Cardinality(list) \in Nat
      /\ count' = 0 => list = {}
  BY <1>1, <1>2, JoinFacts DEF Types
<1>4. Types'
  BY <1>1, <1>2, <1>3 DEF Types
<1>5. Shown' = Shown /\ OnPage' = OnPage /\ Reached' = Reached /\ Still' = Still
  BY <1>1 DEF Shown, OnPage, Reached, Still
<1>6. \A x : Unmoved(x)' = Unmoved(x) /\ Unpushed(x)' = Unpushed(x)
  BY <1>1 DEF Unmoved, Unpushed
<1>7. WalkOK'
  BY <1>1, <1>2 DEF WalkOK
<1>8. ASSUME NEW x \in stayed, Unmoved(x), x \notin Shown \cup OnPage, rows # None
      PROVE  Reached < count'
  <2>1. Pos(list, x) >= Reached /\ x \in list
    BY <1>2, <1>8 DEF SkipOK, Types
  <2>2. Pos(list, x) < Cardinality(list) /\ Pos(list, x) \in Nat
    BY <1>2, <2>1, PosInList, PosFacts DEF Types
  <2>3. Reached \in Int
    BY <1>2 DEF Reached, WalkOK
  <2> QED
    BY <1>3, <2>1, <2>2, <2>3
<1>9. SkipOK'
  BY <1>1, <1>2, <1>3, <1>5, <1>6, <1>8 DEF SkipOK, Types
<1>10. TwiceOK'
  BY <1>1, <1>2, <1>5, <1>6 DEF TwiceOK
<1>11. StillOK'
  BY <1>1, <1>2, <1>3, <1>5 DEF StillOK
<1>12. NoneSkipped' /\ TwiceOnlyIfPushed' /\ Whole'
  BY <1>1 DEF IInv, NoneSkipped, TwiceOnlyIfPushed, Whole
<1> QED
  BY <1>4, <1>7, <1>9, <1>10, <1>11, <1>12 DEF IInv, PageOK

\* FindRows keeps it: an untied row is on the page exactly if its position is.
LEMMA FindKeeps ==
    ASSUME IInv, FindRows
    PROVE  IInv'
<1>1. /\ walk.at = "page" /\ walk.limit > 0 /\ rows = None
      /\ UNCHANGED <<list, walk, count, got, stayed, entered, left, torn>>
  BY DEF FindRows
<1>2. Types /\ WalkOK /\ SkipOK /\ TwiceOK /\ StillOK
  BY <1>1 DEF IInv, PageOK
<1> DEFINE o == walk.offset
           m == walk.limit
<1>3. o \in Nat /\ m \in Nat /\ list \in SUBSET Rows
  <2>1. walk.page - 1 \in Nat /\ walk.limit \in Nat
    BY <1>1, <1>2 DEF WalkOK
  <2>2. (walk.page - 1) * walk.limit \in Nat
    BY <2>1
  <2> QED
    BY <1>2, <2>1, <2>2 DEF WalkOK, Types
<1>4. PICK s \in SetToSeqs(list) : Newest(s) /\ rows' = Slice(s, o, m)
  BY DEF FindRows
<1> HIDE DEF o, m
<1>5. /\ rows' \in Seq(Rows) /\ ToSet(rows') \subseteq list
      /\ \A i, j \in DOMAIN rows' : i # j => rows'[i] # rows'[j]
      /\ Newest(rows')
      /\ \A x \in list : ~Tied(x) =>
            (x \in ToSet(rows') <=> Pos(list, x) >= o /\ Pos(list, x) < o + m)
  <2> DEFINE r == Slice(s, o, m)
  <2>1. r = Slice(s, o, m) /\ rows' = r
    BY <1>4
  <2> HIDE DEF r
  <2>2. PageOf(list, o, m, r)
    BY <1>3, <1>4, <2>1, SliceFacts
  <2> QED
    BY <2>1, <2>2 DEF PageOf
<1>6. rows' # None
  BY <1>5, NoneAssumption
<1>7. /\ Shown' = Shown /\ OnPage = {} /\ OnPage' = ToSet(rows')
      /\ Reached = o /\ Reached' = o + m /\ Still' = Still
  BY <1>1, <1>6 DEF Shown, OnPage, Reached, Still, o, m
<1>8. \A x : Unmoved(x)' = Unmoved(x) /\ Unpushed(x)' = Unpushed(x)
  BY <1>1 DEF Unmoved, Unpushed
<1>9. Types'
  BY <1>1, <1>2, <1>5 DEF Types
<1>10. WalkOK'
  BY <1>1, <1>2 DEF WalkOK
<1>11. \A x : Pos(list, x) \in Nat
  BY <1>3, PosFacts
<1>12. ASSUME NEW x \in stayed, Unmoved(x)
       PROVE  /\ x \in Shown' \cup OnPage' \/ Pos(list, x) >= o + m
              /\ count # None /\ torn = {} => x \in Shown' \cup OnPage' \/ o + m < count
  <2>1. x \in list /\ ~Tied(x)
    BY <1>2, <1>12 DEF Types, Unmoved
  <2>2. x \in Shown \/ Pos(list, x) >= o
    BY <1>2, <1>7, <1>12 DEF SkipOK
  <2>3. x \in Shown' \cup OnPage' \/ Pos(list, x) >= o + m
    BY <1>3, <1>5, <1>7, <1>11, <2>1, <2>2
  <2>4. count # None /\ torn = {} => Cardinality(list) <= count /\ count \in Nat
    BY <1>1, <1>2 DEF SkipOK, Types
  <2>5. Pos(list, x) < Cardinality(list) /\ Cardinality(list) \in Nat
    BY <1>3, <2>1, PosInList, PosFacts
  <2> QED
    BY <1>3, <1>11, <2>3, <2>4, <2>5
<1>13. SkipOK'
  BY <1>1, <1>2, <1>6, <1>7, <1>8, <1>12 DEF SkipOK
<1>14. ASSUME NEW y \in Shown' \cup OnPage', Unpushed(y) PROVE Pos(list, y) < o + m
  <2>1. CASE y \in Shown
    <3>1. Pos(list, y) < o
      BY <1>2, <1>7, <1>14, <2>1 DEF TwiceOK
    <3> QED
      BY <1>1, <1>3, <1>11, <3>1
  <2>2. CASE y \in ToSet(rows')
    BY <1>5, <1>14, <2>2 DEF Unpushed
  <2> QED
    BY <1>7, <1>14, <2>1, <2>2
<1>15. ASSUME NEW y \in Shown \cap ToSet(rows'), Unpushed(y) PROVE FALSE
  <2>1. Pos(list, y) < o
    BY <1>2, <1>7, <1>15 DEF TwiceOK
  <2>2. Pos(list, y) >= o
    BY <1>5, <1>15 DEF Unpushed
  <2> QED
    BY <1>3, <1>11, <2>1, <2>2
<1>16. TwiceOK'
  BY <1>1, <1>5, <1>7, <1>8, <1>14, <1>15 DEF TwiceOK
<1>17. StillOK'
  <2> SUFFICES ASSUME Still PROVE StillOK'
    BY <1>7 DEF StillOK
  <2>1. /\ Shown = {y \in list : Pos(list, y) < o} /\ Newest(got)
        /\ count # None => Cardinality(list) <= count
    BY <1>2 DEF StillOK, o
  <2>2. OnPage' = {y \in list : Pos(list, y) >= o /\ Pos(list, y) < o + m}
    BY <1>5, <1>7 DEF Still
  <2>3. walk'.offset = o
    BY <1>1 DEF o
  <2> QED
    BY <1>1, <1>5, <1>7, <2>1, <2>2, <2>3 DEF StillOK
<1>18. NoneSkipped' /\ TwiceOnlyIfPushed' /\ Whole'
  BY <1>1 DEF IInv, NoneSkipped, TwiceOnlyIfPushed, Whole
<1> QED
  BY <1>9, <1>10, <1>13, <1>16, <1>17, <1>18 DEF IInv, PageOK

\* A row that enters moves those below it one place down.
LEMMA EnterKeeps ==
    ASSUME IInv, walk.at = "page", NEW x \in Rows, Enter(x)
    PROVE  IInv'
<1>1. /\ list' = list \cup {x} /\ entered' = entered \cup {x}
      /\ torn' = IF count # None /\ rows = None THEN torn \cup {x} ELSE torn
      /\ UNCHANGED <<walk, count, rows, got, stayed, left>>
  BY DEF Enter
<1>2. Types /\ WalkOK /\ SkipOK /\ TwiceOK
  BY DEF IInv, PageOK
<1>3. Types'
  BY <1>1, <1>2 DEF Types
<1>4. list \in SUBSET Rows /\ list' \in SUBSET Rows
  BY <1>2, <1>3 DEF Types
<1>5. Shown' = Shown /\ OnPage' = OnPage /\ Reached' = Reached /\ Reached \in Int
  BY <1>1, <1>2 DEF Shown, OnPage, Reached, WalkOK
<1>6. \A y : /\ Pos(list, y) \in Nat /\ Pos(list', y) \in Nat
             /\ Pos(list, y) <= Pos(list', y)
             /\ Unmoved(y)' = Unmoved(y)
  <2> TAKE y
  <2>1. Above(list, y) \subseteq Above(list', y)
    BY <1>1 DEF Above
  <2>2. IsFiniteSet(Above(list', y)) /\ Pos(list, y) \in Nat /\ Pos(list', y) \in Nat
    BY <1>4, PosFacts
  <2>3. Pos(list, y) <= Pos(list', y)
    BY <2>1, <2>2, FS_Subset DEF Pos
  <2>4. Unmoved(y)' = Unmoved(y)
    BY <1>1 DEF Unmoved
  <2> QED
    BY <2>2, <2>3, <2>4
<1>7. ASSUME NEW y, Unpushed(y)' PROVE Unpushed(y) /\ Pos(list', y) = Pos(list, y)
  <2>1. x \notin Newer(y) /\ Unpushed(y)
    BY <1>1, <1>7 DEF Unpushed
  <2>2. Above(list', y) = Above(list, y)
    BY <1>1, <2>1 DEF Above, Newer
  <2> QED
    BY <2>1, <2>2 DEF Pos
<1>8. WalkOK'
  BY <1>1, <1>2 DEF WalkOK
<1>9. SkipOK'
  <2>1. \A y \in stayed : Unmoved(y) => y \in Shown \cup OnPage \/ Pos(list', y) >= Reached
    BY <1>2, <1>5, <1>6 DEF SkipOK
  <2>2. ~(count # None /\ rows = None /\ torn' = {})
    BY <1>1
  <2>3. rows # None => torn' = torn
    BY <1>1
  <2> QED
    BY <1>1, <1>2, <1>5, <1>6, <2>1, <2>2, <2>3 DEF SkipOK
<1>10. TwiceOK'
  BY <1>1, <1>2, <1>5, <1>7 DEF TwiceOK
<1>11. StillOK'
  BY <1>1 DEF StillOK, Still
<1>12. NoneSkipped' /\ Whole'
  BY <1>1 DEF NoneSkipped, Whole
<1>13. TwiceOnlyIfPushed'
  BY <1>1 DEF IInv, TwiceOnlyIfPushed
<1> QED
  BY <1>3, <1>8, <1>9, <1>10, <1>11, <1>12, <1>13 DEF IInv, PageOK

\* A row that leaves moves those below it one place up.
LEMMA LeaveKeeps ==
    ASSUME IInv, walk.at = "page", NEW x \in Rows, Leave(x)
    PROVE  IInv'
<1>1. /\ list' = list \ {x} /\ stayed' = stayed \ {x} /\ left' = left \cup {x}
      /\ UNCHANGED <<walk, count, rows, got, entered, torn>>
  BY DEF Leave
<1>2. Types /\ WalkOK /\ SkipOK /\ TwiceOK
  BY DEF IInv, PageOK
<1>3. Types'
  BY <1>1, <1>2 DEF Types
<1>4. list \in SUBSET Rows /\ list' \in SUBSET Rows
  BY <1>2, <1>3 DEF Types
<1>5. Shown' = Shown /\ OnPage' = OnPage /\ Reached' = Reached /\ Reached \in Int
  BY <1>1, <1>2 DEF Shown, OnPage, Reached, WalkOK
<1>6. \A y : /\ Pos(list, y) \in Nat /\ Pos(list', y) \in Nat
             /\ Pos(list', y) <= Pos(list, y)
             /\ Unpushed(y)' = Unpushed(y)
  <2> TAKE y
  <2>1. Above(list', y) \subseteq Above(list, y)
    BY <1>1 DEF Above
  <2>2. IsFiniteSet(Above(list, y)) /\ Pos(list, y) \in Nat /\ Pos(list', y) \in Nat
    BY <1>4, PosFacts
  <2>3. Pos(list', y) <= Pos(list, y)
    BY <2>1, <2>2, FS_Subset DEF Pos
  <2>4. Unpushed(y)' = Unpushed(y)
    BY <1>1 DEF Unpushed
  <2> QED
    BY <2>2, <2>3, <2>4
<1>7. ASSUME NEW y, Unmoved(y)' PROVE Unmoved(y) /\ Pos(list', y) = Pos(list, y)
  <2>1. x \notin Newer(y) /\ Unmoved(y)
    BY <1>1, <1>7 DEF Unmoved
  <2>2. Above(list', y) = Above(list, y)
    BY <1>1, <2>1 DEF Above, Newer
  <2> QED
    BY <2>1, <2>2 DEF Pos
<1>8. WalkOK'
  BY <1>1, <1>2 DEF WalkOK
<1>9. SkipOK'
  <2>1. /\ IsFiniteSet(list) /\ Cardinality(list) \in Nat /\ Cardinality(list') \in Nat
        /\ Cardinality(list') <= Cardinality(list)
    BY <1>1, <1>4, PosFacts, FS_Subset
  <2>2. count # None /\ rows = None /\ torn = {} => Cardinality(list') <= count
    BY <1>2, <2>1 DEF SkipOK, Types
  <2> QED
    BY <1>1, <1>2, <1>5, <1>7, <2>2 DEF SkipOK
<1>10. TwiceOK'
  <2>1. \A y \in Shown \cup OnPage : Unpushed(y) => Pos(list', y) < Reached
    BY <1>2, <1>5, <1>6 DEF TwiceOK
  <2> QED
    BY <1>1, <1>2, <1>5, <1>6, <2>1 DEF TwiceOK
<1>11. StillOK'
  BY <1>1 DEF StillOK, Still
<1>12. NoneSkipped' /\ Whole'
  BY <1>1 DEF NoneSkipped, Whole
<1>13. TwiceOnlyIfPushed'
  BY <1>1 DEF IInv, TwiceOnlyIfPushed
<1> QED
  BY <1>3, <1>8, <1>9, <1>10, <1>11, <1>12, <1>13 DEF IInv, PageOK

\* A page that fails ends the walk.
LEMMA FailKeeps ==
    ASSUME IInv, Fail
    PROVE  IInv'
<1>1. walk'.at = "failed" /\ UNCHANGED <<list, count, rows, got, stayed, entered, left, torn>>
  BY DEF Fail
<1> QED
  BY <1>1 DEF IInv, Types, PageOK, NoneSkipped, TwiceOnlyIfPushed, Whole

\* Pages that follow each other in the list are in its order together.
LEMMA NewestConcat ==
    ASSUME NEW l \in SUBSET Rows, NEW s \in Seq(Rows), NEW t \in Seq(Rows), NEW o \in Int,
           Newest(s), Newest(t),
           \A x \in ToSet(s) : Pos(l, x) < o, \A x \in ToSet(t) : Pos(l, x) >= o
    PROVE  Newest(s \o t)
<1> DEFINE n == Len(s)
           u == s \o t
<1>1. /\ DOMAIN u = 1 .. n + Len(t) /\ DOMAIN s = 1 .. n /\ DOMAIN t = 1 .. Len(t)
      /\ n \in Nat /\ Len(t) \in Nat
      /\ \A i \in 1 .. n : u[i] = s[i]
      /\ \A i \in 1 .. n + Len(t) : i \notin 1 .. n =>
            i - n \in 1 .. Len(t) /\ u[i] = t[i - n]
  BY ConcatFacts
<1> HIDE DEF n, u
<1> SUFFICES ASSUME NEW i \in 1 .. n + Len(t), NEW j \in 1 .. n + Len(t), i < j
             PROVE  Created[u[i]] >= Created[u[j]]
  BY <1>1 DEF Newest, u
<1>2. CASE i \in 1 .. n /\ j \in 1 .. n
  BY <1>1, <1>2 DEF Newest
<1>3. CASE i \notin 1 .. n /\ j \notin 1 .. n
  BY <1>1, <1>3 DEF Newest
<1>4. CASE i \in 1 .. n /\ j \notin 1 .. n
  <2>1. u[i] = s[i] /\ u[j] = t[j - n] /\ j - n \in 1 .. Len(t)
    BY <1>1, <1>4
  <2>2. u[i] \in ToSet(s) /\ u[j] \in ToSet(t)
    BY <1>1, <1>4, <2>1 DEF ToSet
  <2>3. u[i] \in Rows /\ u[j] \in Rows
    BY <1>1, <1>4, <2>1
  <2>4. Pos(l, u[i]) < o /\ Pos(l, u[j]) >= o /\ Pos(l, u[i]) \in Nat /\ Pos(l, u[j]) \in Nat
    BY Zenon, <2>2, PosFacts
  <2>5. Pos(l, u[i]) < Pos(l, u[j])
    BY <2>4
  <2> QED
    BY <2>3, <2>5, PosOrder
<1> QED
  BY <1>1, <1>2, <1>3, <1>4

\* A page adds a row that was shown before only if the row was pushed down.
LEMMA TwiceConcat ==
    ASSUME NEW s \in Seq(Rows), NEW t \in Seq(Rows), NEW e,
           \A i, j \in DOMAIN s :
               i # j /\ s[i] = s[j] => Newer(s[i]) \cap e # {} \/ Tied(s[i]),
           \A i, j \in DOMAIN t : i # j => t[i] # t[j],
           \A y \in ToSet(s) \cap ToSet(t) : Newer(y) \cap e # {} \/ Tied(y)
    PROVE  \A i, j \in DOMAIN (s \o t) :
               i # j /\ (s \o t)[i] = (s \o t)[j] =>
                   Newer((s \o t)[i]) \cap e # {} \/ Tied((s \o t)[i])
<1> DEFINE n == Len(s)
           u == s \o t
           P(y) == Newer(y) \cap e # {} \/ Tied(y)
<1>1. /\ DOMAIN u = 1 .. n + Len(t) /\ DOMAIN s = 1 .. n /\ DOMAIN t = 1 .. Len(t)
      /\ n \in Nat /\ Len(t) \in Nat
      /\ \A i \in 1 .. n : u[i] = s[i]
      /\ \A i \in 1 .. n + Len(t) : i \notin 1 .. n =>
            i - n \in 1 .. Len(t) /\ u[i] = t[i - n]
  BY ConcatFacts
<1>2. /\ \A i, j \in 1 .. n : i # j /\ s[i] = s[j] => P(s[i])
      /\ \A i, j \in 1 .. Len(t) : i # j => t[i] # t[j]
      /\ \A i \in 1 .. n, j \in 1 .. Len(t) : s[i] = t[j] => P(s[i])
  BY <1>1 DEF ToSet
<1>3. ASSUME NEW i \in 1 .. n + Len(t), NEW j \in 1 .. n + Len(t), i # j, u[i] = u[j]
      PROVE  P(u[i])
  <2> HIDE DEF n, u, P
  <2>1. CASE i \in 1 .. n /\ j \in 1 .. n
    BY <1>1, <1>2, <1>3, <2>1
  <2>2. CASE i \notin 1 .. n /\ j \notin 1 .. n
    <3>1. i - n # j - n
      BY <1>1, <1>3
    <3> QED
      BY <1>1, <1>2, <1>3, <2>2, <3>1
  <2>3. CASE i \in 1 .. n /\ j \notin 1 .. n
    BY <1>1, <1>2, <1>3, <2>3
  <2>4. CASE i \notin 1 .. n /\ j \in 1 .. n
    BY <1>1, <1>2, <1>3, <2>4
  <2> QED
    BY <2>1, <2>2, <2>3, <2>4
<1> QED
  BY <1>1, <1>3

\* Answer keeps it: the next page begins where this one ended, and there is
\* none only if the COUNT says that nothing is left.
LEMMA AnswerKeeps ==
    ASSUME IInv, Answer
    PROVE  IInv'
<1> DEFINE r == IF count = 0 THEN <<>> ELSE rows
           more == walk.page < totalPages(count, walk.limit)
           o == walk.offset
           m == walk.limit
<1>1. /\ walk.at = "page" /\ count # None /\ rows # None
      /\ got' = got \o r
      /\ UNCHANGED <<list, stayed, entered, left>>
  BY DEF Answer
<1>2. Types /\ WalkOK /\ SkipOK /\ TwiceOK /\ StillOK /\ TwiceOnlyIfPushed
  BY <1>1 DEF IInv, PageOK
<1>3. /\ list \in SUBSET Rows /\ stayed \subseteq list /\ count \in Nat
      /\ rows \in Seq(Rows) /\ got \in Seq(Rows) /\ r \in Seq(Rows)
  BY <1>1, <1>2 DEF Types
<1>4. /\ walk.page \in Nat \ {0} /\ m \in Nat \ {0} /\ o = (walk.page - 1) * m
      /\ walk.page * m = o + m /\ o \in Int
  <2>1. walk.page \in Nat \ {0} /\ m \in Nat \ {0} /\ o = (walk.page - 1) * m
    BY <1>1, <1>2 DEF WalkOK
  <2> HIDE DEF m
  <2> QED
    BY <2>1
<1>5. /\ Shown = ToSet(got) /\ OnPage = ToSet(rows) /\ Reached = o + m
  BY <1>1 DEF Shown, OnPage, Reached
<1>6. /\ got' \in Seq(Rows) /\ ToSet(got') = ToSet(got) \cup ToSet(r)
      /\ Shown' = ToSet(got')
  BY Zenon, <1>1, <1>3, ConcatFacts DEF Shown
<1>7. TwiceOnlyIfPushed'
  <2>1. \A i, j \in DOMAIN r : i # j => r[i] # r[j]
    BY <1>1, <1>2 DEF TwiceOK
  <2>2. ToSet(r) \subseteq OnPage
    BY <1>5 DEF ToSet
  <2>3. \A y \in ToSet(got) \cap ToSet(r) : Newer(y) \cap entered # {} \/ Tied(y)
    BY <1>1, <1>2, <1>5, <2>2 DEF TwiceOK, Unpushed
  <2>4. \A i, j \in DOMAIN got :
            i # j /\ got[i] = got[j] => Newer(got[i]) \cap entered # {} \/ Tied(got[i])
    BY <1>2 DEF TwiceOnlyIfPushed
  <2> HIDE DEF r
  <2>5. \A i, j \in DOMAIN (got \o r) :
            i # j /\ (got \o r)[i] = (got \o r)[j] =>
                Newer((got \o r)[i]) \cap entered # {} \/ Tied((got \o r)[i])
    BY Zenon, <1>3, <2>1, <2>3, <2>4, TwiceConcat
  <2> QED
    BY <1>1, <2>5 DEF TwiceOnlyIfPushed
<1>8. CASE more
  <2>1. count # 0
    BY <1>4, <1>8, NoPages
  <2>2. r = rows
    BY <2>1
  <2>3. Ask(walk.page + 1, walk.limit)
    BY <1>8 DEF Answer
  <2>4. /\ walk'.at = "page" /\ walk'.page = walk.page + 1 /\ walk'.limit = m
        /\ walk'.offset = o + m
        /\ count' = None /\ rows' = None /\ torn' = {}
    BY <1>4, <2>3, AskFacts, LaterFacts
  <2> HIDE DEF more, r, m, o
  <2>5. Types'
    BY <1>1, <1>2, <1>6, <2>4 DEF Types
  <2>6. WalkOK'
    <3>1. walk.page + 1 - 1 = walk.page /\ walk.page * m = o + m /\ m > 0 /\ m \in Int
          /\ walk.page \in Int /\ walk.page + 1 \in Nat \ {0}
      BY <1>4
    <3>2. walk'.page - 1 = walk.page
      BY <2>4, <3>1
    <3>3. walk'.offset = (walk'.page - 1) * walk'.limit
      BY <2>4, <3>1, <3>2, Zenon
    <3>4. walk'.page \in Nat \ {0} /\ walk'.limit \in Int /\ walk'.limit > 0
      BY <2>4, <3>1
    <3> QED
      BY <3>3, <3>4, Zenon DEF WalkOK
  <2>7. Shown' = Shown \cup OnPage /\ OnPage' = {} /\ Reached' = Reached
    BY <1>5, <1>6, <2>2, <2>4 DEF OnPage, Reached
  <2>8. \A x : Unmoved(x)' = Unmoved(x) /\ Unpushed(x)' = Unpushed(x)
    BY <1>1 DEF Unmoved, Unpushed
  <2>9. SkipOK'
    BY <1>1, <1>2, <2>4, <2>7, <2>8, NoneAssumption DEF SkipOK
  <2>10. TwiceOK'
    BY <1>1, <1>2, <2>4, <2>7, <2>8 DEF TwiceOK
  <2>11. StillOK'
    <3> SUFFICES ASSUME Still PROVE StillOK'
      BY <1>1 DEF StillOK, Still
    <3>1. /\ Newest(got) /\ Newest(rows)
          /\ Shown = {y \in list : Pos(list, y) < o}
          /\ OnPage = {y \in list : Pos(list, y) >= o /\ Pos(list, y) < o + m}
      BY <1>1, <1>2, <1>5 DEF StillOK, o
    <3>2. Shown' = {y \in list : Pos(list, y) < o + m}
      <4>1. \A y : Pos(list, y) \in Nat
        BY Zenon, <1>3, PosFacts
      <4> QED
        BY <1>4, <2>7, <3>1, <4>1
    <3>3. Newest(got')
      BY Zenon, <1>1, <1>3, <1>4, <1>5, <2>2, <3>1, NewestConcat
    <3> QED
      BY <1>1, <2>4, <3>2, <3>3 DEF StillOK
  <2>12. NoneSkipped' /\ Whole'
    BY <2>4 DEF NoneSkipped, Whole
  <2>13. TwiceOnlyIfPushed'
    BY <1>7
  <2> QED
    BY <2>4, <2>5, <2>6, <2>9, <2>10, <2>11, <2>12, <2>13 DEF IInv, PageOK
<1>9. CASE ~more
  <2>1. walk'.at = "done" /\ UNCHANGED <<count, rows, torn>>
    BY <1>9 DEF Answer
  <2>2. count <= o + m
    BY Zenon, <1>3, <1>4, <1>9, LastPage
  <2> HIDE DEF more, r, m, o
  <2>3. Types'
    BY <1>1, <1>2, <1>6, <2>1 DEF Types
  <2>4. TwiceOnlyIfPushed'
    BY <1>7
  <2>5. NoneSkipped'
    <3> SUFFICES ASSUME NEW x \in stayed, Newer(x) \cap left = {}, torn = {}, ~Tied(x)
                 PROVE  Contains(got', x)
      BY <1>1, <2>1 DEF NoneSkipped
    <3>1. count # 0 /\ r = rows
      BY <1>2 DEF SkipOK, r
    <3>2. x \in Shown \cup OnPage \/ Reached < count
      BY <1>1, <1>2 DEF SkipOK, Unmoved
    <3>3. x \in ToSet(got')
      BY <1>3, <1>4, <1>5, <1>6, <2>2, <3>1, <3>2
    <3>4. DOMAIN got' = 1 .. Len(got')
      BY <1>6
    <3> QED
      BY <3>3, <3>4 DEF Contains, ToSet
  <2>6. Whole'
    <3> SUFFICES ASSUME Still
                 PROVE  Newest(got') /\ Len(got') = Cardinality(list) /\ ToSet(got') = list
      BY <1>1, <2>1 DEF Whole, Still
    <3>1. /\ Newest(got) /\ Newest(rows)
          /\ Shown = {y \in list : Pos(list, y) < o}
          /\ OnPage = {y \in list : Pos(list, y) >= o /\ Pos(list, y) < o + m}
          /\ Cardinality(list) <= count
      BY <1>1, <1>2, <1>5 DEF StillOK, o
    <3>2. \A y \in list : Pos(list, y) \in Nat /\ Pos(list, y) < o + m
      <4>1. \A y \in list : Pos(list, y) \in Nat /\ Pos(list, y) < Cardinality(list)
                            /\ Cardinality(list) \in Nat
        BY <1>3, PosFacts, PosInList
      <4> QED
        BY <1>3, <1>4, <2>2, <3>1, <4>1
    <3>3. ToSet(got') = list
      <4>1. CASE count = 0
        <5>1. list = {}
          <6>1. Cardinality(list) = 0 /\ IsFiniteSet(list)
            BY <1>3, <3>1, <4>1, PosFacts
          <6> QED
            BY <6>1, FS_EmptySet
        <5>2. ToSet(r) = {}
          BY <4>1 DEF r, ToSet
        <5> QED
          BY <1>5, <1>6, <3>1, <5>1, <5>2
      <4>2. CASE count # 0
        <5>1. r = rows
          BY <4>2 DEF r
        <5> QED
          <6>1. Shown \cup OnPage = list
            BY <1>4, <3>1, <3>2
          <6> QED
            BY <1>5, <1>6, <5>1, <6>1
      <4> QED
        BY <4>1, <4>2
    <3>4. Newest(got')
      <4>1. CASE count = 0
        <5>1. r = <<>>
          BY <4>1 DEF r
        <5>2. got' = got
          BY <1>1, <1>3, <5>1
        <5> QED
          BY <3>1, <5>2
      <4>2. CASE count # 0
        <5>1. r = rows
          BY <4>2 DEF r
        <5> QED
          BY Zenon, <1>1, <1>3, <1>4, <1>5, <3>1, <5>1, NewestConcat
      <4> QED
        BY <4>1, <4>2
    <3>5. Len(got') = Cardinality(list)
      <4>1. DOMAIN got' = 1 .. Len(got') /\ Len(got') \in Nat /\ got' \in [1 .. Len(got') -> Rows]
        BY <1>6, LenProperties, ElementOfSeq
      <4>2. \A i \in DOMAIN got' : got'[i] \in list
        BY <3>3 DEF ToSet
      <4>3. \A i, j \in DOMAIN got' : i # j => got'[i] # got'[j]
        BY <1>1, <2>4, <4>2 DEF TwiceOnlyIfPushed, Still
      <4>4. {got'[i] : i \in 1 .. Len(got')} = list
        BY <3>3, <4>1 DEF ToSet
      <4>5. Cardinality({got'[i] : i \in 1 .. Len(got')}) = Len(got')
        <5> DEFINE g == got'
                   n == Len(got')
        <5>1. n \in Nat /\ g \in [1 .. n -> Rows] /\ \A i, j \in 1 .. n : i # j => g[i] # g[j]
          BY <4>1, <4>3
        <5> HIDE DEF g, n
        <5>2. Cardinality({g[i] : i \in 1 .. n}) = n
          BY Zenon, <5>1, DistinctLen
        <5> QED
          BY <5>2 DEF g, n
      <4> QED
        BY Zenon, <4>4, <4>5
    <3> QED
      BY <3>3, <3>4, <3>5
  <2> QED
    BY <2>1, <2>3, <2>4, <2>5, <2>6 DEF IInv, PageOK
<1> QED
  BY <1>8, <1>9

\* Every step keeps it.
LEMMA StepKeeps == IInv /\ [Next]_vars => IInv'
<1> SUFFICES ASSUME IInv, [Next]_vars PROVE IInv'
  OBVIOUS
<1>1. CASE UNCHANGED vars
  <2>1. UNCHANGED <<list, walk, count, rows, got, stayed, entered, left, torn>>
    BY <1>1 DEF vars
  <2>2. Types' /\ NoneSkipped' /\ TwiceOnlyIfPushed' /\ Whole'
    BY <2>1 DEF IInv, Types, NoneSkipped, TwiceOnlyIfPushed, Whole
  <2>3. PageOK'
    BY <2>1 DEF IInv, PageOK, WalkOK, SkipOK, TwiceOK, StillOK, Still, Shown, OnPage, Reached,
                Unmoved, Unpushed
  <2> QED
    BY <2>2, <2>3 DEF IInv
<1>2. CASE \E p \in PageParams, l \in LimitParams : Start(p, l)
  BY <1>2, StartKeeps
<1>3. CASE CountRows \/ FindRows \/ Answer \/ Fail
  BY <1>3, CountKeeps, FindKeeps, AnswerKeeps, FailKeeps
<1>4. CASE walk.at = "page" /\ \E x \in Rows : Enter(x) \/ Leave(x)
  BY <1>4, EnterKeeps, LeaveKeeps
<1> QED
  BY <1>1, <1>2, <1>3, <1>4 DEF Next

\* The inductive invariant holds throughout.
LEMMA InvariantHolds == Spec => []IInv
  BY InitKeeps, StepKeeps, PTL DEF Spec

\* For any rows, creation times, lines per order, limits and first pages: a
\* client that asks for page after page up to totalPages has seen every row
\* that stayed, unless a newer row left, rows entered between the last COUNT
\* and SELECT, or another row has the same time.
THEOREM NoRowSkipped == Spec => []NoneSkipped
<1>1. IInv => NoneSkipped
  BY DEF IInv
<1> QED
  BY <1>1, InvariantHolds, PTL

\* For any rows, times, limits and first pages: paginate and findAndCountAll
\* show a row twice only if a newer row entered the list during the walk or
\* another row has the same time.
THEOREM NoRowTwice == Spec => []TwiceOnlyIfPushed
<1>1. IInv => TwiceOnlyIfPushed
  BY DEF IInv
<1> QED
  BY <1>1, InvariantHolds, PTL

\* For any rows, times, limits and first pages: the pages of a list that does
\* not change, put together, are the list, newest first, every row once.
THEOREM PagesMakeTheList == Spec => []PagesAreTheList
<1>1. IInv => PagesAreTheList
  <2> SUFFICES ASSUME IInv PROVE PagesAreTheList
    OBVIOUS
  <2>1. walk.at = "page" => walk.page \in Nat \ {0} /\ (rows # None => walk.offset \in Nat)
    <3> SUFFICES ASSUME walk.at = "page"
                 PROVE  walk.page \in Nat \ {0} /\ (rows # None => walk.offset \in Nat)
      OBVIOUS
    <3>1. /\ walk.page \in Nat \ {0} /\ walk.offset = (walk.page - 1) * walk.limit
          /\ rows # None => walk.limit \in Nat
      BY DEF IInv, PageOK, WalkOK
    <3>2. ASSUME NEW a \in Nat, NEW b \in Nat PROVE a * b \in Nat
      OBVIOUS
    <3> QED
      BY <3>1, <3>2
  <2>2. TypeOK
    BY <2>1 DEF IInv, Types, TypeOK
  <2> QED
    BY <2>2 DEF IInv, Whole, PagesAreTheList
<1> QED
  BY <1>1, InvariantHolds, PTL
=============================================================================
