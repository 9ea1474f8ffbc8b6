---------------------------- MODULE CacheProofs ----------------------------
(***************************************************************************)
(* The cache, from the handlers that use it down to the hash table that    *)
(* holds it.  First FreshUnlessRaced and OwnerOnly of OrderCache, for any  *)
(* orders, readers, writers and number of changes; then FindsMembers,      *)
(* ScanGivesAll and ScanAdvances of RedisDict, for any hashes, any width   *)
(* of a cursor and any thresholds of a resize.                             *)
(***************************************************************************)
EXTENDS OrderCache, RedisDict, FiniteSetTheorems, WellFoundedInduction, TLAPS

\* A transaction that has run its last hook left no key, or one that is counted
\* as raced: nothing but its commit separates it from a change of the order.
ClearedBeforeCommit ==
    \A w \in Writers : writer[w].pc = "commit" =>
        cache[writer[w].o] = None \/ writer[w].o \in raced

\* Whoever is about to store and answer with an order has passed the 403.
ReadersOwn == \A r \in Readers : reader[r].pc = "set" => reader[r].c = Owner[reader[r].o]

IInv == TypeOK /\ ClearedBeforeCommit /\ FreshUnlessRaced /\ ReadersOwn /\ OwnerOnly

-----------------------------------------------------------------------------
Finding == [pc : {"find"}, o : Orders, c : Customers]
Setting == [pc : {"set"}, o : Orders, c : Customers, copy : Copies]
Clearing == [pc : {"clear"}, o : Orders, op : {"save"}]
Writing == [pc : {"write", "again", "commit"}, o : Orders, op : DOMAIN Needs]

\* What the place of a reader or a writer says about its other fields.
LEMMA PlaceFacts ==
    ASSUME TypeOK
    PROVE  /\ \A r \in Readers : /\ reader[r].pc = "find" => reader[r] \in Finding
                                 /\ reader[r].pc = "set" => reader[r] \in Setting
           /\ \A w \in Writers : /\ writer[w].pc = "clear" => writer[w] \in Clearing
                                 /\ writer[w].pc \in {"write", "again", "commit"} =>
                                        writer[w] \in Writing
           /\ Idle.pc = "idle"
BY DEF TypeOK, Idle, Finding, Setting, Clearing, Writing

\* The writers of the model need a row in one of its three states.
LEMMA NeedsFacts == DOMAIN Needs = {"create", "save", "delete", "restore"}
BY DEF Needs

\* A committed change of an order's own columns, within the bound.
LEMMA ChangeFacts ==
    ASSUME TypeOK, NEW o \in Orders, content[o].own < MaxVersion
    PROVE  /\ Change(o) \in [Orders -> Copies]
           /\ \A p \in Orders : p # o => Change(o)[p] = content[p]
<1>1. content[o] \in Copies
  BY DEF TypeOK
<1>2. [content[o] EXCEPT !.own = @ + 1] \in Copies
  BY <1>1, BoundAssumption DEF Copies
<1>3. QED
  BY <1>2 DEF Change, TypeOK

\* Every step keeps every variable in its type.
LEMMA TypeStep == TypeOK /\ [Next]_vars => TypeOK'
<1> SUFFICES ASSUME TypeOK, [Next]_vars
             PROVE  TypeOK'
  OBVIOUS
<1>1. ASSUME NEW r \in Readers, NEW c \in Customers, NEW o \in Orders, Get(r, c, o)
      PROVE  TypeOK'
  BY <1>1 DEF TypeOK, Get
<1>2. ASSUME NEW r \in Readers, Find(r)
      PROVE  TypeOK'
  <2>1. reader[r] \in Finding
    BY <1>2, PlaceFacts DEF Find
  <2>2. QED
    BY <1>2, <2>1 DEF TypeOK, Find, Finding
<1>3. ASSUME NEW r \in Readers, Set(r)
      PROVE  TypeOK'
  <2>1. reader[r] \in Setting
    BY <1>3, PlaceFacts DEF Set
  <2>2. QED
    BY <1>3, <2>1 DEF TypeOK, Set, Setting
<1>4. ASSUME NEW r \in Readers, FailRead(r)
      PROVE  TypeOK'
  BY <1>4 DEF TypeOK, FailRead
<1>5. ASSUME NEW w \in Writers, NEW o \in Orders, NEW op \in DOMAIN Needs, Begin(w, o, op)
      PROVE  TypeOK'
  BY <1>5 DEF TypeOK, Begin, Go
<1>6. ASSUME NEW w \in Writers, WriteStep(w)
      PROVE  TypeOK'
  <2>1. ASSUME NEW o \in Orders, invalidateOrderCache(o)
        PROVE  /\ cache' \in [Orders -> Copies \cup {None}]
               /\ ttl' \subseteq Orders /\ raced' \subseteq Orders
    BY <2>1 DEF TypeOK, invalidateOrderCache
  <2>2. CASE Save(w)
    <3>1. writer[w] \in Writing
      BY <2>2, PlaceFacts DEF Save
    <3>2. QED
      BY <2>2, <3>1, ChangeFacts DEF TypeOK, Save, Go, Writing
  <2>3. CASE AfterUpdate(w)
    <3>1. writer[w] \in Clearing
      BY <2>3, PlaceFacts DEF AfterUpdate
    <3>2. QED
      BY <2>1, <2>3, <3>1 DEF TypeOK, AfterUpdate, Clearing
  <2>4. CASE FirstWrite(w)
    <3>1. writer[w] \in Writing
      BY <2>4, PlaceFacts DEF FirstWrite
    <3>2. QED
      BY <2>1, <2>4, <3>1, NeedsFacts DEF TypeOK, FirstWrite, Go, Writing
  <2>5. CASE SecondWrite(w)
    <3>1. writer[w] \in Writing
      BY <2>5, PlaceFacts DEF SecondWrite
    <3>2. QED
      BY <2>1, <2>5, <3>1 DEF TypeOK, SecondWrite, Go, Writing
  <2>6. CASE Commit(w)
    <3>1. writer[w] \in Writing
      BY <2>6, PlaceFacts DEF Commit
    <3>2. QED
      BY <2>6, <3>1, ChangeFacts DEF TypeOK, Commit, Writing
  <2>7. CASE Rollback(w)
    BY <2>7 DEF TypeOK, Rollback
  <2>8. QED
    BY <1>6, <2>2, <2>3, <2>4, <2>5, <2>6, <2>7 DEF WriteStep
<1>7. ASSUME NEW o \in Orders, Expire(o)
      PROVE  TypeOK'
  BY <1>7 DEF TypeOK, Expire
<1>8. ASSUME NEW o \in Orders, ChangeNested(o)
      PROVE  TypeOK'
  <2>1. content[o] \in Copies
    BY DEF TypeOK
  <2>2. [content[o] EXCEPT !.nested = @ + 1] \in Copies
    BY <1>8, <2>1, BoundAssumption DEF ChangeNested, Copies
  <2>3. QED
    BY <1>8, <2>2 DEF TypeOK, ChangeNested
<1>9. CASE UNCHANGED vars
  BY <1>9 DEF TypeOK, vars
<1>10. QED
  BY <1>1, <1>2, <1>3, <1>4, <1>5, <1>6, <1>7, <1>8, <1>9 DEF Next, ReadStep

-----------------------------------------------------------------------------
OtherInv == ClearedBeforeCommit /\ FreshUnlessRaced /\ ReadersOwn /\ OwnerOnly

\* Steps of a reader: only Set stores a copy, and it counts the late and the
\* early ones as raced.
LEMMA ReaderStep ==
    ASSUME TypeOK, OtherInv, NEW r \in Readers,
           ReadStep(r) \/ \E c \in Customers, o \in Orders : Get(r, c, o)
    PROVE  OtherInv'
<1> USE DEF OtherInv
<1>1. ASSUME NEW c \in Customers, NEW o \in Orders, Get(r, c, o)
      PROVE  OtherInv'
  <2>1. UNCHANGED <<row, content, cache, writer, raced>>
    BY <1>1 DEF Get
  <2>2. ClearedBeforeCommit' /\ FreshUnlessRaced'
    BY <2>1 DEF ClearedBeforeCommit, FreshUnlessRaced, At
  <2>3. ReadersOwn'
    BY <1>1 DEF Get, ReadersOwn, TypeOK
  <2>4. OwnerOnly'
    BY <1>1 DEF Get, OwnerOnly
  <2>5. QED
    BY <2>2, <2>3, <2>4
<1>2. ASSUME Find(r) \/ FailRead(r)
      PROVE  OtherInv'
  <2>1. UNCHANGED <<row, content, cache, writer, raced, shown>>
    BY <1>2 DEF Find, FailRead
  <2>2. ClearedBeforeCommit' /\ FreshUnlessRaced' /\ OwnerOnly'
    BY <2>1 DEF ClearedBeforeCommit, FreshUnlessRaced, At, OwnerOnly
  <2>3. ReadersOwn'
    BY <1>2, PlaceFacts DEF Find, FailRead, ReadersOwn, TypeOK
  <2>4. QED
    BY <2>2, <2>3
<1>3. ASSUME Set(r)
      PROVE  OtherInv'
  <2> DEFINE o == reader[r].o
  <2>1. /\ reader[r] \in Setting
        /\ UNCHANGED <<row, content, writer>>
        /\ shown' = shown \cup {<<reader[r].c, o>>}
        /\ reader' = [reader EXCEPT ![r] = Idle]
    BY <1>3, PlaceFacts DEF Set
  <2>2. o \in Orders /\ reader[r].pc = "set" /\ reader[r].c \in Customers
    BY <1>3, <2>1 DEF Setting, Set
  <2>3. /\ \A p \in Orders : p # o => cache'[p] = cache[p] /\ (p \in raced' <=> p \in raced)
        /\ cache'[o] = reader[r].copy
        /\ o \notin raced' => /\ row[o] = "live" /\ reader[r].copy.own = content[o].own
                              /\ ~At(o, {"commit"})
    BY <1>3, <2>2 DEF Set, TypeOK
  <2>4. ClearedBeforeCommit'
    BY <2>1, <2>2, <2>3, PlaceFacts DEF ClearedBeforeCommit, At, Writing
  <2>5. FreshUnlessRaced'
    BY <2>1, <2>2, <2>3 DEF FreshUnlessRaced, At
  <2>6. ReadersOwn'
    BY <2>1, PlaceFacts DEF ReadersOwn, TypeOK
  <2>7. OwnerOnly'
    BY <2>1, <2>2 DEF OwnerOnly, ReadersOwn
  <2>8. QED
    BY <2>4, <2>5, <2>6, <2>7
<1>4. QED
  BY <1>1, <1>2, <1>3 DEF ReadStep

\* What one DEL does to the keys: it is gone, or counted as raced.
LEMMA InvalidateFacts ==
    ASSUME TypeOK, NEW o \in Orders, invalidateOrderCache(o)
    PROVE  /\ \A p \in Orders : p # o => cache'[p] = cache[p] /\ (p \in raced' <=> p \in raced)
           /\ cache'[o] = None \/ o \in raced'
BY DEF invalidateOrderCache, TypeOK

\* Steps of a writer: a key that a change leaves behind belongs to a save whose
\* hook is still to come, or is counted as raced.
LEMMA WriterStep ==
    ASSUME TypeOK, OtherInv, NEW w \in Writers,
           WriteStep(w) \/ \E o \in Orders, op \in DOMAIN Needs : Begin(w, o, op)
    PROVE  OtherInv'
<1> USE DEF OtherInv
<1>1. UNCHANGED <<reader, shown>>
  BY DEF WriteStep, Save, AfterUpdate, FirstWrite, SecondWrite, Commit, Rollback, Begin
<1>2. ReadersOwn' /\ OwnerOnly'
  BY <1>1 DEF ReadersOwn, OwnerOnly
<1>3. ASSUME NEW o \in Orders, NEW op \in DOMAIN Needs, Begin(w, o, op)
      PROVE  ClearedBeforeCommit' /\ FreshUnlessRaced'
  BY <1>3, PlaceFacts DEF Begin, Go, TypeOK, ClearedBeforeCommit, FreshUnlessRaced, At
<1>4. CASE Save(w)
  <2> DEFINE o == writer[w].o
  <2>1. o \in Orders /\ writer[w].pc = "write"
    BY <1>4, PlaceFacts DEF Save, Writing
  <2>2. /\ UNCHANGED <<row, cache, raced>>
        /\ \A p \in Orders : p # o => content'[p] = content[p]
        /\ writer' = [writer EXCEPT ![w] = [pc |-> "clear", o |-> o, op |-> "save"]]
    BY <1>4, <2>1, ChangeFacts DEF Save, Go
  <2>3. ClearedBeforeCommit'
    BY <2>1, <2>2 DEF ClearedBeforeCommit, TypeOK
  <2>4. FreshUnlessRaced'
    BY <2>1, <2>2 DEF FreshUnlessRaced, At, TypeOK
  <2>5. QED
    BY <1>2, <2>3, <2>4
<1>5. CASE AfterUpdate(w)
  <2> DEFINE o == writer[w].o
  <2>1. o \in Orders /\ writer[w].pc = "clear" /\ invalidateOrderCache(o)
    BY <1>5, PlaceFacts DEF AfterUpdate, Clearing
  <2>2. UNCHANGED <<row, content>> /\ writer' = [writer EXCEPT ![w] = Idle]
    BY <1>5 DEF AfterUpdate
  <2>3. ClearedBeforeCommit'
    BY <2>1, <2>2, InvalidateFacts, PlaceFacts DEF ClearedBeforeCommit, TypeOK, Writing
  <2>4. FreshUnlessRaced'
    BY <2>1, <2>2, InvalidateFacts, PlaceFacts DEF FreshUnlessRaced, At, TypeOK
  <2>5. QED
    BY <1>2, <2>3, <2>4
<1>6. CASE FirstWrite(w) \/ SecondWrite(w)
  <2> DEFINE o == writer[w].o
  <2>1. o \in Orders /\ writer[w].pc \in {"write", "again"}
    BY <1>6, PlaceFacts DEF FirstWrite, SecondWrite, Writing
  <2>2. UNCHANGED <<row, content>>
    BY <1>6 DEF FirstWrite, SecondWrite
  <2>3. \E pc \in {"again", "commit"} :
            writer' = [writer EXCEPT ![w] = [pc |-> pc, o |-> o, op |-> writer[w].op]]
    BY <1>6 DEF FirstWrite, SecondWrite, Go
  <2>4. /\ \A p \in Orders : p # o => cache'[p] = cache[p] /\ (p \in raced' <=> p \in raced)
        /\ cache'[o] = None \/ o \in raced'
    BY <1>6, <2>1, InvalidateFacts DEF FirstWrite, SecondWrite
  <2>5. ClearedBeforeCommit'
    BY <2>1, <2>3, <2>4, PlaceFacts DEF ClearedBeforeCommit, TypeOK, Writing
  <2>6. FreshUnlessRaced'
    BY <2>1, <2>2, <2>3, <2>4 DEF FreshUnlessRaced, At, TypeOK
  <2>7. QED
    BY <1>2, <2>5, <2>6
<1>7. CASE Commit(w)
  <2> DEFINE o == writer[w].o
  <2>1. o \in Orders /\ writer[w].pc = "commit"
    BY <1>7, PlaceFacts DEF Commit, Writing
  <2>2. /\ UNCHANGED <<cache, raced>>
        /\ \A p \in Orders : p # o => content'[p] = content[p] /\ row'[p] = row[p]
        /\ writer' = [writer EXCEPT ![w] = Idle]
    BY <1>7, <2>1, ChangeFacts DEF Commit, TypeOK
  <2>3. cache[o] = None \/ o \in raced
    BY <2>1 DEF ClearedBeforeCommit
  <2>4. ClearedBeforeCommit'
    BY <2>2, PlaceFacts DEF ClearedBeforeCommit, TypeOK
  <2>5. FreshUnlessRaced'
    BY <2>1, <2>2, <2>3 DEF FreshUnlessRaced, At, TypeOK
  <2>6. QED
    BY <1>2, <2>4, <2>5
<1>8. CASE Rollback(w)
  BY <1>2, <1>8, PlaceFacts DEF Rollback, TypeOK, ClearedBeforeCommit, FreshUnlessRaced, At
<1>9. QED
  BY <1>2, <1>3, <1>4, <1>5, <1>6, <1>7, <1>8 DEF WriteStep

\* The invariant holds at the start and in every step.
LEMMA InvInductive == (Init => IInv) /\ (IInv /\ [Next]_vars => IInv')
<1>1. ASSUME Init
      PROVE  IInv
  <2>1. TypeOK
    BY <1>1, BoundAssumption DEF Init, TypeOK, Copies
  <2>2. OtherInv
    BY <1>1 DEF Init, Idle, OtherInv, ClearedBeforeCommit, FreshUnlessRaced, ReadersOwn, OwnerOnly
  <2>3. QED
    BY <2>1, <2>2 DEF IInv, OtherInv
<1>2. ASSUME IInv, [Next]_vars
      PROVE  IInv'
  <2>1. TypeOK /\ OtherInv /\ TypeOK'
    BY <1>2, TypeStep DEF IInv, OtherInv
  <2> SUFFICES OtherInv'
    BY <2>1 DEF IInv, OtherInv
  <2>2. ASSUME NEW o \in Orders, Expire(o)
        PROVE  OtherInv'
    BY <2>1, <2>2
    DEF Expire, TypeOK, OtherInv, ClearedBeforeCommit, FreshUnlessRaced, At, ReadersOwn, OwnerOnly
  <2>3. ASSUME NEW o \in Orders, ChangeNested(o)
        PROVE  OtherInv'
    <3>1. \A p \in Orders : content'[p].own = content[p].own
      BY <2>1, <2>3 DEF ChangeNested, TypeOK, Copies
    <3>2. UNCHANGED <<row, cache, reader, writer, shown, raced>>
      BY <2>3 DEF ChangeNested
    <3>3. QED
      BY <2>1, <3>1, <3>2
      DEF OtherInv, ClearedBeforeCommit, FreshUnlessRaced, At, ReadersOwn, OwnerOnly
  <2>4. CASE UNCHANGED vars
    <3>1. UNCHANGED <<row, content, cache, reader, writer, shown, raced>>
      BY <2>4 DEF vars
    <3>2. QED
      BY <2>1, <3>1
      DEF OtherInv, ClearedBeforeCommit, FreshUnlessRaced, At, ReadersOwn, OwnerOnly
  <2>5. CASE Next
    BY <2>1, <2>2, <2>3, <2>5, ReaderStep, WriterStep, Zenon DEF Next
  <2>6. QED
    BY <1>2, <2>4, <2>5
<1>3. QED
  BY <1>1, <1>2

-----------------------------------------------------------------------------
\* The inductive invariant holds throughout.
THEOREM InvariantHolds == Spec => []IInv
BY InvInductive, PTL DEF Spec

\* The key, the readers and the writers of every order stay in their types.
THEOREM TypeCorrect == Spec => []TypeOK
<1>1. IInv => TypeOK
  BY DEF IInv
<1>2. QED
  BY <1>1, InvariantHolds, PTL

\* The hooks of orderHooks.js miss no change of an order's own columns: a key
\* that is not the committed order was SET after a change or before a commit,
\* outlived a failed DEL, or is about to be deleted.
THEOREM CacheIsFresh == Spec => []FreshUnlessRaced
<1>1. IInv => FreshUnlessRaced
  BY DEF IInv
<1>2. QED
  BY <1>1, InvariantHolds, PTL

\* getOrderById sends an order to its owner only, from Redis or from the row.
THEOREM ShownToOwner == Spec => []OwnerOnly
<1>1. IInv => OwnerOnly
  BY DEF IInv
<1>2. QED
  BY <1>1, InvariantHolds, PTL

-----------------------------------------------------------------------------
(* RedisDict: numbers, their bits and their reversals                        *)

\* Induction over the naturals, for a set: were a number missing from G, there
\* would be a least one.
LEMMA NatInd ==
    ASSUME NEW G, 0 \in G, \A n \in Nat : n \in G => n + 1 \in G
    PROVE  Nat \subseteq G
<1> DEFINE B == Nat \ G
<1> SUFFICES ASSUME B # {} PROVE FALSE
  OBVIOUS
<1>1. B \subseteq Nat
  OBVIOUS
<1>4. PICK m \in B : \A n \in B : ~(<<n, m>> \in OpToRel(<, Nat))
  BY Zenon, <1>1, NatLessThanWellFounded, WFMin
<1>5. \A n \in B : ~(n < m)
  BY Zenon, <1>4 DEF OpToRel
<1>6. m # 0 /\ m - 1 \in Nat /\ m - 1 < m /\ m = (m - 1) + 1
  BY <1>1
<1>7. m - 1 \in B
  BY <1>6
<1> QED
  BY <1>5, <1>6, <1>7

\* Induction up to the width of a cursor.
LEMMA WidthInd ==
    ASSUME NEW G, 0 \in G, \A n \in 0 .. Width - 1 : n \in G => n + 1 \in G
    PROVE  0 .. Width \subseteq G
<1> DEFINE H == {n \in Nat : n \in 0 .. Width => n \in G}
<1>1. 0 \in H
  OBVIOUS
<1>2. ASSUME NEW n \in Nat, n \in H PROVE n + 1 \in H
  BY <1>2, WidthAssumption
<1> HIDE DEF H
<1>3. Nat \subseteq H
  BY <1>1, <1>2, NatInd
<1> QED
  BY <1>3 DEF H

\* f holds the powers of two up to n.
PowOn(n, f) == f = [i \in 0 .. n |-> IF i = 0 THEN 1 ELSE 2 * f[i - 1]]

\* The recursion that defines Pow2 has a solution.
LEMMA PowExists == \E f : PowOn(Width, f)
<1> DEFINE G == {n \in Nat : \E f : PowOn(n, f)}
<1>1. 0 \in G
  <2> DEFINE f == [i \in 0 .. 0 |-> 1]
  <2>1. PowOn(0, f)
    BY DEF PowOn
  <2> QED
    BY <2>1
<1>2. ASSUME NEW n \in 0 .. Width - 1, n \in G PROVE n + 1 \in G
  <2>0. n \in Nat
    OBVIOUS
  <2>1. PICK g : PowOn(n, g)
    BY <1>2
  <2> DEFINE h == [i \in 0 .. n + 1 |-> IF i = 0 THEN 1 ELSE 2 * g[i - 1]]
  <2>2. \A i \in 0 .. n : h[i] = g[i]
    BY <2>0, <2>1 DEF PowOn
  <2> HIDE DEF h
  <2>3. \A i \in 0 .. n + 1 : i # 0 => h[i - 1] = g[i - 1]
    <3>1. \A i \in 0 .. n + 1 : i # 0 => i - 1 \in 0 .. n
      BY <2>0
    <3> QED
      BY Zenon, <2>2, <3>1
  <2>4. h = [i \in 0 .. n + 1 |-> IF i = 0 THEN 1 ELSE 2 * h[i - 1]]
    BY Zenon, <2>3 DEF h
  <2>5. PowOn(n + 1, h)
    BY Zenon, <2>4 DEF PowOn
  <2> QED
    BY <2>0, <2>5
<1> HIDE DEF G
<1>3. Width \in G
  BY <1>1, <1>2, WidthInd, WidthAssumption
<1> QED
  BY <1>3 DEF G

\* Pow2, one power after the other.
LEMMA PowEq ==
    /\ Pow2[0] = 1
    /\ \A n \in 0 .. Width - 1 : Pow2[n + 1] = 2 * Pow2[n]
<1>1. PowOn(Width, Pow2)
  BY Zenon, PowExists DEF PowOn, Pow2
<1> HIDE DEF Pow2
<1>2. \A i \in 0 .. Width : Pow2[i] = IF i = 0 THEN 1 ELSE 2 * Pow2[i - 1]
  BY Zenon, <1>1 DEF PowOn
<1> QED
  BY <1>2, WidthAssumption

\* Powers of two are positive.
LEMMA PowNat == \A n \in 0 .. Width : Pow2[n] \in Nat \ {0}
<1> DEFINE G == {n \in 0 .. Width : Pow2[n] \in Nat \ {0}}
<1>1. 0 \in G
  BY PowEq, WidthAssumption
<1>2. ASSUME NEW n \in 0 .. Width - 1, n \in G PROVE n + 1 \in G
  BY <1>2, PowEq, WidthAssumption
<1> HIDE DEF G
<1>3. 0 .. Width \subseteq G
  BY <1>1, <1>2, WidthInd
<1> QED
  BY <1>3 DEF G

\* f holds the reversals of the 0 to n low bits of v.
RevOn(v, n, f) == f = [i \in 0 .. n |-> IF i = 0 THEN 0 ELSE 2 * f[i - 1] + Bit(v, i - 1)]

\* The recursion that defines rev has a solution.
LEMMA RevExists == ASSUME NEW v PROVE \E f : RevOn(v, Width, f)
<1> DEFINE G == {n \in Nat : \E f : RevOn(v, n, f)}
<1>1. 0 \in G
  <2> DEFINE f == [i \in 0 .. 0 |-> 0]
  <2>1. RevOn(v, 0, f)
    BY DEF RevOn
  <2> QED
    BY <2>1
<1>2. ASSUME NEW n \in 0 .. Width - 1, n \in G PROVE n + 1 \in G
  <2>0. n \in Nat
    OBVIOUS
  <2>1. PICK g : RevOn(v, n, g)
    BY <1>2
  <2> DEFINE h == [i \in 0 .. n + 1 |-> IF i = 0 THEN 0 ELSE 2 * g[i - 1] + Bit(v, i - 1)]
  <2>2. \A i \in 0 .. n : h[i] = g[i]
    BY <2>0, <2>1 DEF RevOn
  <2> HIDE DEF h
  <2>3. \A i \in 0 .. n + 1 : i # 0 => h[i - 1] = g[i - 1]
    <3>1. \A i \in 0 .. n + 1 : i # 0 => i - 1 \in 0 .. n
      BY <2>0
    <3> QED
      BY Zenon, <2>2, <3>1
  <2>4. h = [i \in 0 .. n + 1 |-> IF i = 0 THEN 0 ELSE 2 * h[i - 1] + Bit(v, i - 1)]
    BY Zenon, <2>3 DEF h
  <2>5. RevOn(v, n + 1, h)
    BY Zenon, <2>4 DEF RevOn
  <2> QED
    BY <2>0, <2>5
<1> HIDE DEF G
<1>3. Width \in G
  BY <1>1, <1>2, WidthInd, WidthAssumption
<1> QED
  BY <1>3 DEF G

\* rev, one bit after the other.
LEMMA RevEq ==
    ASSUME NEW v
    PROVE  /\ rev(v, 0) = 0
           /\ \A n \in 0 .. Width - 1 : rev(v, n + 1) = 2 * rev(v, n) + Bit(v, n)
<1> DEFINE r == CHOOSE f : RevOn(v, Width, f)
<1>1. RevOn(v, Width, r)
  BY RevExists
<1>2. \A e : rev(v, e) = r[e]
  BY DEF rev, RevOn
<1> HIDE DEF r
<1>3. \A i \in 0 .. Width : r[i] = IF i = 0 THEN 0 ELSE 2 * r[i - 1] + Bit(v, i - 1)
  BY Zenon, <1>1 DEF RevOn
<1>4. r[0] = 0 /\ \A n \in 0 .. Width - 1 : r[n + 1] = 2 * r[n] + Bit(v, n)
  <2>1. r[0] = 0
    BY <1>3, WidthAssumption
  <2>2. ASSUME NEW n \in 0 .. Width - 1 PROVE r[n + 1] = 2 * r[n] + Bit(v, n)
    <3>1. n + 1 \in 0 .. Width /\ n + 1 # 0 /\ (n + 1) - 1 = n
      BY WidthAssumption
    <3> HIDE DEF r
    <3>2. r[n + 1] = 2 * r[(n + 1) - 1] + Bit(v, (n + 1) - 1)
      BY <1>3, <3>1
    <3> QED
      BY <3>1, <3>2
  <2> QED
    BY <2>1, <2>2
<1> QED
  BY <1>2, <1>4

\* A quotient and a remainder are determined by their sum.
LEMMA Euclid ==
    \A m \in Nat \ {0}, q \in Nat, r \in Nat :
        r < m => (m * q + r) % m = r /\ (m * q + r) \div m = q
  OBVIOUS

\* Division by m and by 2m.
LEMMA DivLaws ==
    ASSUME NEW v \in Nat, NEW m \in Nat \ {0}
    PROVE  /\ v % m \in 0 .. m - 1 /\ v \div m \in Nat
           /\ v % (2 * m) = (v % m) + ((v \div m) % 2) * m
           /\ (v \div m) % 2 \in {0, 1}
           /\ v < m => v % m = v /\ v \div m = 0
<1> DEFINE q == v \div m
           r == v % m
           h == q \div 2
           b == q % 2
<1>1. r \in 0 .. m - 1 /\ q \in Nat /\ v = m * q + r
  OBVIOUS
<1> HIDE DEF q, r
<1>2. h \in Nat /\ b \in {0, 1} /\ q = 2 * h + b
  BY <1>1
<1> HIDE DEF h, b
<1>3. v = (2 * m) * h + (r + b * m)
  BY <1>1, <1>2
<1>4. r + b * m \in Nat /\ r + b * m < 2 * m /\ 2 * m \in Nat \ {0}
  BY <1>1, <1>2
<1>5. v % (2 * m) = r + b * m
  BY Zenon, <1>2, <1>3, <1>4, Euclid
<1>6. v < m => v % m = v /\ v \div m = 0
  OBVIOUS
<1> QED
  BY <1>1, <1>2, <1>5, <1>6 DEF b, q, r

\* A remainder modulo a multiple of m keeps the remainder modulo m.
LEMMA ModMultiple ==
    ASSUME NEW v \in Nat, NEW m \in Nat \ {0}, NEW q \in Nat \ {0}
    PROVE  (v % (q * m)) % m = v % m
<1> DEFINE n == q * m
           a == v \div n
           w == v % n
<1>1. n \in Nat \ {0}
  OBVIOUS
<1> HIDE DEF n
<1>2. v = n * a + w /\ a \in Nat /\ w \in Nat
  BY <1>1
<1> HIDE DEF a, w
<1>3. n * a = m * (q * a)
  BY <1>2 DEF n
<1>4. (m * (q * a) + w) % m = w % m
  <2> DEFINE z == q * a
  <2>1. z \in Nat
    BY <1>2
  <2> HIDE DEF z
  <2>2. ASSUME NEW x \in Nat, NEW y \in Nat PROVE (m * x + y) % m = y % m
    <3> DEFINE q2 == y \div m
               r == y % m
    <3>1. r \in 0 .. m - 1 /\ r \in Nat /\ q2 \in Nat /\ y = m * q2 + r
      OBVIOUS
    <3> HIDE DEF q2, r
    <3>2. m * x + y = m * (x + q2) + r
      BY <3>1
    <3>3. (m * (x + q2) + r) % m = r
      BY <3>1, Euclid
    <3> QED
      BY <3>2, <3>3 DEF r
  <2>3. (m * z + w) % m = w % m
    BY Zenon, <1>2, <2>1, <2>2
  <2> QED
    BY <2>3 DEF z
<1>5. v % m = w % m
  BY <1>2, <1>3, <1>4
<1> QED
  BY <1>5 DEF w, n

\* Bits are 0 or 1, and a number has none beyond its size.
LEMMA BitType ==
    ASSUME NEW v \in Nat, NEW n \in 0 .. Width
    PROVE  /\ Bit(v, n) \in {0, 1}
           /\ v % Pow2[n] \in 0 .. Pow2[n] - 1
           /\ v < Pow2[n] => Bit(v, n) = 0 /\ v % Pow2[n] = v
<1>1. Pow2[n] \in Nat \ {0}
  BY PowNat
<1>2. \A m \in Nat \ {0} :
         /\ (v \div m) % 2 \in {0, 1}
         /\ v % m \in 0 .. m - 1
         /\ v < m => v \div m = 0 /\ v % m = v
  BY Zenon, DivLaws
<1>3. 0 % 2 = 0
  OBVIOUS
<1> QED
  BY <1>1, <1>2, <1>3 DEF Bit

\* One more bit of a number.
LEMMA ModSplit ==
    ASSUME NEW v \in Nat, NEW n \in 0 .. Width - 1
    PROVE  v % Pow2[n + 1] = (v % Pow2[n]) + Bit(v, n) * Pow2[n]
<1>1. Pow2[n] \in Nat \ {0} /\ Pow2[n + 1] = 2 * Pow2[n]
  BY PowNat, PowEq, WidthAssumption
<1> QED
  BY Zenon, <1>1, DivLaws DEF Bit

\* The reversal of n bits has n bits.
LEMMA RevType ==
    ASSUME NEW v \in Nat
    PROVE  \A n \in 0 .. Width : rev(v, n) \in 0 .. Pow2[n] - 1
<1> DEFINE G == {n \in 0 .. Width : rev(v, n) \in 0 .. Pow2[n] - 1}
<1>1. 0 \in G
  BY RevEq, PowEq, WidthAssumption
<1>2. ASSUME NEW n \in 0 .. Width - 1, n \in G PROVE n + 1 \in G
  <2>0. n \in 0 .. Width
    BY WidthAssumption
  <2>1. Pow2[n] \in Nat \ {0} /\ Pow2[n + 1] = 2 * Pow2[n] /\ n + 1 \in 0 .. Width
    BY PowNat, PowEq, WidthAssumption
  <2>2. Bit(v, n) \in {0, 1} /\ rev(v, n + 1) = 2 * rev(v, n) + Bit(v, n)
    BY Zenon, BitType, RevEq, <2>0
  <2>3. rev(v, n) \in 0 .. Pow2[n] - 1
    BY <1>2
  <2> QED
    BY <2>1, <2>2, <2>3
<1> HIDE DEF G
<1>3. 0 .. Width \subseteq G
  BY <1>1, <1>2, WidthInd
<1> QED
  BY <1>3 DEF G

\* The size of a smaller table divides that of a larger one.
LEMMA PowDivides ==
    ASSUME NEW s \in 0 .. Width, NEW e \in s .. Width
    PROVE  \E q \in Nat \ {0} : Pow2[e] = q * Pow2[s]
<1> DEFINE G == {n \in 0 .. Width : s <= n => \E q \in Nat \ {0} : Pow2[n] = q * Pow2[s]}
<1>0. Pow2[s] \in Nat \ {0}
  BY PowNat
<1>a. \E q \in Nat \ {0} : Pow2[s] = q * Pow2[s]
  <2>1. Pow2[s] = 1 * Pow2[s]
    BY <1>0
  <2> QED
    BY <2>1
<1>1. 0 \in G
  <2>1. s <= 0 => s = 0
    BY WidthAssumption
  <2> QED
    BY <1>a, <2>1, WidthAssumption
<1>2. ASSUME NEW n \in 0 .. Width - 1, n \in G PROVE n + 1 \in G
  <2>0. n + 1 \in 0 .. Width /\ Pow2[n + 1] = 2 * Pow2[n]
    BY PowEq, WidthAssumption
  <2>1. CASE s <= n
    <3>1. PICK q \in Nat \ {0} : Pow2[n] = q * Pow2[s]
      BY <1>2, <2>1
    <3>2. Pow2[n + 1] = (2 * q) * Pow2[s] /\ 2 * q \in Nat \ {0}
      BY <1>0, <2>0, <3>1
    <3> QED
      BY <2>0, <3>2
  <2>2. CASE s = n + 1
    BY <1>a, <2>0, <2>2
  <2>3. CASE s > n + 1
    BY <2>0, <2>3
  <2> QED
    BY <2>1, <2>2, <2>3
<1> HIDE DEF G
<1>3. 0 .. Width \subseteq G
  BY <1>1, <1>2, WidthInd
<1> QED
  BY <1>3, WidthAssumption DEF G

\* A table of more bits is not smaller.
LEMMA PowMono ==
    ASSUME NEW s \in 0 .. Width, NEW e \in s .. Width
    PROVE  Pow2[s] <= Pow2[e]
<1>1. PICK q \in Nat \ {0} : Pow2[e] = q * Pow2[s]
  BY PowDivides
<1>2. Pow2[s] \in Nat
  BY PowNat
<1> QED
  BY <1>1, <1>2

\* The index in a smaller table is what its mask leaves of the index in a
\* larger one.
LEMMA ModMod ==
    ASSUME NEW v \in Nat, NEW s \in 0 .. Width, NEW e \in s .. Width
    PROVE  (v % Pow2[e]) % Pow2[s] = v % Pow2[s]
<1>1. PICK q \in Nat \ {0} : Pow2[e] = q * Pow2[s]
  BY PowDivides
<1>2. Pow2[s] \in Nat \ {0}
  BY PowNat
<1> QED
  BY <1>1, <1>2, ModMultiple

\* Masking keeps the low bits.
LEMMA BitMod ==
    ASSUME NEW v \in Nat, NEW e \in 0 .. Width, NEW i \in 0 .. e - 1
    PROVE  Bit(v % Pow2[e], i) = Bit(v, i)
<1> DEFINE w == v % Pow2[e]
           m == Pow2[i]
<1>1. w \in Nat /\ i \in 0 .. Width - 1 /\ i + 1 \in 0 .. Width /\ i \in 0 .. Width
      /\ e \in i .. Width /\ e \in i + 1 .. Width /\ Pow2[e] \in Nat \ {0}
  BY PowNat, BitType, WidthAssumption
<1>2. w % Pow2[i] = v % Pow2[i] /\ w % Pow2[i + 1] = v % Pow2[i + 1]
  BY <1>1, ModMod
<1> HIDE DEF w
<1>3. Bit(w, i) \in {0, 1} /\ Bit(v, i) \in {0, 1} /\ m \in Nat \ {0} /\ v % m \in Nat
  BY <1>1, BitType, PowNat
<1>4. (v % m) + Bit(w, i) * m = (v % m) + Bit(v, i) * m
  BY <1>1, <1>2, ModSplit
<1> HIDE DEF m
<1>5. Bit(w, i) = Bit(v, i)
  BY <1>3, <1>4
<1> QED
  BY <1>5 DEF w

\* Masking keeps the reversal of the low bits.
LEMMA RevMod ==
    ASSUME NEW v \in Nat, NEW e \in 0 .. Width
    PROVE  \A s \in 0 .. e : rev(v % Pow2[e], s) = rev(v, s)
<1> DEFINE w == v % Pow2[e]
           G == {n \in 0 .. Width : n <= e => rev(w, n) = rev(v, n)}
<1>1. 0 \in G
  BY RevEq, WidthAssumption
<1>2. ASSUME NEW n \in 0 .. Width - 1, n \in G PROVE n + 1 \in G
  <2>1. /\ rev(v, n + 1) = 2 * rev(v, n) + Bit(v, n)
        /\ rev(w, n + 1) = 2 * rev(w, n) + Bit(w, n)
    BY RevEq
  <2>2. n + 1 \in 0 .. Width
    BY WidthAssumption
  <2>3. n + 1 <= e => n <= e /\ Bit(w, n) = Bit(v, n)
    BY BitMod, WidthAssumption
  <2> HIDE DEF w
  <2> QED
    BY <1>2, <2>1, <2>2, <2>3
<1> HIDE DEF G
<1>3. 0 .. Width \subseteq G
  BY <1>1, <1>2, WidthInd
<1> QED
  BY <1>3, WidthAssumption DEF G

\* What is not before the cursor in reverse order is not before it in a smaller
\* table.
LEMMA RevPrefix ==
    ASSUME NEW k \in Nat, NEW c \in Nat, NEW e \in 0 .. Width
    PROVE  \A n \in e .. Width : rev(k, n) >= rev(c, n) => rev(k, e) >= rev(c, e)
<1> DEFINE G == {n \in 0 .. Width : e <= n /\ rev(k, n) >= rev(c, n) => rev(k, e) >= rev(c, e)}
<1>1. 0 \in G
  <2>1. e <= 0 => e = 0
    OBVIOUS
  <2> QED
    BY <2>1, WidthAssumption
<1>2. ASSUME NEW n \in 0 .. Width - 1, n \in G PROVE n + 1 \in G
  <2>1. /\ rev(k, n + 1) = 2 * rev(k, n) + Bit(k, n)
        /\ rev(c, n + 1) = 2 * rev(c, n) + Bit(c, n)
    BY RevEq
  <2>2. n + 1 \in 0 .. Width /\ n \in 0 .. Width
    BY WidthAssumption
  <2>3. Bit(k, n) \in {0, 1} /\ Bit(c, n) \in {0, 1}
    BY <2>2, BitType
  <2>4. rev(k, n) \in Int /\ rev(c, n) \in Int
    BY <2>2, RevType, PowNat
  <2>5. rev(k, n + 1) >= rev(c, n + 1) => rev(k, n) >= rev(c, n)
    BY <2>1, <2>3, <2>4
  <2>6. e <= n + 1 => e <= n \/ e = n + 1
    OBVIOUS
  <2> QED
    BY <1>2, <2>2, <2>5, <2>6
<1> HIDE DEF G
<1>3. 0 .. Width \subseteq G
  BY <1>1, <1>2, WidthInd
<1> QED
  BY <1>3, WidthAssumption DEF G

\* The cursor of a table of 2^e buckets has no higher bits: what is not before
\* it there is not before it in any larger table.
LEMMA RevZeros ==
    ASSUME NEW k \in Nat, NEW e \in 0 .. Width, NEW c \in 0 .. Pow2[e] - 1,
           rev(k, e) >= rev(c, e)
    PROVE  \A n \in e .. Width : rev(k, n) >= rev(c, n)
<1> DEFINE G == {n \in 0 .. Width : e <= n => rev(k, n) >= rev(c, n)}
<1>0. c \in Nat
  BY PowNat
<1>1. 0 \in G
  <2>1. e <= 0 => e = 0
    OBVIOUS
  <2> QED
    BY <2>1, WidthAssumption
<1>2. ASSUME NEW n \in 0 .. Width - 1, n \in G PROVE n + 1 \in G
  <2>1. /\ rev(k, n + 1) = 2 * rev(k, n) + Bit(k, n)
        /\ rev(c, n + 1) = 2 * rev(c, n) + Bit(c, n)
    BY RevEq
  <2>2. n + 1 \in 0 .. Width /\ n \in 0 .. Width
    BY WidthAssumption
  <2>3. e <= n => Bit(k, n) \in {0, 1} /\ Bit(c, n) = 0
    <3>1. e <= n => Pow2[e] <= Pow2[n] /\ Pow2[n] \in Nat /\ Pow2[e] \in Nat
      BY <2>2, PowMono, PowNat
    <3>2. e <= n => c < Pow2[n]
      BY <1>0, <3>1
    <3>3. Bit(k, n) \in {0, 1} /\ (c < Pow2[n] => Bit(c, n) = 0)
      BY Zenon, <1>0, <2>2, BitType
    <3> QED
      BY Zenon, <3>2, <3>3
  <2>4. rev(k, n) \in Int /\ rev(c, n) \in Int
    BY <1>0, <2>2, RevType, PowNat
  <2>5. e <= n /\ rev(k, n) >= rev(c, n) => rev(k, n + 1) >= rev(c, n + 1)
    BY <2>1, <2>3, <2>4
  <2>6. e <= n + 1 => e <= n \/ e = n + 1
    OBVIOUS
  <2> QED
    BY <1>2, <2>2, <2>5, <2>6
<1> HIDE DEF G
<1>3. 0 .. Width \subseteq G
  BY <1>1, <1>2, WidthInd
<1> QED
  BY <1>3, WidthAssumption DEF G

\* Numbers with the same reversed bits have the same index.
LEMMA RevInj ==
    ASSUME NEW k \in Nat, NEW c \in Nat
    PROVE  \A e \in 0 .. Width : rev(k, e) = rev(c, e) => k % Pow2[e] = c % Pow2[e]
<1> DEFINE G == {n \in 0 .. Width : rev(k, n) = rev(c, n) => k % Pow2[n] = c % Pow2[n]}
<1>1. 0 \in G
  BY PowEq, WidthAssumption
<1>2. ASSUME NEW n \in 0 .. Width - 1, n \in G PROVE n + 1 \in G
  <2>1. /\ rev(k, n + 1) = 2 * rev(k, n) + Bit(k, n)
        /\ rev(c, n + 1) = 2 * rev(c, n) + Bit(c, n)
    BY RevEq
  <2>2. n + 1 \in 0 .. Width /\ n \in 0 .. Width
    BY WidthAssumption
  <2>3. Bit(k, n) \in {0, 1} /\ Bit(c, n) \in {0, 1}
    BY <2>2, BitType
  <2>4. rev(k, n) \in Int /\ rev(c, n) \in Int
    BY <2>2, RevType, PowNat
  <2>5. rev(k, n + 1) = rev(c, n + 1) => rev(k, n) = rev(c, n) /\ Bit(k, n) = Bit(c, n)
    <3> DEFINE a == rev(k, n)
               b == rev(c, n)
               x == Bit(k, n)
               y == Bit(c, n)
    <3>1. a \in Int /\ b \in Int /\ x \in {0, 1} /\ y \in {0, 1}
      BY <2>3, <2>4
    <3>2. rev(k, n + 1) = 2 * a + x /\ rev(c, n + 1) = 2 * b + y
      BY <2>1
    <3> HIDE DEF a, b, x, y
    <3>3. 2 * a + x = 2 * b + y => a = b /\ x = y
      BY <3>1
    <3>4. rev(k, n + 1) = rev(c, n + 1) => a = b /\ x = y
      BY <3>2, <3>3
    <3> QED
      BY <3>4 DEF a, b, x, y
  <2>6. /\ k % Pow2[n + 1] = (k % Pow2[n]) + Bit(k, n) * Pow2[n]
        /\ c % Pow2[n + 1] = (c % Pow2[n]) + Bit(c, n) * Pow2[n]
    BY ModSplit
  <2> QED
    BY <1>2, <2>2, <2>5, <2>6
<1> HIDE DEF G
<1>3. 0 .. Width \subseteq G
  BY <1>1, <1>2, WidthInd
<1> QED
  BY <1>3, WidthAssumption DEF G

\* The bits of a number with one more bit below them.
LEMMA BitDouble ==
    ASSUME NEW y \in Nat, NEW b \in {0, 1}
    PROVE  /\ Bit(2 * y + b, 0) = b
           /\ \A i \in 0 .. Width - 1 : Bit(2 * y + b, i + 1) = Bit(y, i)
<1>1. Bit(2 * y + b, 0) = b
  BY PowEq DEF Bit
<1>2. ASSUME NEW i \in 0 .. Width - 1 PROVE Bit(2 * y + b, i + 1) = Bit(y, i)
  <2>1. Pow2[i] \in Nat \ {0} /\ Pow2[i + 1] = 2 * Pow2[i]
    BY PowNat, PowEq, WidthAssumption
  <2>2. \A m \in Nat \ {0} : (2 * y + b) \div (2 * m) = y \div m
    OBVIOUS
  <2> QED
    BY <2>1, <2>2 DEF Bit
<1> QED
  BY <1>1, <1>2

\* The bits of a reversal.
LEMMA BitRev ==
    ASSUME NEW x \in Nat
    PROVE  \A e \in 0 .. Width : \A i \in 0 .. e - 1 : Bit(rev(x, e), i) = Bit(x, e - 1 - i)
<1> DEFINE G == {n \in 0 .. Width : \A i \in 0 .. n - 1 : Bit(rev(x, n), i) = Bit(x, n - 1 - i)}
<1>1. 0 \in G
  BY WidthAssumption
<1>2. ASSUME NEW n \in 0 .. Width - 1, n \in G PROVE n + 1 \in G
  <2>1. rev(x, n + 1) = 2 * rev(x, n) + Bit(x, n)
    BY RevEq
  <2>2. n + 1 \in 0 .. Width /\ n \in 0 .. Width
    BY WidthAssumption
  <2>3. Bit(x, n) \in {0, 1} /\ rev(x, n) \in Nat
    BY <2>2, BitType, RevType, PowNat
  <2>4. ASSUME NEW i \in 0 .. n PROVE Bit(rev(x, n + 1), i) = Bit(x, n - i)
    <3>1. CASE i = 0
      <4>1. Bit(rev(x, n + 1), 0) = Bit(x, n)
        BY Zenon, <2>1, <2>3, BitDouble
      <4>2. n - i = n
        BY <3>1
      <4> QED
        BY <3>1, <4>1, <4>2
    <3>2. CASE i # 0
      <4> DEFINE j == i - 1
      <4>1. j \in 0 .. Width - 1 /\ j \in 0 .. n - 1 /\ i = j + 1 /\ n - i = n - 1 - j
        BY <3>2, WidthAssumption
      <4> HIDE DEF j
      <4>2. Bit(rev(x, n + 1), j + 1) = Bit(rev(x, n), j)
        BY Zenon, <2>1, <2>3, <4>1, BitDouble
      <4>3. Bit(rev(x, n), j) = Bit(x, n - 1 - j)
        BY <1>2, <4>1
      <4> QED
        BY <4>1, <4>2, <4>3
    <3> QED
      BY <3>1, <3>2
  <2>5. \A i \in 0 .. (n + 1) - 1 : i \in 0 .. n /\ (n + 1) - 1 - i = n - i
    OBVIOUS
  <2> QED
    BY <2>2, <2>4, <2>5
<1> HIDE DEF G
<1>3. 0 .. Width \subseteq G
  BY <1>1, <1>2, WidthInd
<1> QED
  BY <1>3 DEF G

\* Numbers of the same low bits are the same under a mask.
LEMMA SameBits ==
    ASSUME NEW x \in Nat, NEW y \in Nat, NEW e \in 0 .. Width,
           \A i \in 0 .. e - 1 : Bit(x, i) = Bit(y, i)
    PROVE  x % Pow2[e] = y % Pow2[e]
<1> DEFINE G == {n \in 0 .. Width : n <= e => x % Pow2[n] = y % Pow2[n]}
<1>1. 0 \in G
  BY PowEq, WidthAssumption
<1>2. ASSUME NEW n \in 0 .. Width - 1, n \in G PROVE n + 1 \in G
  <2>1. /\ x % Pow2[n + 1] = (x % Pow2[n]) + Bit(x, n) * Pow2[n]
        /\ y % Pow2[n + 1] = (y % Pow2[n]) + Bit(y, n) * Pow2[n]
    BY ModSplit
  <2>2. n + 1 \in 0 .. Width /\ (n + 1 <= e => n <= e /\ n \in 0 .. e - 1)
    BY WidthAssumption
  <2> QED
    BY <1>2, <2>1, <2>2
<1> HIDE DEF G
<1>3. 0 .. Width \subseteq G
  BY <1>1, <1>2, WidthInd
<1> QED
  BY <1>3, WidthAssumption DEF G

\* Reversing twice changes nothing.
LEMMA RevRev ==
    ASSUME NEW e \in 0 .. Width, NEW x \in 0 .. Pow2[e] - 1
    PROVE  rev(rev(x, e), e) = x
<1> DEFINE y == rev(x, e)
           z == rev(y, e)
<1>0. Pow2[e] \in Nat \ {0} /\ x \in Nat
  BY PowNat
<1>1. y \in 0 .. Pow2[e] - 1 /\ y \in Nat
  BY <1>0, RevType
<1>2. \A i \in 0 .. e - 1 : Bit(y, i) = Bit(x, e - 1 - i)
  BY <1>0, BitRev
<1> HIDE DEF y
<1>3. z \in 0 .. Pow2[e] - 1 /\ z \in Nat
  BY <1>0, <1>1, RevType
<1>4. \A i \in 0 .. e - 1 : Bit(z, i) = Bit(y, e - 1 - i)
  BY <1>1, BitRev
<1> HIDE DEF z
<1>5. \A i \in 0 .. e - 1 : e - 1 - i \in 0 .. e - 1 /\ e - 1 - (e - 1 - i) = i
  OBVIOUS
<1>6. \A i \in 0 .. e - 1 : Bit(z, i) = Bit(x, i)
  BY <1>2, <1>4, <1>5
<1>7. z % Pow2[e] = x % Pow2[e]
  BY <1>0, <1>3, <1>6, SameBits
<1>8. z = x
  BY <1>0, <1>3, <1>7, BitType
<1> QED
  BY <1>8 DEF z, y

-----------------------------------------------------------------------------
(* The tables                                                                *)

\* The record of a dictionary.
Shape(x) ==
    /\ DOMAIN x = {"ht", "exp", "rehashidx"}
    /\ DOMAIN x.ht = 0 .. 1
    /\ DOMAIN x.exp = 0 .. 1

\* A table of 2^e buckets, each of which holds the keys whose hash ends in its index.
Table(t, e) ==
    /\ e \in -1 .. Width
    /\ t \in [0 .. Size(e) - 1 -> SUBSET Keys]
    /\ \A b \in 0 .. Size(e) - 1 : \A k \in t[b] : k % Size(e) = b

\* A dictionary whose tables hold their keys where lookups look for them: the
\* second table is there exactly while rehashing, what rehashing has passed is
\* empty, and no key is in both.
Good(x) ==
    /\ Shape(x)
    /\ Table(x.ht[0], x.exp[0])
    /\ Table(x.ht[1], x.exp[1])
    /\ x.rehashidx \in -1 .. Pow2[Width]
    /\ x.rehashidx = -1 <=> x.exp[1] = -1
    /\ x.rehashidx # -1 => x.exp[0] # -1
    /\ \A b \in 0 .. Size(x.exp[0]) - 1 : b < x.rehashidx => x.ht[0][b] = {}
    /\ In(x.ht[0]) \cap In(x.ht[1]) = {}

\* The keys of a table are those of its buckets.
LEMMA InFacts == \A t : \A k : k \in In(t) <=> \E b \in DOMAIN t : k \in t[b]
  BY DEF In

\* The keys in the tables.
Holds(x) == In(x.ht[0]) \cup In(x.ht[1])

\* The keys are finitely many numbers that fit in a cursor.
LEMMA KeyFacts == Keys \subseteq Nat /\ IsFiniteSet(Keys) /\ \A k \in Keys : k < Pow2[Width]
<1>1. Pow2[Width] \in Nat
  BY PowNat, WidthAssumption
<1>2. IsFiniteSet(0 .. Pow2[Width] - 1)
  BY <1>1, FS_Interval
<1>3. IsFiniteSet(Keys)
  BY Zenon, <1>2, KeysAssumption, FS_Subset
<1> QED
  BY <1>1, <1>3, KeysAssumption

\* The number of buckets.
LEMMA SizeFacts ==
    ASSUME NEW e \in -1 .. Width
    PROVE  /\ Size(e) \in Nat /\ Size(e) <= Pow2[Width]
           /\ e = -1 => Size(e) = 0
           /\ e # -1 => e \in 0 .. Width /\ Size(e) = Pow2[e] /\ Size(e) > 0
           /\ e # -1 => \A k \in Nat : k % Size(e) \in 0 .. Size(e) - 1
<1>0. Pow2[Width] \in Nat \ {0}
  BY PowNat, WidthAssumption
<1>1. CASE e = -1
  BY <1>0, <1>1 DEF Size
<1>2. CASE e # -1
  <2>1. e \in 0 .. Width /\ Size(e) = Pow2[e] /\ Width \in e .. Width
    BY <1>2, WidthAssumption DEF Size
  <2>2. Pow2[e] \in Nat \ {0} /\ Pow2[e] <= Pow2[Width]
    BY <2>1, PowNat, PowMono
  <2>3. \A k \in Nat : k % Pow2[e] \in 0 .. Pow2[e] - 1
    BY <2>1, BitType
  <2> QED
    BY <1>2, <2>1, <2>2, <2>3
<1> QED
  BY <1>1, <1>2

\* A key of a table is in the bucket its hash names.
LEMMA TableFacts ==
    ASSUME NEW t, NEW e, Table(t, e)
    PROVE  /\ In(t) \subseteq Keys
           /\ DOMAIN t = 0 .. Size(e) - 1
           /\ \A k \in Keys : k \in In(t) <=> e # -1 /\ k \in t[k % Size(e)]
           /\ \A b \in 0 .. Size(e) - 1 : t[b] \subseteq In(t)
<1>1. DOMAIN t = 0 .. Size(e) - 1 /\ e \in -1 .. Width
      /\ \A b \in 0 .. Size(e) - 1 : t[b] \subseteq Keys /\ \A k \in t[b] : k % Size(e) = b
  BY DEF Table
<1>2. \A k : k \in In(t) <=> \E b \in 0 .. Size(e) - 1 : k \in t[b]
  BY <1>1 DEF In
<1>3. ASSUME NEW k \in Keys PROVE k \in In(t) <=> e # -1 /\ k \in t[k % Size(e)]
  <2>1. k \in Nat
    BY KeyFacts
  <2>2. e = -1 => 0 .. Size(e) - 1 = {}
    BY <1>1, SizeFacts
  <2>3. e # -1 => k % Size(e) \in 0 .. Size(e) - 1
    BY <1>1, <2>1, SizeFacts
  <2> QED
    BY <1>1, <1>2, <2>2, <2>3
<1> QED
  BY <1>1, <1>2, <1>3

\* A lookup finds what the tables hold.
LEMMA FindFacts ==
    ASSUME NEW x, Good(x), NEW k \in Keys
    PROVE  dictFind(x, k) <=> k \in Holds(x)
<1>1. k \in In(x.ht[0]) <=> x.exp[0] # -1 /\ k \in x.ht[0][k % Size(x.exp[0])]
  BY TableFacts DEF Good
<1>2. k \in In(x.ht[1]) <=> x.exp[1] # -1 /\ k \in x.ht[1][k % Size(x.exp[1])]
  BY TableFacts DEF Good
<1>3. dictIsRehashing(x) <=> x.exp[1] # -1
  BY DEF Good, dictIsRehashing
<1> QED
  BY <1>1, <1>2, <1>3 DEF dictFind, Bucket, Holds

\* The least element of a set of numbers.
LEMMA MinFacts ==
    ASSUME NEW S \in SUBSET Nat, S # {}
    PROVE  Min(S) \in S /\ \A y \in S : Min(S) <= y
<1>1. PICK m \in S : \A n \in S : ~(<<n, m>> \in OpToRel(<, Nat))
  BY Zenon, NatLessThanWellFounded, WFMin
<1>2. \A n \in S : ~(n < m)
  BY Zenon, <1>1 DEF OpToRel
<1>3. \A n \in S : m <= n
  BY <1>2
<1> QED
  BY Zenon, <1>3 DEF Min

\* _dictNextExp gives a size that fits in a cursor.
LEMMA NextExpFacts ==
    ASSUME NEW n
    PROVE  _dictNextExp(n) \in 0 .. Width
<1> DEFINE S == {e \in InitialExp .. Width : Pow2[e] >= n} \cup {Width}
<1>1. S \in SUBSET Nat /\ S # {} /\ \A e \in S : e \in 0 .. Width
  BY WidthAssumption
<1> HIDE DEF S
<1>2. Min(S) \in S
  BY <1>1, MinFacts
<1> QED
  BY <1>1, <1>2 DEF _dictNextExp, S

\* A new table is empty.
LEMMA BucketsFacts ==
    ASSUME NEW e \in -1 .. Width
    PROVE  Table(Buckets(e), e) /\ In(Buckets(e)) = {}
<1>1. Buckets(e) = [b \in 0 .. Size(e) - 1 |-> {}]
  BY DEF Buckets
<1> QED
  BY <1>1 DEF Table, In

\* The three outcomes of _dictExpand.
LEMMA ExpandParts ==
    ASSUME NEW x, Shape(x), NEW n
    PROVE  LET y == _dictExpand(x, n)
               e == _dictNextExp(n)
           IN  \/ /\ y = x
                  /\ dictIsRehashing(x) \/ used(x, 0) > n \/ e = x.exp[0]
               \/ /\ ~dictIsRehashing(x) /\ x.exp[0] = -1 /\ Shape(y)
                  /\ y.ht[0] = Buckets(e) /\ y.ht[1] = x.ht[1]
                  /\ y.exp[0] = e /\ y.exp[1] = x.exp[1]
                  /\ y.rehashidx = x.rehashidx
               \/ /\ ~dictIsRehashing(x) /\ x.exp[0] # -1 /\ Shape(y)
                  /\ y.ht[1] = Buckets(e) /\ y.ht[0] = x.ht[0]
                  /\ y.exp[1] = e /\ y.exp[0] = x.exp[0]
                  /\ y.rehashidx = 0
<1> DEFINE y == _dictExpand(x, n)
           e == _dictNextExp(n)
           c == dictIsRehashing(x) \/ used(x, 0) > n \/ e = x.exp[0]
<1>0. 0 # 1 /\ 0 \in 0 .. 1 /\ 1 \in 0 .. 1
  OBVIOUS
<1>1. DOMAIN x = {"ht", "exp", "rehashidx"} /\ DOMAIN x.ht = 0 .. 1 /\ DOMAIN x.exp = 0 .. 1
  BY Zenon DEF Shape
<1>2. CASE c
  <2>1. y = x
    BY Zenon, <1>2 DEF _dictExpand
  <2> QED
    BY Zenon, <1>2, <2>1
<1>3. CASE ~c /\ x.exp[0] = -1
  <2>1. y = [x EXCEPT !.ht[0] = Buckets(e), !.exp[0] = e]
    BY Zenon, <1>3 DEF _dictExpand
  <2> HIDE DEF y, e
  <2>2. DOMAIN y = DOMAIN x /\ y.rehashidx = x.rehashidx
    BY Zenon, <1>0, <1>1, <2>1
  <2>3. y.ht = [x.ht EXCEPT ![0] = Buckets(e)] /\ y.exp = [x.exp EXCEPT ![0] = e]
    BY Zenon, <1>0, <1>1, <2>1
  <2>4. /\ DOMAIN y.ht = DOMAIN x.ht /\ DOMAIN y.exp = DOMAIN x.exp
        /\ y.ht[0] = Buckets(e) /\ y.ht[1] = x.ht[1] /\ y.exp[0] = e /\ y.exp[1] = x.exp[1]
    BY <1>0, <1>1, <2>3
  <2> QED
    BY Zenon, <1>3, <2>2, <2>4 DEF Shape, y, e
<1>4. CASE ~c /\ x.exp[0] # -1
  <2>1. y = [x EXCEPT !.ht[1] = Buckets(e), !.exp[1] = e, !.rehashidx = 0]
    BY Zenon, <1>4 DEF _dictExpand
  <2> HIDE DEF y, e
  <2>2. DOMAIN y = DOMAIN x /\ y.rehashidx = 0
    BY Zenon, <1>0, <1>1, <2>1
  <2>3. y.ht = [x.ht EXCEPT ![1] = Buckets(e)] /\ y.exp = [x.exp EXCEPT ![1] = e]
    BY Zenon, <1>0, <1>1, <2>1
  <2>4. /\ DOMAIN y.ht = DOMAIN x.ht /\ DOMAIN y.exp = DOMAIN x.exp
        /\ y.ht[1] = Buckets(e) /\ y.ht[0] = x.ht[0] /\ y.exp[1] = e /\ y.exp[0] = x.exp[0]
    BY <1>0, <1>1, <2>3
  <2> QED
    BY Zenon, <1>4, <2>2, <2>4 DEF Shape, y, e
<1> QED
  BY Zenon, <1>2, <1>3, <1>4

\* The first table is created and the second opened without losing a key.
LEMMA ExpandGood ==
    ASSUME NEW x, Good(x), NEW n
    PROVE  Good(_dictExpand(x, n)) /\ Holds(_dictExpand(x, n)) = Holds(x)
<1> DEFINE y == _dictExpand(x, n)
           e == _dictNextExp(n)
<1>1. e \in 0 .. Width /\ e \in -1 .. Width /\ e # -1
  BY NextExpFacts, WidthAssumption
<1>2. Table(Buckets(e), e) /\ In(Buckets(e)) = {}
  BY <1>1, BucketsFacts
<1>3. \/ y = x
      \/ /\ ~dictIsRehashing(x) /\ x.exp[0] = -1 /\ Shape(y)
         /\ y.ht[0] = Buckets(e) /\ y.ht[1] = x.ht[1]
         /\ y.exp[0] = e /\ y.exp[1] = x.exp[1]
         /\ y.rehashidx = x.rehashidx
      \/ /\ ~dictIsRehashing(x) /\ x.exp[0] # -1 /\ Shape(y)
         /\ y.ht[1] = Buckets(e) /\ y.ht[0] = x.ht[0]
         /\ y.exp[1] = e /\ y.exp[0] = x.exp[0]
         /\ y.rehashidx = 0
  BY ExpandParts DEF Good
<1> HIDE DEF y, e
<1>4. ~dictIsRehashing(x) => x.rehashidx = -1 /\ x.exp[1] = -1
  BY DEF Good, dictIsRehashing
<1>5. x.exp[0] = -1 => In(x.ht[0]) = {}
  BY SizeFacts DEF Good, Table, In
<1>6. x.exp[1] = -1 => In(x.ht[1]) = {}
  BY SizeFacts DEF Good, Table, In
<1>7. Pow2[Width] \in Nat \ {0}
  BY PowNat, WidthAssumption
<1>8. CASE y = x
  BY <1>8 DEF y
<1>9. CASE /\ ~dictIsRehashing(x) /\ x.exp[0] = -1 /\ Shape(y)
           /\ y.ht[0] = Buckets(e) /\ y.ht[1] = x.ht[1]
           /\ y.exp[0] = e /\ y.exp[1] = x.exp[1]
           /\ y.rehashidx = x.rehashidx
  <2>1. Good(y)
    BY <1>1, <1>2, <1>4, <1>9 DEF Good
  <2>2. Holds(y) = Holds(x)
    BY <1>2, <1>5, <1>9 DEF Holds
  <2> QED
    BY <2>1, <2>2 DEF y
<1>10. CASE /\ ~dictIsRehashing(x) /\ x.exp[0] # -1 /\ Shape(y)
            /\ y.ht[1] = Buckets(e) /\ y.ht[0] = x.ht[0]
            /\ y.exp[1] = e /\ y.exp[0] = x.exp[0]
            /\ y.rehashidx = 0
  <2>1. Good(y)
    BY <1>1, <1>2, <1>7, <1>10 DEF Good
  <2>2. Holds(y) = Holds(x)
    BY <1>2, <1>4, <1>6, <1>10 DEF Holds
  <2> QED
    BY <2>1, <2>2 DEF y
<1> QED
  BY <1>3, <1>8, <1>9, <1>10

\* A key needs a table to go to: the first one is there after this.
LEMMA ExpandIfNeededGood ==
    ASSUME NEW x, Good(x)
    PROVE  LET y == _dictExpandIfNeeded(x)
           IN  Good(y) /\ Holds(y) = Holds(x) /\ y.exp[0] # -1
<1> DEFINE y == _dictExpandIfNeeded(x)
           n == used(x, 0)
           s == Size(x.exp[0])
<1>1. CASE dictIsRehashing(x)
  <2>1. y = x
    BY Zenon, <1>1 DEF _dictExpandIfNeeded
  <2>2. x.exp[0] # -1
    BY <1>1 DEF Good, dictIsRehashing
  <2> QED
    BY Zenon, <2>1, <2>2
<1>2. CASE ~dictIsRehashing(x) /\ s = 0
  <2> DEFINE m == Size(InitialExp)
             e == _dictNextExp(m)
  <2>1. y = _dictExpand(x, m)
    BY Zenon, <1>2 DEF _dictExpandIfNeeded
  <2>2. x.exp[0] = -1
    BY <1>2, SizeFacts DEF Good, Table
  <2>3. In(x.ht[0]) = {}
    BY <2>2, TableFacts DEF Good
  <2>4. n = 0
    BY <2>3, FS_EmptySet DEF used
  <2>5. m \in Nat
    BY SizeFacts, WidthAssumption
  <2>6. e \in 0 .. Width /\ e # -1
    BY NextExpFacts, WidthAssumption
  <2>7. ~(dictIsRehashing(x) \/ used(x, 0) > m \/ e = x.exp[0])
    BY <1>2, <2>2, <2>4, <2>5, <2>6
  <2>8. Shape(x)
    BY DEF Good
  <2> HIDE DEF m
  <2>9. y.exp[0] = e
    BY Zenon, <2>1, <2>2, <2>7, <2>8, ExpandParts
  <2>10. Good(y) /\ Holds(y) = Holds(x)
    BY Zenon, <2>1, ExpandGood
  <2> QED
    BY Zenon, <2>6, <2>9, <2>10
<1>3. CASE ~dictIsRehashing(x) /\ s # 0
  <2>1. x.exp[0] # -1
    BY <1>3 DEF Size
  <2>2. CASE y = x
    BY Zenon, <2>1, <2>2
  <2>3. CASE y = _dictExpand(x, n + 1)
    <3>1. Good(y) /\ Holds(y) = Holds(x)
      BY Zenon, <2>3, ExpandGood
    <3>2. Shape(x)
      BY DEF Good
    <3>3. \/ _dictExpand(x, n + 1) = x
          \/ _dictExpand(x, n + 1).exp[0] = x.exp[0]
      BY Zenon, <2>1, <3>2, ExpandParts
    <3>4. y.exp[0] = x.exp[0]
      BY Zenon, <2>3, <3>3
    <3> QED
      BY Zenon, <2>1, <3>1, <3>4
  <2> QED
    BY Zenon, <1>3, <2>2, <2>3 DEF _dictExpandIfNeeded
<1> QED
  BY Zenon, <1>1, <1>2, <1>3

\* The second table, moved to the first place.
LEMMA SwappedGood ==
    ASSUME NEW x, Good(x), x.rehashidx # -1, In(x.ht[0]) = {}
    PROVE  Good(Swapped(x)) /\ Holds(Swapped(x)) = Holds(x)
<1> DEFINE y == Swapped(x)
<1>1. /\ Shape(y) /\ y.rehashidx = -1
      /\ y.ht[0] = x.ht[1] /\ y.ht[1] = Buckets(-1) /\ y.exp[0] = x.exp[1] /\ y.exp[1] = -1
  BY DEF Swapped, Shape
<1>2. -1 \in -1 .. Width
  BY WidthAssumption
<1>3. Table(Buckets(-1), -1) /\ In(Buckets(-1)) = {}
  BY <1>2, BucketsFacts
<1>4. Pow2[Width] \in Nat
  BY PowNat, WidthAssumption
<1> HIDE DEF y
<1>5. Good(y)
  BY <1>1, <1>3, <1>4 DEF Good
<1>6. Holds(y) = Holds(x)
  BY <1>1, <1>3 DEF Holds
<1> QED
  BY <1>5, <1>6 DEF y

\* y is x with bucket b moved.
Moves(x, b, y) ==
    /\ Shape(y)
    /\ y.ht[0] = [x.ht[0] EXCEPT ![b] = {}]
    /\ y.ht[1] = [h \in DOMAIN x.ht[1] |->
                    x.ht[1][h] \cup {k \in x.ht[0][b] : Home(x, b, k) = h}]
    /\ y.exp = x.exp /\ y.rehashidx = b + 1

\* MoveBucket moves bucket b and nothing else.
LEMMA MoveParts ==
    ASSUME NEW x, Shape(x), NEW b, NEW y, y = MoveBucket(x, b)
    PROVE  Moves(x, b, y)
<1> DEFINE t == [h \in DOMAIN x.ht[1] |-> x.ht[1][h] \cup {k \in x.ht[0][b] : Home(x, b, k) = h}]
<1>0. 0 # 1 /\ 0 \in 0 .. 1 /\ 1 \in 0 .. 1
  OBVIOUS
<1>1. DOMAIN x = {"ht", "exp", "rehashidx"} /\ DOMAIN x.ht = 0 .. 1 /\ DOMAIN x.exp = 0 .. 1
  BY Zenon DEF Shape
<1>2. y.exp = x.exp /\ y.rehashidx = b + 1
  BY Zenon, <1>0, <1>1 DEF MoveBucket
<1>6. DOMAIN y = DOMAIN x
  BY Zenon DEF MoveBucket
<1>3. DOMAIN y.ht = DOMAIN x.ht
  BY Zenon, <1>1 DEF MoveBucket
<1>4. y.ht[0] = [x.ht[0] EXCEPT ![b] = {}]
  BY Zenon, <1>0, <1>1 DEF MoveBucket
<1>5. y.ht[1] = t
  BY Zenon, <1>0, <1>1 DEF MoveBucket
<1> QED
  BY Zenon, <1>1, <1>2, <1>3, <1>4, <1>5, <1>6 DEF Shape, Moves

\* Masking the index of a bucket of the larger table gives what masking the hash gives.
LEMMA HomeFacts ==
    ASSUME NEW x, Good(x), x.rehashidx # -1, NEW b \in 0 .. Size(x.exp[0]) - 1,
           NEW k \in x.ht[0][b]
    PROVE  /\ k \in Keys
           /\ Home(x, b, k) = k % Size(x.exp[1])
           /\ Home(x, b, k) \in 0 .. Size(x.exp[1]) - 1
<1> DEFINE s == x.exp[0]
           t == x.exp[1]
<1>1. s \in -1 .. Width /\ t \in -1 .. Width /\ s # -1 /\ t # -1
  BY DEF Good, Table
<1>2. /\ s \in 0 .. Width /\ Size(s) = Pow2[s]
      /\ t \in 0 .. Width /\ Size(t) = Pow2[t]
      /\ \A j \in Nat : j % Size(t) \in 0 .. Size(t) - 1
  BY <1>1, SizeFacts
<1>3. k \in Keys /\ k % Size(s) = b
  BY Zenon DEF Good, Table
<1>4. k \in Nat
  BY <1>3, KeyFacts
<1>5. ~(t > s) => b % Size(t) = k % Size(t)
  BY <1>2, <1>3, <1>4, ModMod, WidthAssumption
<1> QED
  BY <1>2, <1>3, <1>4, <1>5 DEF Home

\* A bucket moves to the second table whole.
LEMMA MoveGood ==
    ASSUME NEW x, Good(x), x.rehashidx # -1, NEW b \in 0 .. Size(x.exp[0]) - 1,
           \A c \in 0 .. Size(x.exp[0]) - 1 : c < b => x.ht[0][c] = {}
    PROVE  /\ Good(MoveBucket(x, b)) /\ Holds(MoveBucket(x, b)) = Holds(x)
           /\ MoveBucket(x, b).rehashidx # -1
<1> DEFINE y == MoveBucket(x, b)
           s == x.exp[0]
           e == x.exp[1]
           m == x.ht[0][b]
<1>0. Shape(x)
  BY DEF Good
<1>a. y = MoveBucket(x, b)
  OBVIOUS
<1> HIDE DEF y
<1>1. /\ Shape(y) /\ y.exp = x.exp /\ y.rehashidx = b + 1
      /\ y.ht[0] = [x.ht[0] EXCEPT ![b] = {}]
      /\ y.ht[1] = [h \in DOMAIN x.ht[1] |-> x.ht[1][h] \cup {k \in m : Home(x, b, k) = h}]
  <2>1. Moves(x, b, y)
    BY <1>0, <1>a, MoveParts
  <2> QED
    BY Zenon, <2>1 DEF Moves
<1>b. b \in 0 .. Size(s) - 1
  OBVIOUS
<1>2. /\ Table(x.ht[0], s) /\ Table(x.ht[1], e) /\ s \in -1 .. Width /\ e \in -1 .. Width
      /\ s # -1 /\ e # -1 /\ In(x.ht[0]) \cap In(x.ht[1]) = {}
  BY DEF Good, Table
<1>3. \A k \in m : k \in Keys /\ Home(x, b, k) = k % Size(e) /\ k % Size(e) \in 0 .. Size(e) - 1
  BY HomeFacts
<1>4. Size(s) \in Nat /\ Size(s) <= Pow2[Width] /\ Pow2[Width] \in Nat
  BY <1>2, SizeFacts, PowNat, WidthAssumption
<1>5. /\ DOMAIN x.ht[0] = 0 .. Size(s) - 1 /\ DOMAIN x.ht[1] = 0 .. Size(e) - 1
      /\ x.ht[0] \in [0 .. Size(s) - 1 -> SUBSET Keys]
      /\ x.ht[1] \in [0 .. Size(e) - 1 -> SUBSET Keys]
      /\ \A c \in 0 .. Size(s) - 1 : \A k \in x.ht[0][c] : k % Size(s) = c
      /\ \A c \in 0 .. Size(e) - 1 : \A k \in x.ht[1][c] : k % Size(e) = c
  BY <1>2 DEF Table
<1> HIDE DEF s, e, m
<1>6. /\ y.ht[0] \in [0 .. Size(s) - 1 -> SUBSET Keys]
      /\ y.ht[0][b] = {}
      /\ \A c \in 0 .. Size(s) - 1 : c # b => y.ht[0][c] = x.ht[0][c]
  BY Zenon, <1>1, <1>5, <1>b
<1>7. /\ y.ht[1] \in [0 .. Size(e) - 1 -> SUBSET Keys]
      /\ \A h \in 0 .. Size(e) - 1 :
            y.ht[1][h] = x.ht[1][h] \cup {k \in m : Home(x, b, k) = h}
  <2>1. m \subseteq Keys
    BY <1>3
  <2>2. \A h \in 0 .. Size(e) - 1 :
            x.ht[1][h] \cup {k \in m : Home(x, b, k) = h} \in SUBSET Keys
    BY Zenon, <1>5, <2>1
  <2> QED
    BY <1>1, <1>5, <2>2
<1>8. Table(y.ht[0], s)
  BY <1>2, <1>5, <1>6 DEF Table
<1>9. Table(y.ht[1], e)
  BY <1>2, <1>3, <1>5, <1>7 DEF Table
<1>10. In(y.ht[0]) = In(x.ht[0]) \ m
  <2>1. \A k \in m : k % Size(s) = b
    BY <1>5 DEF m, s
  <2>2. \A c \in 0 .. Size(s) - 1 : c # b => x.ht[0][c] \cap m = {}
    BY <1>5, <2>1
  <2>3. DOMAIN y.ht[0] = 0 .. Size(s) - 1 /\ DOMAIN x.ht[0] = 0 .. Size(s) - 1
    BY <1>5, <1>6
  <2>4. x.ht[0][b] = m /\ b \in 0 .. Size(s) - 1
    BY <1>b DEF m
  <2>5. /\ \A k : k \in In(x.ht[0]) <=> \E c \in 0 .. Size(s) - 1 : k \in x.ht[0][c]
        /\ \A k : k \in In(y.ht[0]) <=> \E c \in 0 .. Size(s) - 1 : k \in y.ht[0][c]
    BY Zenon, <2>3, InFacts
  <2>6. \A c \in 0 .. Size(s) - 1 : \A k : k \in y.ht[0][c] <=> k \in x.ht[0][c] /\ k \notin m
    BY <1>6, <2>2, <2>4
  <2>7. \A k : k \in In(y.ht[0]) <=> k \in In(x.ht[0]) /\ k \notin m
    BY Zenon, <2>5, <2>6
  <2> QED
    BY Zenon, <2>7
<1>11. In(y.ht[1]) = In(x.ht[1]) \cup m
  <2>1. /\ \A k : k \in In(x.ht[1]) <=> \E h \in 0 .. Size(e) - 1 : k \in x.ht[1][h]
        /\ \A k : k \in In(y.ht[1]) <=> \E h \in 0 .. Size(e) - 1 : k \in y.ht[1][h]
    <3>1. DOMAIN y.ht[1] = 0 .. Size(e) - 1 /\ DOMAIN x.ht[1] = 0 .. Size(e) - 1
      BY Zenon, <1>1, <1>5
    <3> QED
      BY Zenon, <3>1, InFacts
  <2>2. \A k \in m : \E h \in 0 .. Size(e) - 1 : k \in y.ht[1][h]
    BY <1>3, <1>7
  <2>3. \A k : (\E h \in 0 .. Size(e) - 1 : k \in x.ht[1][h])
                => \E h \in 0 .. Size(e) - 1 : k \in y.ht[1][h]
    BY <1>7
  <2>4. \A h \in 0 .. Size(e) - 1 : \A k \in y.ht[1][h] : k \in x.ht[1][h] \/ k \in m
    BY <1>7
  <2> QED
    BY <2>1, <2>2, <2>3, <2>4
<1>12. m \subseteq In(x.ht[0])
  BY <1>5 DEF m, In, s
<1>13. Holds(y) = Holds(x) /\ In(y.ht[0]) \cap In(y.ht[1]) = {}
  BY <1>2, <1>10, <1>11, <1>12 DEF Holds
<1>14. y.rehashidx \in -1 .. Pow2[Width] /\ y.rehashidx # -1
  BY <1>1, <1>4 DEF s
<1>15. \A c \in 0 .. Size(s) - 1 : c < y.rehashidx => y.ht[0][c] = {}
  BY <1>1, <1>6 DEF s
<1>16. y.exp[0] = s /\ y.exp[1] = e
  BY <1>1 DEF s, e
<1>17. Good(y)
  BY Zenon, <1>1, <1>2, <1>8, <1>9, <1>13, <1>14, <1>15, <1>16 DEF Good
<1> QED
  BY <1>13, <1>14, <1>17 DEF y

\* A table counts no key exactly when it holds none.
LEMMA UsedFacts ==
    ASSUME NEW x, Good(x)
    PROVE  used(x, 0) = 0 <=> In(x.ht[0]) = {}
<1>1. In(x.ht[0]) \subseteq Keys
  BY TableFacts DEF Good
<1>2. IsFiniteSet(In(x.ht[0]))
  BY <1>1, KeyFacts, FS_Subset
<1> QED
  BY <1>2, FS_EmptySet DEF used

\* A step of rehashing loses and invents nothing.
LEMMA RehashGood ==
    ASSUME NEW x, Good(x)
    PROVE  Good(dictRehash(x)) /\ Holds(dictRehash(x)) = Holds(x)
<1> DEFINE full == {b \in DOMAIN x.ht[0] : b >= x.rehashidx /\ x.ht[0][b] # {}}
           moved == MoveBucket(x, Min(full))
           y == dictRehash(x)
<1>1. CASE ~dictIsRehashing(x) \/ Postponed(x)
  <2>1. y = x
    BY Zenon, <1>1 DEF dictRehash
  <2> QED
    BY Zenon, <2>1
<1>2. CASE ~(~dictIsRehashing(x) \/ Postponed(x)) /\ used(x, 0) = 0
  <2>1. y = Swapped(x)
    BY Zenon, <1>2 DEF dictRehash
  <2>2. x.rehashidx # -1 /\ In(x.ht[0]) = {}
    BY <1>2, UsedFacts DEF dictIsRehashing
  <2> QED
    BY Zenon, <2>1, <2>2, SwappedGood
<1>3. CASE ~(~dictIsRehashing(x) \/ Postponed(x)) /\ used(x, 0) # 0
  <2> DEFINE s == Size(x.exp[0])
             m == Min(full)
  <2>1. x.rehashidx # -1 /\ In(x.ht[0]) # {}
    BY <1>3, UsedFacts DEF dictIsRehashing
  <2>2. /\ DOMAIN x.ht[0] = 0 .. s - 1 /\ x.exp[0] \in -1 .. Width /\ Shape(x)
        /\ x.rehashidx \in -1 .. Pow2[Width]
        /\ \A b \in 0 .. s - 1 : b < x.rehashidx => x.ht[0][b] = {}
    BY DEF Good, Table
  <2>3. s \in Nat /\ s <= Pow2[Width] /\ Pow2[Width] \in Nat
    <3>1. Pow2[Width] \in Nat
      BY PowNat, WidthAssumption
    <3> QED
      BY <2>2, <3>1, SizeFacts
  <2>4. full \in SUBSET Nat /\ \A b \in full : b \in 0 .. s - 1 /\ b >= x.rehashidx
    BY <2>2, <2>3
  <2>5. full # {}
    BY <2>1, <2>2, <2>3 DEF In
  <2>6. \A c \in 0 .. s - 1 : c \in full <=> c >= x.rehashidx /\ x.ht[0][c] # {}
    BY <2>2
  <2> HIDE DEF full
  <2>7. m \in full /\ \A c \in full : m <= c
    BY <2>4, <2>5, MinFacts
  <2>8. m \in 0 .. s - 1 /\ m >= x.rehashidx
    BY Zenon, <2>4, <2>7
  <2>9. \A c \in 0 .. s - 1 : c < m => x.ht[0][c] = {}
    BY <2>2, <2>3, <2>6, <2>7, <2>8
  <2>10. CASE m - x.rehashidx >= EmptyVisits
    <3>1. y = [x EXCEPT !.rehashidx = @ + EmptyVisits]
      BY Zenon, <1>3, <2>10 DEF dictRehash, full
    <3>2. "rehashidx" \in DOMAIN x
      BY Zenon, <2>2 DEF Shape
    <3>3. y.rehashidx = x.rehashidx + EmptyVisits
      BY Zenon, <3>1, <3>2
    <3>4. y.ht = x.ht /\ y.exp = x.exp /\ DOMAIN y = DOMAIN x
      BY Zenon, <2>2, <3>1 DEF Shape
    <3> HIDE DEF y, m
    <3>5. Shape(y)
      BY Zenon, <2>2, <3>4 DEF Shape
    <3>6. y.rehashidx \in -1 .. Pow2[Width] /\ y.rehashidx # -1 /\ y.rehashidx <= m
      BY <2>1, <2>2, <2>3, <2>8, <2>10, <3>3, VisitsAssumption
    <3>7. \A c \in 0 .. s - 1 : c < y.rehashidx => y.ht[0][c] = {}
      BY <2>3, <2>8, <2>9, <3>4, <3>6
    <3>8. Good(y)
      BY <2>1, <3>4, <3>5, <3>6, <3>7 DEF Good
    <3>9. Holds(y) = Holds(x)
      BY Zenon, <3>4 DEF Holds
    <3> QED
      BY Zenon, <3>8, <3>9 DEF y
  <2>11. CASE ~(m - x.rehashidx >= EmptyVisits)
    <3>1. y = IF used(moved, 0) = 0 THEN Swapped(moved) ELSE moved
      BY Zenon, <1>3, <2>11 DEF dictRehash, full
    <3>2. Good(moved) /\ Holds(moved) = Holds(x) /\ moved.rehashidx # -1
      BY <2>1, <2>8, <2>9, MoveGood
    <3> HIDE DEF moved
    <3>3. CASE used(moved, 0) = 0
      <4>1. In(moved.ht[0]) = {}
        BY <3>2, <3>3, UsedFacts
      <4>2. Good(Swapped(moved)) /\ Holds(Swapped(moved)) = Holds(moved)
        BY Zenon, <3>2, <4>1, SwappedGood
      <4> QED
        BY Zenon, <3>1, <3>2, <3>3, <4>2
    <3>4. CASE used(moved, 0) # 0
      BY Zenon, <3>1, <3>2, <3>4
    <3> QED
      BY Zenon, <3>3, <3>4
  <2> QED
    BY Zenon, <2>10, <2>11
<1> QED
  BY Zenon, <1>1, <1>2, <1>3

\* y is x with key k in bucket h of table i.
Inserts(x, k, i, h, y) ==
    /\ Shape(y) /\ y.exp = x.exp /\ y.rehashidx = x.rehashidx
    /\ y.ht[i] = [x.ht[i] EXCEPT ![h] = x.ht[i][h] \cup {k}]
    /\ \A j \in 0 .. 1 : j # i => y.ht[j] = x.ht[j]

\* dictInsertAtPosition changes one bucket of the table that stays.
LEMMA InsertParts ==
    ASSUME NEW x, Shape(x), NEW k, NEW i \in 0 .. 1, i = IF dictIsRehashing(x) THEN 1 ELSE 0,
           NEW h, h = k % Size(x.exp[i]), NEW y, y = dictInsertAtPosition(x, k)
    PROVE  Inserts(x, k, i, h, y)
<1>1. DOMAIN x = {"ht", "exp", "rehashidx"} /\ DOMAIN x.ht = 0 .. 1 /\ DOMAIN x.exp = 0 .. 1
  BY Zenon DEF Shape
<1>2. y = [x EXCEPT !.ht[i][h] = x.ht[i][h] \cup {k}]
  BY Zenon DEF dictInsertAtPosition
<1>3. DOMAIN y = DOMAIN x
  BY Zenon, <1>2
<1>4. y.exp = x.exp /\ y.rehashidx = x.rehashidx
  BY Zenon, <1>1, <1>2
<1>5. y.ht = [x.ht EXCEPT ![i][h] = x.ht[i][h] \cup {k}]
  BY Zenon, <1>1, <1>2
<1>6. y.ht[i] = [x.ht[i] EXCEPT ![h] = x.ht[i][h] \cup {k}] /\ DOMAIN y.ht = DOMAIN x.ht
  BY Zenon, <1>1, <1>5
<1>7. \A j \in 0 .. 1 : j # i => y.ht[j] = x.ht[j]
  BY Zenon, <1>1, <1>5
<1> QED
  BY Zenon, <1>1, <1>3, <1>4, <1>6, <1>7 DEF Shape, Inserts

\* After an insertion the dictionary holds one more key, where lookups find it.
LEMMA InsertGood ==
    ASSUME NEW x, Good(x), x.exp[0] # -1, NEW k \in Keys, k \notin Holds(x)
    PROVE  LET y == dictInsertAtPosition(x, k)
           IN  Good(y) /\ Holds(y) = Holds(x) \cup {k}
<1> DEFINE y == dictInsertAtPosition(x, k)
           i == IF dictIsRehashing(x) THEN 1 ELSE 0
           e == x.exp[i]
           h == k % Size(e)
<1>0. i \in 0 .. 1 /\ i = IF dictIsRehashing(x) THEN 1 ELSE 0
  OBVIOUS
<1>a. h = k % Size(e) /\ y = dictInsertAtPosition(x, k)
  OBVIOUS
<1>1. /\ Shape(y) /\ y.exp = x.exp /\ y.rehashidx = x.rehashidx
      /\ y.ht[i] = [x.ht[i] EXCEPT ![h] = x.ht[i][h] \cup {k}]
      /\ \A j \in 0 .. 1 : j # i => y.ht[j] = x.ht[j]
  <2>1. Shape(x)
    BY DEF Good
  <2> HIDE DEF i, h, y
  <2>2. Inserts(x, k, i, h, y)
    BY <1>0, <1>a, <2>1, InsertParts
  <2> QED
    BY Zenon, <2>2 DEF Inserts
<1>2. Table(x.ht[i], e) /\ e # -1 /\ e \in -1 .. Width
  BY DEF Good, Table, dictIsRehashing
<1>3. k \in Nat /\ h \in 0 .. Size(e) - 1
  BY <1>2, KeyFacts, SizeFacts
<1>4. /\ DOMAIN x.ht[i] = 0 .. Size(e) - 1
      /\ x.ht[i] \in [0 .. Size(e) - 1 -> SUBSET Keys]
      /\ \A c \in 0 .. Size(e) - 1 : \A j \in x.ht[i][c] : j % Size(e) = c
  BY <1>2 DEF Table
<1>5. i = 0 => x.rehashidx = -1
  BY DEF dictIsRehashing
<1> HIDE DEF y, i, e, h
<1>6. /\ y.ht[i] \in [0 .. Size(e) - 1 -> SUBSET Keys]
      /\ y.ht[i][h] = x.ht[i][h] \cup {k}
      /\ \A c \in 0 .. Size(e) - 1 : c # h => y.ht[i][c] = x.ht[i][c]
  BY Zenon, <1>1, <1>3, <1>4
<1>7. Table(y.ht[i], e)
  BY <1>2, <1>4, <1>6, <1>a DEF Table
<1>8. In(y.ht[i]) = In(x.ht[i]) \cup {k}
  <2>1. /\ \A j : j \in In(x.ht[i]) <=> \E c \in 0 .. Size(e) - 1 : j \in x.ht[i][c]
        /\ \A j : j \in In(y.ht[i]) <=> \E c \in 0 .. Size(e) - 1 : j \in y.ht[i][c]
    <3>1. DOMAIN y.ht[i] = 0 .. Size(e) - 1
      BY <1>6
    <3> QED
      BY Zenon, <1>4, <3>1, InFacts
  <2>2. k \in y.ht[i][h] /\ \A c \in 0 .. Size(e) - 1 : x.ht[i][c] \subseteq y.ht[i][c]
    BY <1>6
  <2>3. \A c \in 0 .. Size(e) - 1 : \A j \in y.ht[i][c] : j \in x.ht[i][c] \/ j = k
    BY <1>6
  <2> QED
    BY <1>3, <2>1, <2>2, <2>3
<1>9. k \notin In(x.ht[0]) /\ k \notin In(x.ht[1])
  BY DEF Holds
<1>b. /\ Table(x.ht[0], x.exp[0]) /\ Table(x.ht[1], x.exp[1])
      /\ x.rehashidx \in -1 .. Pow2[Width]
      /\ x.rehashidx = -1 <=> x.exp[1] = -1
      /\ \A c \in 0 .. Size(x.exp[0]) - 1 : c < x.rehashidx => x.ht[0][c] = {}
      /\ In(x.ht[0]) \cap In(x.ht[1]) = {}
  BY Zenon DEF Good
<1>10. CASE i = 0
  <2>1. y.ht[1] = x.ht[1] /\ In(y.ht[0]) = In(x.ht[0]) \cup {k} /\ Table(y.ht[0], x.exp[0])
    <3>1. 1 \in 0 .. 1 /\ 1 # 0
      OBVIOUS
    <3> QED
      BY Zenon, <1>1, <1>7, <1>8, <1>10, <3>1 DEF e
  <2>2. In(y.ht[0]) \cap In(y.ht[1]) = {} /\ Holds(y) = Holds(x) \cup {k}
    BY <1>b, <1>9, <2>1 DEF Holds
  <2>3. \A c \in 0 .. Size(x.exp[0]) - 1 : ~(c < y.rehashidx)
    BY <1>1, <1>5, <1>10
  <2>4. Good(y)
    BY <1>1, <1>b, <1>5, <1>10, <2>1, <2>2, <2>3 DEF Good
  <2> QED
    BY Zenon, <2>2, <2>4 DEF y
<1>11. CASE i = 1
  <2>1. y.ht[0] = x.ht[0] /\ In(y.ht[1]) = In(x.ht[1]) \cup {k} /\ Table(y.ht[1], x.exp[1])
    <3>1. 0 \in 0 .. 1 /\ 0 # 1
      OBVIOUS
    <3> QED
      BY Zenon, <1>1, <1>7, <1>8, <1>11, <3>1 DEF e
  <2>2. In(y.ht[0]) \cap In(y.ht[1]) = {} /\ Holds(y) = Holds(x) \cup {k}
    BY <1>b, <1>9, <2>1 DEF Holds
  <2>3. Good(y)
    BY <1>1, <1>b, <2>1, <2>2 DEF Good
  <2> QED
    BY Zenon, <2>2, <2>3 DEF y
<1> QED
  BY <1>0, <1>10, <1>11 DEF y

\* y is x without the keys in gone, each looked for in its bucket.
Lacks(x, gone, y) ==
    /\ Shape(y) /\ y.exp = x.exp /\ y.rehashidx = x.rehashidx
    /\ \A i \in 0 .. 1 : y.ht[i] = [b \in DOMAIN x.ht[i] |->
         {k \in x.ht[i][b] : ~(k \in gone /\ b = k % Size(x.exp[i]))}]

\* Deletion changes only the buckets its keys are in.
LEMMA WithoutParts ==
    ASSUME NEW x, Shape(x), NEW gone, NEW y, y = Without(x, gone)
    PROVE  Lacks(x, gone, y)
<1> DEFINE t == [i \in 0 .. 1 |-> [b \in DOMAIN x.ht[i] |->
                    {k \in x.ht[i][b] : ~(k \in gone /\ b = k % Size(x.exp[i]))}]]
<1>1. DOMAIN x = {"ht", "exp", "rehashidx"} /\ DOMAIN x.ht = 0 .. 1 /\ DOMAIN x.exp = 0 .. 1
  BY Zenon DEF Shape
<1>2. y = [x EXCEPT !.ht = t]
  BY Zenon DEF Without
<1>3. DOMAIN t = 0 .. 1
  BY Zenon
<1>4. \A i \in 0 .. 1 : t[i] = [b \in DOMAIN x.ht[i] |->
                    {k \in x.ht[i][b] : ~(k \in gone /\ b = k % Size(x.exp[i]))}]
  BY Zenon
<1> HIDE DEF t
<1>5. y.ht = t /\ y.exp = x.exp /\ y.rehashidx = x.rehashidx /\ DOMAIN y = DOMAIN x
  BY Zenon, <1>1, <1>2
<1> QED
  BY Zenon, <1>1, <1>3, <1>4, <1>5 DEF Shape, Lacks

\* Only the deleted keys go.
LEMMA WithoutGood ==
    ASSUME NEW x, Good(x), NEW gone
    PROVE  Good(Without(x, gone)) /\ Holds(Without(x, gone)) = Holds(x) \ gone
<1> DEFINE y == Without(x, gone)
<1>0. Shape(x) /\ y = Without(x, gone)
  BY DEF Good
<1> HIDE DEF y
<1>1. /\ Shape(y) /\ y.exp = x.exp /\ y.rehashidx = x.rehashidx
      /\ \A i \in 0 .. 1 : y.ht[i] = [b \in DOMAIN x.ht[i] |->
            {k \in x.ht[i][b] : ~(k \in gone /\ b = k % Size(x.exp[i]))}]
  <2>1. Lacks(x, gone, y)
    BY <1>0, WithoutParts
  <2> QED
    BY Zenon, <2>1 DEF Lacks
<1>2. ASSUME NEW i \in 0 .. 1
      PROVE  /\ Table(y.ht[i], y.exp[i])
             /\ In(y.ht[i]) = In(x.ht[i]) \ gone
             /\ \A b \in 0 .. Size(x.exp[i]) - 1 : y.ht[i][b] \subseteq x.ht[i][b]
  <2> DEFINE e == x.exp[i]
             t == x.ht[i]
             u == y.ht[i]
  <2>1. Table(t, e)
    BY DEF Good
  <2>2. u = [b \in DOMAIN t |-> {k \in t[b] : ~(k \in gone /\ b = k % Size(e))}]
    BY Zenon, <1>1, <1>2
  <2>3. y.exp[i] = e
    BY Zenon, <1>1
  <2> HIDE DEF e, t, u
  <2>4. /\ DOMAIN t = 0 .. Size(e) - 1 /\ t \in [0 .. Size(e) - 1 -> SUBSET Keys]
        /\ e \in -1 .. Width
        /\ \A b \in 0 .. Size(e) - 1 : \A k \in t[b] : k % Size(e) = b
    BY <2>1 DEF Table
  <2>5. \A b \in 0 .. Size(e) - 1 : u[b] = {k \in t[b] : ~(k \in gone /\ b = k % Size(e))}
    BY <2>2, <2>4
  <2>6. \A b \in 0 .. Size(e) - 1 : u[b] = t[b] \ gone
    BY <2>4, <2>5
  <2>7. u \in [0 .. Size(e) - 1 -> SUBSET Keys] /\ DOMAIN u = 0 .. Size(e) - 1
    BY <2>2, <2>4
  <2>8. Table(u, e)
    BY <2>4, <2>6, <2>7 DEF Table
  <2>9. In(u) = In(t) \ gone
    BY <2>4, <2>6, <2>7 DEF In
  <2> QED
    BY <2>3, <2>6, <2>8, <2>9 DEF e, t, u
<1>3. 0 \in 0 .. 1 /\ 1 \in 0 .. 1
  OBVIOUS
<1>4. /\ In(y.ht[0]) = In(x.ht[0]) \ gone /\ In(y.ht[1]) = In(x.ht[1]) \ gone
      /\ Table(y.ht[0], y.exp[0]) /\ Table(y.ht[1], y.exp[1])
      /\ \A b \in 0 .. Size(x.exp[0]) - 1 : y.ht[0][b] \subseteq x.ht[0][b]
  BY Zenon, <1>2, <1>3
<1>5. Good(y)
  BY <1>1, <1>4 DEF Good
<1>6. Holds(y) = Holds(x) \ gone
  BY <1>4 DEF Holds
<1> QED
  BY <1>5, <1>6 DEF y

-----------------------------------------------------------------------------
(* The cursor of a scan                                                      *)

\* The cursor 0 is the first in reverse order.
LEMMA RevZero == \A n \in 0 .. Width : rev(0, n) = 0
<1> DEFINE G == {n \in 0 .. Width : rev(0, n) = 0}
<1>1. 0 \in G
  BY RevEq, WidthAssumption
<1>2. ASSUME NEW n \in 0 .. Width - 1, n \in G PROVE n + 1 \in G
  <2>1. n \in 0 .. Width /\ n + 1 \in 0 .. Width /\ Pow2[n] \in Nat \ {0}
    BY PowNat, WidthAssumption
  <2>2. Bit(0, n) = 0
    BY <2>1, BitType
  <2>3. rev(0, n + 1) = 2 * rev(0, n) + Bit(0, n)
    BY RevEq
  <2>4. rev(0, n) = 0
    BY <1>2
  <2>5. rev(0, n + 1) = 0
    BY <2>2, <2>3, <2>4
  <2> QED
    BY <2>1, <2>5
<1> HIDE DEF G
<1>3. 0 .. Width \subseteq G
  BY <1>1, <1>2, WidthInd
<1> QED
  BY <1>3 DEF G

\* In reverse order a call adds one to the cursor; running out of it gives 0.
LEMMA CursorStep ==
    ASSUME NEW c \in Nat, NEW e \in 0 .. Width, NEW n, n = NextCursor(c, e)
    PROVE  /\ n \in 0 .. Pow2[e] - 1 /\ n \in 0 .. Pow2[Width] - 1
           /\ n = 0 <=> rev(c, e) + 1 = Pow2[e]
           /\ n # 0 => rev(n, e) = rev(c, e) + 1
<1> DEFINE p == Pow2[e]
           r == rev(c, e)
           m == (r + 1) % p
<1>1. p \in Nat \ {0} /\ Pow2[Width] \in Nat /\ p <= Pow2[Width] /\ e \in 0 .. e
  BY PowNat, PowMono, WidthAssumption
<1>2. r \in 0 .. p - 1
  BY RevType
<1>3. Size(e) = p /\ rev(c % p, e) = r
  BY <1>1, RevMod DEF Size
<1>4. n = rev(m, e)
  BY <1>3 DEF NextCursor
<1> HIDE DEF p, r
<1>5. m \in 0 .. p - 1 /\ (r + 1 < p => m = r + 1) /\ (r + 1 = p => m = 0)
  BY <1>1, <1>2
<1> HIDE DEF m
<1>6. m \in Nat
  BY <1>1, <1>5
<1>7. n \in 0 .. p - 1
  BY <1>4, <1>6, RevType DEF p
<1>8. rev(n, e) = m
  BY <1>4, <1>5, RevRev DEF p
<1>9. m = 0 => n = 0
  BY <1>4, RevZero
<1>10. n = 0 => m = 0
  BY <1>8, RevZero
<1> QED
  BY <1>1, <1>2, <1>5, <1>7, <1>8, <1>9, <1>10 DEF p, r

\* A key still to come that is not in the cursor's bucket is still to come after it.
LEMMA ScanLeaves ==
    ASSUME NEW c \in Nat, NEW k \in Nat, NEW e \in 0 .. Width, NEW n, n = NextCursor(c, e),
           rev(k, Width) >= rev(c, Width), k % Pow2[e] # c % Pow2[e]
    PROVE  n # 0 /\ rev(k, Width) >= rev(n, Width)
<1>1. Width \in e .. Width /\ Pow2[e] \in Nat /\ Width \in 0 .. Width
  BY PowNat, WidthAssumption
<1>2. rev(k, e) >= rev(c, e)
  BY <1>1, RevPrefix
<1>3. rev(k, e) # rev(c, e)
  BY RevInj
<1>4. rev(k, e) \in 0 .. Pow2[e] - 1 /\ rev(c, e) \in 0 .. Pow2[e] - 1
  BY RevType
<1>5. /\ n \in 0 .. Pow2[e] - 1
      /\ n = 0 <=> rev(c, e) + 1 = Pow2[e]
      /\ n # 0 => rev(n, e) = rev(c, e) + 1
  BY CursorStep
<1>6. n # 0 /\ rev(k, e) >= rev(n, e)
  BY <1>1, <1>2, <1>3, <1>4, <1>5
<1>7. rev(k, Width) >= rev(n, Width)
  BY <1>1, <1>5, <1>6, RevZeros
<1> QED
  BY <1>6, <1>7

\* The cursor moves on in reverse order.
LEMMA ScanForward ==
    ASSUME NEW c \in Nat, NEW e \in 0 .. Width, NEW n, n = NextCursor(c, e), n # 0
    PROVE  rev(n, Width) > rev(c, Width)
<1>1. Width \in e .. Width /\ Pow2[e] \in Nat /\ Width \in 0 .. Width /\ Pow2[Width] \in Nat
  BY PowNat, WidthAssumption
<1>2. n \in 0 .. Pow2[e] - 1 /\ rev(n, e) = rev(c, e) + 1
  BY CursorStep
<1>3. n \in Nat
  BY <1>1, <1>2
<1>4. /\ rev(c, e) \in 0 .. Pow2[e] - 1 
      /\ rev(c, Width) \in 0 .. Pow2[Width] - 1 /\ rev(n, Width) \in 0 .. Pow2[Width] - 1
  BY <1>1, <1>3, RevType
<1>5. rev(c, Width) >= rev(n, Width) => rev(c, e) >= rev(n, e)
  BY <1>1, <1>3, RevPrefix
<1> QED
  BY <1>1, <1>2, <1>4, <1>5

-----------------------------------------------------------------------------
(* The inductive invariant                                                   *)

\* A scan that has ended owes nothing; one that goes on still has its cursor
\* before every key it owes, in the order of reversed bits, which no resize
\* changes.
ScanOK ==
    /\ cursor \in 0 .. Pow2[Width] - 1
    /\ due \subseteq members
    /\ cursor = 0 => due = {}
    /\ \A k \in due : rev(k, Width) >= rev(cursor, Width)

\* The inductive invariant of a dictionary and its scan.
DictInv == Good(d) /\ Holds(d) = members /\ ScanOK

\* An empty dictionary satisfies it.
LEMMA DictInitKeeps == DictInit => DictInv
<1> SUFFICES ASSUME DictInit PROVE DictInv
  OBVIOUS
<1>1. /\ Shape(d) /\ d.rehashidx = -1
      /\ d.ht[0] = Buckets(-1) /\ d.ht[1] = Buckets(-1) /\ d.exp[0] = -1 /\ d.exp[1] = -1
  BY DEF DictInit, Shape
<1>2. -1 \in -1 .. Width
  BY WidthAssumption
<1>3. Table(Buckets(-1), -1) /\ In(Buckets(-1)) = {}
  BY <1>2, BucketsFacts
<1>4. Pow2[Width] \in Nat \ {0}
  BY PowNat, WidthAssumption
<1>5. Good(d)
  <2>1. \A b \in 0 .. Size(-1) - 1 : ~(b < -1)
    BY DEF Size
  <2> QED
    BY <1>1, <1>3, <1>4, <2>1 DEF Good
<1>6. Holds(d) = {}
  BY <1>1, <1>3 DEF Holds
<1>7. ScanOK /\ members = {}
  BY <1>4 DEF DictInit, ScanOK
<1> QED
  BY <1>5, <1>6, <1>7 DEF DictInv

\* dictAdd keeps it: a step of rehashing, a resize, and one key more.
LEMMA AddKeeps ==
    ASSUME DictInv, NEW k \in Keys, dictAdd(k)
    PROVE  DictInv'
<1> DEFINE u == dictRehash(d)
           x == _dictExpandIfNeeded(u)
<1>1. Good(u) /\ Holds(u) = members
  BY RehashGood DEF DictInv
<1> HIDE DEF u
<1>2. Good(x) /\ Holds(x) = members /\ x.exp[0] # -1
  BY <1>1, ExpandIfNeededGood
<1>3. /\ IF dictFind(x, k)
         THEN d' = x /\ UNCHANGED members
         ELSE d' = dictInsertAtPosition(x, k) /\ members' = members \cup {k}
      /\ UNCHANGED <<policy, cursor, due>>
  BY Zenon DEF dictAdd, u
<1> HIDE DEF x
<1>4. dictFind(x, k) <=> k \in members
  BY <1>2, FindFacts
<1>5. Good(d') /\ Holds(d') = members' /\ members \subseteq members'
  <2>1. CASE k \in members
    BY <1>2, <1>3, <1>4, <2>1
  <2>2. CASE k \notin members
    <3>1. d' = dictInsertAtPosition(x, k) /\ members' = members \cup {k}
      BY <1>3, <1>4, <2>2
    <3>2. Good(dictInsertAtPosition(x, k)) /\ Holds(dictInsertAtPosition(x, k)) = Holds(x) \cup {k}
      BY <1>2, <2>2, InsertGood
    <3> QED
      BY <1>2, <3>1, <3>2
  <2> QED
    BY <2>1, <2>2
<1>6. ScanOK'
  BY <1>3, <1>5 DEF DictInv, ScanOK
<1> QED
  BY <1>5, <1>6 DEF DictInv

\* dictDelete keeps it.
LEMMA DeleteKeeps ==
    ASSUME DictInv, NEW k \in Keys, dictDelete(k)
    PROVE  DictInv'
<1> DEFINE x == dictRehash(d)
<1>1. Good(x) /\ Holds(x) = members
  BY RehashGood DEF DictInv
<1>2. d' = Without(x, {k}) /\ members' = members \ {k} /\ due' = due \ {k} /\ cursor' = cursor
  BY DEF dictDelete
<1> HIDE DEF x
<1>3. Good(d') /\ Holds(d') = members'
  BY <1>1, <1>2, WithoutGood
<1>4. ScanOK'
  BY <1>2 DEF DictInv, ScanOK
<1> QED
  BY <1>3, <1>4 DEF DictInv

\* A dictionary that holds something has the table a scan walks.
LEMMA ScanExp ==
    ASSUME DictInv, members # {}
    PROVE  d.exp[Small] \in 0 .. Width
<1>1. /\ d.exp[0] \in -1 .. Width /\ d.exp[1] \in -1 .. Width
      /\ d.rehashidx = -1 <=> d.exp[1] = -1
      /\ d.rehashidx # -1 => d.exp[0] # -1
  BY DEF DictInv, Good, Table
<1>2. d.exp[0] # -1
  <2>1. d.exp[0] = -1 => d.exp[1] = -1
    BY <1>1
  <2>2. /\ d.exp[0] = -1 => In(d.ht[0]) = {}
        /\ d.exp[1] = -1 => In(d.ht[1]) = {}
    BY TableFacts DEF DictInv, Good
  <2> QED
    BY <2>1, <2>2 DEF DictInv, Holds
<1> QED
  BY <1>1, <1>2 DEF Small, dictIsRehashing

\* What a call does not give is not in the cursor's bucket.
LEMMA ScanMisses ==
    ASSUME DictInv, NEW k \in members, rev(k, Width) >= rev(cursor, Width), k \notin Given
    PROVE  k % Pow2[d.exp[Small]] # cursor % Pow2[d.exp[Small]]
<1> DEFINE s == d.exp[Small]
           l == d.exp[1 - Small]
<1>1. /\ Good(d) /\ k \in In(d.ht[0]) \cup In(d.ht[1])
      /\ cursor \in 0 .. Pow2[Width] - 1
  BY DEF DictInv, Holds, ScanOK
<1>2. /\ Table(d.ht[0], d.exp[0]) /\ Table(d.ht[1], d.exp[1])
      /\ d.rehashidx = -1 <=> d.exp[1] = -1
      /\ d.rehashidx # -1 => d.exp[0] # -1
  BY <1>1 DEF Good
<1>3. /\ \A j \in Keys : j \in In(d.ht[0]) <=> d.exp[0] # -1 /\ j \in d.ht[0][j % Size(d.exp[0])]
      /\ \A j \in Keys : j \in In(d.ht[1]) <=> d.exp[1] # -1 /\ j \in d.ht[1][j % Size(d.exp[1])]
      /\ In(d.ht[0]) \subseteq Keys /\ In(d.ht[1]) \subseteq Keys
      /\ d.exp[0] \in -1 .. Width /\ d.exp[1] \in -1 .. Width
  BY <1>2, TableFacts DEF Table
<1>4. k \in Keys /\ k \in Nat /\ cursor \in Nat
  <2>1. k \in Keys
    BY <1>1, <1>3
  <2> QED
    BY <1>1, <2>1, KeyFacts
<1>5. CASE ~dictIsRehashing(d)
  <2>1. Small = 0 /\ d.exp[1] = -1 /\ d.exp[0] # -1 /\ k \in d.ht[0][k % Size(d.exp[0])]
    BY <1>1, <1>2, <1>3, <1>4, <1>5 DEF Small, dictIsRehashing
  <2>2. d.exp[0] \in 0 .. Width /\ Size(d.exp[0]) = Pow2[d.exp[0]]
    BY <1>3, <2>1, SizeFacts
  <2>3. Given = d.ht[0][cursor % Size(d.exp[0])]
    BY <1>5, <2>1 DEF Given
  <2> QED
    BY <2>1, <2>2, <2>3
<1>6. CASE dictIsRehashing(d)
  <2>1. Small \in 0 .. 1 /\ 1 - Small \in 0 .. 1 /\ s <= l /\ s # -1 /\ l # -1
        /\ s \in -1 .. Width /\ l \in -1 .. Width
    <3>1. d.exp[0] # -1 /\ d.exp[1] # -1
      BY Zenon, <1>2, <1>6 DEF dictIsRehashing
    <3>2. CASE d.exp[0] > d.exp[1]
      <4>1. Small = 1 /\ 1 - Small = 0
        BY <1>6, <3>2 DEF Small
      <4> QED
        BY <1>3, <3>1, <3>2, <4>1
    <3>3. CASE ~(d.exp[0] > d.exp[1])
      <4>1. Small = 0 /\ 1 - Small = 1
        BY <1>6, <3>3 DEF Small
      <4> QED
        BY <1>3, <3>1, <3>3, <4>1
    <3> QED
      BY <3>2, <3>3
  <2>2. s \in 0 .. Width /\ l \in 0 .. Width /\ Size(s) = Pow2[s] /\ Size(l) = Pow2[l]
        /\ l \in s .. Width /\ Width \in l .. Width /\ l \in 0 .. l
    <3> HIDE DEF s, l
    <3>1. s \in 0 .. Width /\ l \in 0 .. Width /\ Size(s) = Pow2[s] /\ Size(l) = Pow2[l]
      BY <2>1, SizeFacts
    <3> QED
      BY <2>1, <3>1, WidthAssumption
  <2>3. k \in d.ht[Small][k % Pow2[s]] \/ k \in d.ht[1 - Small][k % Pow2[l]]
    <3>1. k \in d.ht[0][k % Size(d.exp[0])] \/ k \in d.ht[1][k % Size(d.exp[1])]
      BY <1>1, <1>3, <1>4
    <3>2. (Small = 0 /\ 1 - Small = 1) \/ (Small = 1 /\ 1 - Small = 0)
      BY DEF Small
    <3> QED
      BY Zenon, <2>2, <3>1, <3>2
  <2>4. Given = d.ht[Small][cursor % Pow2[s]] \cup
                  UNION {d.ht[1 - Small][b] : b \in Expansions(cursor, s, l)}
    BY Zenon, <1>6, <2>2 DEF Given
  <2> DEFINE b == k % Pow2[l]
  <2>5. b \in 0 .. Pow2[l] - 1 /\ b % Pow2[s] = k % Pow2[s]
    BY <1>4, <2>2, BitType, ModMod
  <2>6. rev(b, l) = rev(k, l) /\ rev(cursor % Pow2[l], l) = rev(cursor, l)
    BY <1>4, <2>2, RevMod
  <2>7. rev(k, l) >= rev(cursor, l)
    BY <1>4, <2>2, RevPrefix
  <2>8. k % Pow2[s] = cursor % Pow2[s] => b \in Expansions(cursor, s, l)
    BY Zenon, <2>2, <2>5, <2>6, <2>7 DEF Expansions
  <2> HIDE DEF b, s, l
  <2>9. k % Pow2[s] = cursor % Pow2[s] => k \in Given
    BY <2>3, <2>4, <2>8 DEF b
  <2> QED
    BY <2>2, <2>9 DEF s
<1> QED
  BY <1>5, <1>6

\* A call of dictScan keeps it: what it still owes is not in the buckets it
\* visited, so it is not before the next cursor.
LEMMA ScanKeeps ==
    ASSUME DictInv, NEW gone \in SUBSET Keys, dictScan(gone)
    PROVE  DictInv'
<1> DEFINE before == IF cursor = 0 THEN members ELSE due
           e == d.exp[Small]
<1>1. /\ members # {} /\ gone \subseteq Given
      /\ d' = Without(d, gone) /\ members' = members \ gone
      /\ due' = before \ Given
      /\ cursor' = NextCursor(cursor, e)
  BY DEF dictScan
<1>2. Good(d') /\ Holds(d') = members'
  BY <1>1, WithoutGood DEF DictInv
<1>3. cursor \in 0 .. Pow2[Width] - 1 /\ cursor \in Nat /\ Width \in 0 .. Width
      /\ Pow2[Width] \in Nat
  BY PowNat, WidthAssumption DEF DictInv, ScanOK
<1>4. members \subseteq Keys
  BY TableFacts DEF DictInv, Holds, Good
<1>5. \A k \in before : k \in members /\ k \in Nat /\ rev(k, Width) >= rev(cursor, Width)
  <2>1. \A k \in before : k \in members /\ k \in Nat
    BY <1>4, KeyFacts DEF DictInv, ScanOK
  <2>2. CASE cursor = 0
    <3>1. \A k \in Nat : rev(k, Width) \in Nat
      BY <1>3, RevType
    <3>2. rev(cursor, Width) = 0
      BY <1>3, <2>2, RevZero
    <3> QED
      BY <2>1, <3>1, <3>2
  <2>3. CASE cursor # 0
    BY <2>1, <2>3 DEF DictInv, ScanOK
  <2> QED
    BY <2>2, <2>3
<1> HIDE DEF before
<1>6. e \in 0 .. Width
  BY <1>1, ScanExp
<1>7. cursor' \in 0 .. Pow2[Width] - 1
  BY <1>1, <1>3, <1>6, CursorStep
<1>8. ASSUME NEW k \in due' PROVE cursor' # 0 /\ rev(k, Width) >= rev(cursor', Width)
  <2>1. k \in before /\ k \notin Given
    BY <1>1, <1>8
  <2>2. k \in members /\ k \in Nat /\ rev(k, Width) >= rev(cursor, Width)
    BY <1>5, <2>1
  <2>3. k % Pow2[e] # cursor % Pow2[e]
    BY <1>1, <2>1, <2>2, ScanMisses
  <2> HIDE DEF e
  <2> QED
    BY <1>1, <1>3, <1>6, <2>2, <2>3, ScanLeaves
<1>9. due' \subseteq members'
  BY <1>1, <1>5
<1>10. ScanOK'
  BY <1>7, <1>8, <1>9 DEF ScanOK
<1> QED
  BY <1>2, <1>10 DEF DictInv

\* Every step keeps it.
LEMMA DictStepKeeps == DictInv /\ [DictNext]_dictVars => DictInv'
<1> SUFFICES ASSUME DictInv, [DictNext]_dictVars PROVE DictInv'
  OBVIOUS
<1>1. CASE UNCHANGED dictVars
  BY <1>1 DEF DictInv, ScanOK, dictVars
<1>2. CASE _dictRehashStep
  BY <1>2, RehashGood DEF _dictRehashStep, DictInv, ScanOK
<1>3. CASE dictResize
  BY <1>3, ExpandGood DEF dictResize, DictInv, ScanOK
<1>4. CASE updateDictResizePolicy
  BY <1>4 DEF updateDictResizePolicy, DictInv, ScanOK
<1>5. CASE \E k \in Keys : dictAdd(k) \/ dictDelete(k)
  BY <1>5, AddKeeps, DeleteKeeps
<1>6. CASE \E gone \in SUBSET Keys : dictScan(gone)
  BY <1>6, ScanKeeps
<1>7. CASE dictScanEmpty
  <2>1. Pow2[Width] \in Nat \ {0}
    BY PowNat, WidthAssumption
  <2> QED
    BY <1>7, <2>1 DEF dictScanEmpty, DictInv, ScanOK
<1> QED
  BY <1>1, <1>2, <1>3, <1>4, <1>5, <1>6, <1>7 DEF DictNext

\* The inductive invariant holds throughout.
LEMMA DictInvHolds == DictSpec => []DictInv
  BY DictInitKeeps, DictStepKeeps, PTL DEF DictSpec

\* A lookup (dictFind) finds exactly the keys that were added and not deleted,
\* at every stage of a rehash that grows or shrinks the table, for any hashes
\* and any width of the table; no key is in both tables.
THEOREM Finds == DictSpec => []FindsMembers
<1>1. DictInv => FindsMembers
  <2> SUFFICES ASSUME DictInv PROVE FindsMembers
    OBVIOUS
  <2>1. Good(d) /\ Holds(d) = members /\ cursor \in 0 .. Pow2[Width] - 1
    BY DEF DictInv, ScanOK
  <2>2. \A k \in Keys : dictFind(d, k) <=> k \in members
    BY <2>1, FindFacts
  <2>3. In(d.ht[0]) \cap In(d.ht[1]) = {}
    BY <2>1 DEF Good
  <2>4. DictTypeOK
    <3>1. /\ Table(d.ht[0], d.exp[0]) /\ Table(d.ht[1], d.exp[1])
          /\ d.rehashidx \in -1 .. Pow2[Width]
          /\ d.rehashidx = -1 <=> d.exp[1] = -1
          /\ \A b \in 0 .. Size(d.exp[0]) - 1 : b < d.rehashidx => d.ht[0][b] = {}
      BY Zenon, <2>1 DEF Good
    <3>2. \A i \in 0 .. 1 : Table(d.ht[i], d.exp[i])
      BY <3>1
    <3>3. DOMAIN d.ht[0] = 0 .. Size(d.exp[0]) - 1
      BY <3>1 DEF Table
    <3> QED
      BY Zenon, <2>1, <3>1, <3>2, <3>3 DEF DictTypeOK, Table, dictIsRehashing
  <2> QED
    BY <2>2, <2>3, <2>4 DEF FindsMembers
<1> QED
  BY <1>1, DictInvHolds, PTL

\* A scan that ends (dictScan gives cursor 0) has given every key that was
\* there from its beginning to its end, for any hashes and width, whatever was
\* added, deleted, resized and rehashed between its calls.
THEOREM GivesAll == DictSpec => []ScanGivesAll
<1>1. DictInv => ScanGivesAll
  BY DEF DictInv, ScanOK, ScanGivesAll
<1> QED
  BY <1>1, DictInvHolds, PTL

\* Every call of dictScan that does not end the scan moves the cursor forward
\* in the order of reversed bits, also when the table has another size than at
\* the call before.
THEOREM Advances == DictSpec => ScanAdvances
<1>1. DictInv /\ [DictNext]_dictVars =>
        [cursor' # cursor /\ cursor' # 0 => rev(cursor', Width) > rev(cursor, Width)]_dictVars
  <2> SUFFICES ASSUME DictInv, DictNext, cursor' # cursor, cursor' # 0
               PROVE  rev(cursor', Width) > rev(cursor, Width)
    BY DEF dictVars
  <2>1. PICK gone : dictScan(gone)
    BY Zenon DEF DictNext, _dictRehashStep, dictResize, updateDictResizePolicy, dictAdd, dictDelete,
           dictScanEmpty
  <2>2. cursor' = NextCursor(cursor, d.exp[Small]) /\ members # {}
    BY <2>1 DEF dictScan
  <2>3. d.exp[Small] \in 0 .. Width
    BY <2>2, ScanExp
  <2>4. cursor \in Nat
    BY PowNat, WidthAssumption DEF DictInv, ScanOK
  <2> QED
    BY <2>2, <2>3, <2>4, ScanForward
<1> QED
  BY <1>1, DictInvHolds, PTL DEF DictSpec, ScanAdvances
=============================================================================
