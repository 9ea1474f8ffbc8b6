------------------------- MODULE RedisBlockedProofs -------------------------
(***************************************************************************)
(* What holds of clients blocked on lists for every set of keys, clients   *)
(* and elements and for scripts of any length.                             *)
(***************************************************************************)
EXTENDS RedisBlocked, SequenceTheorems, TLAPS

-----------------------------------------------------------------------------
(* Sequences without repetitions                                             *)

\* An element put at the end: queues and the ready list grow by one.
LEMMA AppendFacts ==
    ASSUME NEW S, NEW s \in Seq(S), NEW e \in S
    PROVE  /\ Append(s, e) \in Seq(S)
           /\ Range(Append(s, e)) = Range(s) \cup {e}
           /\ Len(Append(s, e)) = Len(s) + 1
           /\ \A i \in 1 .. Len(s) : Append(s, e)[i] = s[i]
           /\ Append(s, e)[Len(s) + 1] = e
           /\ IsInjective(s) /\ e \notin Range(s) => IsInjective(Append(s, e))
BY AppendProperties DEF Range, IsInjective

\* An element put at the head: LPUSH and the target of a move.
LEMMA PushFacts ==
    ASSUME NEW S, NEW s \in Seq(S), NEW e \in S
    PROVE  /\ <<e>> \o s \in Seq(S)
           /\ <<e>> \o s # <<>>
           /\ Range(<<e>> \o s) = Range(s) \cup {e}
           /\ IsInjective(s) /\ e \notin Range(s) => IsInjective(<<e>> \o s)
<1> DEFINE t == <<e>> \o s
<1>1. /\ t \in Seq(S) /\ Len(t) = Len(s) + 1
      /\ t[1] = e /\ \A i \in 1 .. Len(s) : t[i + 1] = s[i]
      /\ \A j \in 2 .. Len(t) : t[j] = s[j - 1]
  OBVIOUS
<1> HIDE DEF t
<1>2. Range(t) = Range(s) \cup {e}
  <2>1. ASSUME NEW j \in 1 .. Len(t) PROVE t[j] \in Range(s) \cup {e}
    <3>1. CASE j = 1
      BY <1>1, <3>1
    <3>2. CASE j # 1
      <4>1. t[j] = s[j - 1] /\ j - 1 \in DOMAIN s
        BY <1>1, <3>2
      <4> QED BY <4>1 DEF Range
    <3> QED BY <3>1, <3>2
  <2>2. ASSUME NEW i \in 1 .. Len(s) PROVE s[i] \in Range(t)
    <3>1. i + 1 \in DOMAIN t /\ t[i + 1] = s[i]
      BY <1>1
    <3> QED BY <3>1 DEF Range
  <2>3. e \in Range(t)
    BY <1>1 DEF Range
  <2>4. Range(t) \subseteq Range(s) \cup {e}
    BY <1>1, <2>1 DEF Range
  <2>5. Range(s) \subseteq Range(t)
    BY <2>2 DEF Range
  <2> QED BY <2>3, <2>4, <2>5
<1>3. ASSUME IsInjective(s), e \notin Range(s) PROVE IsInjective(t)
  <2>1. \A j \in DOMAIN t : j # 1 => j - 1 \in DOMAIN s /\ t[j] = s[j - 1] /\ t[j] # e
    BY <1>1, <1>3 DEF Range
  <2>2. ASSUME NEW i \in DOMAIN t, NEW j \in DOMAIN t, t[i] = t[j] PROVE i = j
    <3>1. CASE i = 1 \/ j = 1
      BY <1>1, <2>1, <2>2, <3>1
    <3>2. CASE i # 1 /\ j # 1
      <4>1. i - 1 = j - 1
        BY <1>3, <2>1, <2>2, <3>2 DEF IsInjective
      <4> QED BY <1>1, <4>1
    <3> QED BY <3>1, <3>2
  <2> QED BY <2>2 DEF IsInjective
<1>4. <<e>> \o s # <<>>
  OBVIOUS
<1> QED BY <1>1, <1>2, <1>3, <1>4 DEF t

\* The last element taken off: the source of a move.
LEMMA FrontFacts ==
    ASSUME NEW S, NEW s \in Seq(S), s # <<>>, IsInjective(s)
    PROVE  /\ Front(s) \in Seq(S)
           /\ Last(s) \in S /\ Last(s) \in Range(s)
           /\ Range(Front(s)) = Range(s) \ {Last(s)}
           /\ IsInjective(Front(s))
<1> DEFINE t == SubSeq(s, 1, Len(s) - 1)
<1>0. Len(s) \in Nat \ {0} /\ \A i \in 1 .. Len(s) - 1 : s[i] \in S
  OBVIOUS
<1>1. /\ t \in Seq(S) /\ Len(t) = Len(s) - 1 /\ Len(s) \in Nat \ {0}
      /\ \A i \in 1 .. Len(s) - 1 : t[i] = s[i]
  <2>1. 1 \in Int /\ Len(s) - 1 \in Int
    BY <1>0
  <2>2. /\ t \in Seq(S)
        /\ Len(t) = IF 1 <= Len(s) - 1 THEN Len(s) - 1 - 1 + 1 ELSE 0
        /\ \A i \in 1 .. Len(s) - 1 - 1 + 1 : t[i] = s[1 + i - 1]
    BY <1>0, <2>1, SubSeqProperties
  <2> HIDE DEF t
  <2>3. Len(t) = Len(s) - 1
    <3>1. ASSUME NEW n \in Nat, n # 0 PROVE (IF 1 <= n - 1 THEN n - 1 - 1 + 1 ELSE 0) = n - 1
      BY <3>1
    <3>2. Len(s) \in Nat /\ Len(s) # 0
      BY <1>0
    <3>3. (IF 1 <= Len(s) - 1 THEN Len(s) - 1 - 1 + 1 ELSE 0) = Len(s) - 1
      BY ONLY <3>1, <3>2, Zenon
    <3> QED BY <2>2, <3>3
  <2>4. ASSUME NEW i \in 1 .. Len(s) - 1 PROVE t[i] = s[i]
    <3>1. i \in 1 .. Len(s) - 1 - 1 + 1 /\ 1 + i - 1 = i
      BY <1>0
    <3> QED BY <2>2, <3>1
  <2> QED BY <1>0, <2>2, <2>3, <2>4
<1> HIDE DEF t
<1>2. Last(s) = s[Len(s)] /\ Len(s) \in DOMAIN s
  BY <1>1 DEF Last
<1>3. Range(t) = Range(s) \ {Last(s)}
  BY <1>1, <1>2 DEF Range, IsInjective
<1>4. IsInjective(t)
  BY <1>1 DEF IsInjective
<1>5. Last(s) \in S /\ Last(s) \in Range(s)
  BY <1>2 DEF Range
<1> QED BY <1>1, <1>3, <1>4, <1>5 DEF t, Front

\* The first element taken off: the ready list and the clients still to be
\* looked at.
LEMMA TailFacts ==
    ASSUME NEW S, NEW s \in Seq(S), s # <<>>, IsInjective(s)
    PROVE  /\ Tail(s) \in Seq(S)
           /\ Head(s) \in S /\ Head(s) \in Range(s)
           /\ Range(Tail(s)) = Range(s) \ {Head(s)}
           /\ IsInjective(Tail(s))
<1> DEFINE t == Tail(s)
<1>1. /\ t \in Seq(S) /\ Len(t) = Len(s) - 1 /\ Len(s) \in Nat \ {0}
      /\ \A i \in 1 .. Len(t) : t[i] = s[i + 1]
      /\ Head(s) = s[1] /\ 1 \in DOMAIN s
  OBVIOUS
<1> HIDE DEF t
<1>2. Range(t) = Range(s) \ {Head(s)}
  <2>1. ASSUME NEW i \in DOMAIN t PROVE t[i] \in Range(s) \ {Head(s)}
    BY <1>1 DEF Range, IsInjective
  <2>2. ASSUME NEW i \in DOMAIN s, s[i] # Head(s) PROVE s[i] \in Range(t)
    <3>1. i - 1 \in DOMAIN t /\ t[i - 1] = s[i]
      BY <1>1, <2>2
    <3> QED BY <3>1 DEF Range
  <2> QED BY <2>1, <2>2 DEF Range
<1>3. IsInjective(t)
  BY <1>1 DEF IsInjective
<1>4. Head(s) \in S /\ Head(s) \in Range(s)
  BY <1>1 DEF Range
<1> QED BY <1>1, <1>2, <1>3, <1>4 DEF t

\* A client taken out of the queue it is in once.
LEMMA RemoveFacts ==
    ASSUME NEW S, NEW s \in Seq(S), IsInjective(s), NEW p \in 1 .. Len(s)
    PROVE  /\ RemoveFirst(s, s[p]) = RemoveAt(s, p)
           /\ RemoveAt(s, p) \in Seq(S)
           /\ Len(RemoveAt(s, p)) = Len(s) - 1
           /\ \A i \in 1 .. Len(s) - 1 :
                 RemoveAt(s, p)[i] = IF i < p THEN s[i] ELSE s[i + 1]
<1>1. SelectInSeq(s, LAMBDA v : v = s[p]) = p
  <2> DEFINE I == {i \in 1 .. Len(s) : s[i] = s[p]}
  <2>1. I = {p}
    BY DEF IsInjective
  <2>2. Min(I) = p
    BY <2>1 DEF Min
  <2> QED BY <2>1, <2>2 DEF SelectInSeq
<1>2. RemoveFirst(s, s[p]) = RemoveAt(s, p)
  BY <1>1 DEF RemoveFirst
<1> DEFINE a == SubSeq(s, 1, p - 1)
           b == SubSeq(s, p + 1, Len(s))
<1>3. Len(s) \in Nat /\ p \in Int /\ \A i \in 1 .. Len(s) : s[i] \in S
  OBVIOUS
<1>4. /\ a \in Seq(S) /\ Len(a) = p - 1
      /\ \A i \in 1 .. p - 1 : a[i] = s[i]
  <2>1. \A i \in 1 .. p - 1 : s[i] \in S
    BY <1>3
  <2> QED BY <1>3, <2>1, SubSeqProperties
<1>5. /\ b \in Seq(S) /\ Len(b) = Len(s) - p
      /\ \A i \in 1 .. Len(s) - p : b[i] = s[p + i]
  <2>1. \A i \in p + 1 .. Len(s) : s[i] \in S
    BY <1>3
  <2>2. /\ b \in Seq(S) /\ Len(b) = IF p + 1 <= Len(s) THEN Len(s) - (p + 1) + 1 ELSE 0
        /\ \A i \in 1 .. Len(s) - (p + 1) + 1 : b[i] = s[p + 1 + i - 1]
    BY <1>3, <2>1, SubSeqProperties
  <2> QED BY <1>3, <2>2
<1> HIDE DEF a, b
<1>6. /\ a \o b \in Seq(S) /\ Len(a \o b) = Len(s) - 1
      /\ \A i \in 1 .. Len(s) - 1 : (a \o b)[i] = IF i < p THEN s[i] ELSE s[i + 1]
  <2>1. /\ a \o b \in Seq(S) /\ Len(a \o b) = Len(a) + Len(b)
        /\ \A i \in 1 .. Len(a) + Len(b) :
              (a \o b)[i] = IF i <= Len(a) THEN a[i] ELSE b[i - Len(a)]
    BY Zenon, <1>4, <1>5, ConcatProperties
  <2>2. ASSUME NEW i \in 1 .. Len(s) - 1
        PROVE  (a \o b)[i] = IF i < p THEN s[i] ELSE s[i + 1]
    <3>1. CASE i < p
      BY <1>3, <1>4, <1>5, <2>1, <3>1
    <3>2. CASE ~(i < p)
      <4>1. i - (p - 1) \in 1 .. Len(s) - p /\ p + (i - (p - 1)) = i + 1
        BY <1>3, <3>2
      <4>2. (a \o b)[i] = b[i - (p - 1)]
        BY <1>3, <1>4, <1>5, <2>1, <3>2
      <4> QED BY <1>5, <3>2, <4>1, <4>2
    <3> QED BY <3>1, <3>2
  <2> QED BY <1>3, <1>4, <1>5, <2>1, <2>2
<1> QED BY <1>2, <1>6 DEF RemoveAt, a, b

-----------------------------------------------------------------------------
(* The inductive invariant                                                   *)

\* Every element alive is at one place of one list, and no other is in a list.
Placed(ls, al) ==
    /\ ls \in [Keys -> Seq(Elements)]
    /\ al = UNION {Range(ls[k]) : k \in Keys}
    /\ \A k \in Keys :
        /\ IsInjective(ls[k])
        /\ \A j \in Keys \ {k} : Range(ls[k]) \cap Range(ls[j]) = {}

\* The clients that came before the i-th of a queue and still wait.
InOrder(q, ah) == \A i \in DOMAIN q : ah[q[i]] \subseteq {q[j] : j \in 1 .. i - 1}

\* Who waits is queued once, on the key it waits for, behind those ahead of it.
Queued(bl, wt, ah) ==
    /\ bl \in [Keys -> Seq(Clients)]
    /\ wt \in [Clients -> Commands \cup {None}]
    /\ ah \in [Clients -> SUBSET Clients]
    /\ \A k \in Keys :
        /\ Range(bl[k]) = {c \in Clients : wt[c] # None /\ wt[c].src = k}
        /\ IsInjective(bl[k])
        /\ InOrder(bl[k], ah)

Rest(rn) == IF rn = <<>> THEN {} ELSE Range(Tail(rn))

\* A key is to be handled once: in the list being handled or in the next one.
Listed(rd, rs, rn) ==
    /\ rd \in Seq(Keys) /\ IsInjective(rd)
    /\ rn \in Seq(Keys) /\ IsInjective(rn)
    /\ rs = Range(rd) \cup Rest(rn)
    /\ Range(rd) \cap Rest(rn) = {}

\* A list that has elements and clients waiting on it is being handled or is
\* to be handled.
Woken(ls, bl, rs, rn) ==
    \A k \in Keys : ls[k] # <<>> /\ bl[k] # <<>> => k \in rs \/ (rn # <<>> /\ k = Head(rn))

\* As long as the list being handled has elements, those still to be looked at
\* are those who wait on it.
InTurn(ls, bl, rn, tn, n) ==
    /\ tn \in Seq(Clients)
    /\ rn # <<>> => n = 0 /\ (ls[Head(rn)] # <<>> => tn = bl[Head(rn)])

IInv ==
    /\ Placed(list, alive)
    /\ Queued(blocking, want, ahead)
    /\ Listed(ready, readySet, running)
    /\ Woken(list, blocking, readySet, running)
    /\ InTurn(list, blocking, running, turn, ops)
    /\ ops \in 0 .. MaxOps
    /\ overtook = {}

-----------------------------------------------------------------------------
(* Lists                                                                     *)

\* An element that is in no list is pushed onto one of them.
LEMMA PushPlaces ==
    ASSUME NEW ls, NEW al, Placed(ls, al), NEW k \in Keys, NEW e \in Elements, e \notin al
    PROVE  Placed([ls EXCEPT ![k] = <<e>> \o @], al \cup {e})
<1> DEFINE new == <<e>> \o ls[k]
           m == [ls EXCEPT ![k] = new]
<1>1. ls \in [Keys -> Seq(Elements)] /\ ls[k] \in Seq(Elements)
  BY DEF Placed
<1>2. \A j \in Keys : e \notin Range(ls[j])
  BY DEF Placed
<1>3. new \in Seq(Elements) /\ Range(new) = Range(ls[k]) \cup {e} /\ IsInjective(new)
  BY <1>1, <1>2, PushFacts DEF Placed
<1> HIDE DEF new
<1>4. m \in [Keys -> Seq(Elements)] /\ m[k] = new /\ \A j \in Keys \ {k} : m[j] = ls[j]
  BY <1>1, <1>3
<1> HIDE DEF m
<1>5. al \cup {e} = UNION {Range(m[j]) : j \in Keys}
  <2>1. al = UNION {Range(ls[j]) : j \in Keys}
    BY DEF Placed
  <2>2. /\ Range(m[k]) = Range(ls[k]) \cup {e}
        /\ \A j \in Keys \ {k} : Range(m[j]) = Range(ls[j])
    BY <1>3, <1>4
  <2>3. \A x : x \in al \cup {e} <=> \E j \in Keys : x \in Range(m[j])
    BY <2>1, <2>2
  <2> QED BY <2>3
<1>6. \A j \in Keys : IsInjective(m[j])
  BY <1>3, <1>4 DEF Placed
<1>7. ASSUME NEW i \in Keys, NEW j \in Keys \ {i} PROVE Range(m[i]) \cap Range(m[j]) = {}
  <2>1. Range(ls[i]) \cap Range(ls[j]) = {}
    BY DEF Placed
  <2>2. CASE i = k
    BY <1>2, <1>3, <1>4, <2>1, <2>2
  <2>3. CASE j = k
    BY <1>2, <1>3, <1>4, <2>1, <2>3
  <2>4. CASE i # k /\ j # k
    <3>1. m[i] = ls[i] /\ m[j] = ls[j]
      BY <1>4, <2>4
    <3> QED BY <2>1, <3>1
  <2> QED BY <2>2, <2>3, <2>4
<1>8. Placed(m, al \cup {e})
  BY Zenon, <1>4, <1>5, <1>6, <1>7 DEF Placed
<1> QED BY <1>8 DEF m, new

\* The last element of a list is taken off it.
LEMMA PopPlaces ==
    ASSUME NEW ls, NEW al, Placed(ls, al), NEW k \in Keys, ls[k] # <<>>
    PROVE  /\ Last(ls[k]) \in al /\ Last(ls[k]) \in Elements
           /\ Placed([ls EXCEPT ![k] = Front(@)], al \ {Last(ls[k])})
<1> DEFINE e == Last(ls[k])
           new == Front(ls[k])
           m == [ls EXCEPT ![k] = new]
<1>1. ls \in [Keys -> Seq(Elements)] /\ ls[k] \in Seq(Elements)
  BY DEF Placed
<1>2. /\ new \in Seq(Elements) /\ Range(new) = Range(ls[k]) \ {e} /\ IsInjective(new)
      /\ e \in Range(ls[k]) /\ e \in Elements
  BY <1>1, FrontFacts DEF Placed
<1> HIDE DEF new, e
<1>3. m \in [Keys -> Seq(Elements)] /\ m[k] = new /\ \A j \in Keys \ {k} : m[j] = ls[j]
  BY <1>1, <1>2
<1> HIDE DEF m
<1>4. \A j \in Keys \ {k} : e \notin Range(ls[j])
  BY <1>2 DEF Placed
<1>5. al \ {e} = UNION {Range(m[j]) : j \in Keys}
  <2>1. al = UNION {Range(ls[j]) : j \in Keys}
    BY DEF Placed
  <2>2. \A j \in Keys : Range(m[j]) = Range(ls[j]) \ {e}
    BY <1>2, <1>3, <1>4
  <2>3. \A x : x \in al \ {e} <=> \E j \in Keys : x \in Range(m[j])
    BY Zenon, <2>1, <2>2
  <2> QED BY <2>3
<1>6. \A j \in Keys : IsInjective(m[j])
  BY <1>2, <1>3 DEF Placed
<1>7. ASSUME NEW i \in Keys, NEW j \in Keys \ {i} PROVE Range(m[i]) \cap Range(m[j]) = {}
  BY <1>2, <1>3 DEF Placed
<1>8. Placed(m, al \ {e})
  BY Zenon, <1>3, <1>5, <1>6, <1>7 DEF Placed
<1>9. e \in al
  BY <1>2 DEF Placed
<1> QED BY <1>2, <1>8, <1>9 DEF m, new, e

\* A move keeps every element, and makes no list but its target longer.
LEMMA MovePlaces ==
    ASSUME NEW ls, NEW al, Placed(ls, al), NEW s \in Keys, NEW d \in Keys, ls[s] # <<>>
    PROVE  /\ Placed(Moved(ls, s, d), al)
           /\ \A k \in Keys \ {d} : Moved(ls, s, d)[k] # <<>> => ls[k] # <<>>
<1> DEFINE e == Last(ls[s])
           popped == [ls EXCEPT ![s] = Front(@)]
<1>1. e \in al /\ e \in Elements /\ Placed(popped, al \ {e})
  BY Zenon, PopPlaces
<1>2. ls \in [Keys -> Seq(Elements)] /\ \A k \in Keys \ {s} : popped[k] = ls[k]
  BY DEF Placed
<1> HIDE DEF e, popped
<1>3. Placed([popped EXCEPT ![d] = <<e>> \o @], (al \ {e}) \cup {e})
  BY <1>1, PushPlaces
<1>4. Moved(ls, s, d) = [popped EXCEPT ![d] = <<e>> \o @]
  BY DEF Moved, popped, e
<1>5. (al \ {e}) \cup {e} = al
  BY <1>1
<1>6. \A k \in Keys \ {d} : Moved(ls, s, d)[k] = popped[k]
  BY <1>1, <1>4 DEF Placed
<1> QED BY <1>2, <1>3, <1>4, <1>5, <1>6

\* A list is deleted, and its elements with it.
LEMMA DeletePlaces ==
    ASSUME NEW ls, NEW al, Placed(ls, al), NEW k \in Keys
    PROVE  Placed([ls EXCEPT ![k] = <<>>], al \ Range(ls[k]))
<1> DEFINE m == [ls EXCEPT ![k] = <<>>]
<1>1. /\ m \in [Keys -> Seq(Elements)] /\ m[k] = <<>>
      /\ \A j \in Keys \ {k} : m[j] = ls[j]
  BY EmptySeq DEF Placed
<1> HIDE DEF m
<1>2. Range(<<>>) = {} /\ IsInjective(<<>>)
  BY DEF Range, IsInjective
<1>3. \A i \in Keys : \A j \in Keys \ {i} : Range(ls[i]) \cap Range(ls[j]) = {}
  BY DEF Placed
<1>4. al \ Range(ls[k]) = UNION {Range(m[j]) : j \in Keys}
  <2>1. al = UNION {Range(ls[j]) : j \in Keys}
    BY DEF Placed
  <2>2. \A x : x \in al \ Range(ls[k]) <=> \E j \in Keys : x \in Range(m[j])
    BY Zenon, <1>1, <1>2, <1>3, <2>1
  <2> QED BY <2>2
<1>5. \A j \in Keys : IsInjective(m[j])
  BY <1>1, <1>2 DEF Placed
<1>6. ASSUME NEW i \in Keys, NEW j \in Keys \ {i} PROVE Range(m[i]) \cap Range(m[j]) = {}
  BY Zenon, <1>1, <1>2, <1>3
<1>7. Placed(m, al \ Range(ls[k]))
  BY <1>1, <1>4, <1>5, <1>6 DEF Placed
<1> QED BY <1>7 DEF m

-----------------------------------------------------------------------------
(* Signals                                                                   *)

\* A key that is created while somebody waits on it is to be handled, once.
LEMMA SignalLists ==
    ASSUME Listed(ready, readySet, running), NEW k \in Keys, NEW created,
           signalKeyAsReady(k, created)
    PROVE  /\ Listed(ready', readySet', running)
           /\ readySet \subseteq readySet'
           /\ created /\ blocking[k] # <<>> => k \in readySet'
<1>1. CASE created /\ blocking[k] # <<>> /\ k \notin readySet
  <2>1. ready' = Append(ready, k) /\ readySet' = readySet \cup {k}
    BY <1>1 DEF signalKeyAsReady
  <2>2. /\ Append(ready, k) \in Seq(Keys) /\ IsInjective(Append(ready, k))
        /\ Range(Append(ready, k)) = Range(ready) \cup {k}
    BY <1>1, AppendFacts DEF Listed
  <2> QED BY <1>1, <2>1, <2>2 DEF Listed
<1>2. CASE ~(created /\ blocking[k] # <<>> /\ k \notin readySet)
  BY <1>2 DEF signalKeyAsReady
<1> QED BY <1>1, <1>2

\* A move wakes those who wait on the list it creates.
LEMMA MoveWakes ==
    ASSUME Placed(list, alive), Listed(ready, readySet, running),
           Woken(list, blocking, readySet, running),
           NEW s \in Keys, NEW d \in Keys, list[s] # <<>>, lmove(s, d)
    PROVE  /\ Placed(list', alive)
           /\ Listed(ready', readySet', running)
           /\ Woken(list', blocking, readySet', running)
           /\ \A k \in Keys \ {d} : list'[k] # <<>> => list[k] # <<>>
<1>1. /\ Placed(list', alive)
      /\ \A k \in Keys \ {d} : list'[k] # <<>> => list[k] # <<>>
  BY MovePlaces DEF lmove
<1>2. /\ Listed(ready', readySet', running) /\ readySet \subseteq readySet'
      /\ list[d] = <<>> /\ blocking[d] # <<>> => d \in readySet'
  BY Zenon, SignalLists DEF lmove
<1>3. Woken(list', blocking, readySet', running)
  BY <1>1, <1>2 DEF Woken
<1> QED BY <1>1, <1>2, <1>3

-----------------------------------------------------------------------------
(* Queues                                                                    *)

\* A client leaves a queue: the others keep their order.
LEMMA LeaveQueue ==
    ASSUME NEW q \in Seq(Clients), IsInjective(q), NEW p \in 1 .. Len(q),
           NEW ah, InOrder(q, ah),
           NEW left, \A x \in Range(q) \ {q[p]} : left[x] = ah[x] \ {q[p]}
    PROVE  /\ RemoveFirst(q, q[p]) \in Seq(Clients)
           /\ Range(RemoveFirst(q, q[p])) = Range(q) \ {q[p]}
           /\ IsInjective(RemoveFirst(q, q[p]))
           /\ InOrder(RemoveFirst(q, q[p]), left)
           /\ p = 1 => RemoveFirst(q, q[p]) = Tail(q)
<1> DEFINE t == RemoveFirst(q, q[p])
<1>0. Len(q) \in Nat /\ p \in Nat
  OBVIOUS
<1>1. /\ t \in Seq(Clients) /\ Len(t) = Len(q) - 1 /\ DOMAIN t = 1 .. Len(q) - 1
      /\ \A i \in 1 .. Len(q) - 1 : t[i] = IF i < p THEN q[i] ELSE q[i + 1]
  <2>1. /\ RemoveFirst(q, q[p]) = RemoveAt(q, p)
        /\ RemoveAt(q, p) \in Seq(Clients) /\ Len(RemoveAt(q, p)) = Len(q) - 1
        /\ \A i \in 1 .. Len(q) - 1 : RemoveAt(q, p)[i] = IF i < p THEN q[i] ELSE q[i + 1]
    BY RemoveFacts, Zenon
  <2>2. DOMAIN RemoveAt(q, p) = 1 .. Len(q) - 1
    BY <2>1
  <2> QED BY <2>1, <2>2
<1> HIDE DEF t
<1>2. ASSUME NEW i \in DOMAIN t
      PROVE  \E j \in DOMAIN q \ {p} : t[i] = q[j] /\ j = IF i < p THEN i ELSE i + 1
  BY <1>0, <1>1
<1>3. ASSUME NEW j \in DOMAIN q \ {p}
      PROVE  \E i \in DOMAIN t : t[i] = q[j] /\ i = IF j < p THEN j ELSE j - 1
  <2>1. CASE j < p
    BY <1>0, <1>1, <2>1
  <2>2. CASE ~(j < p)
    <3>1. j - 1 \in 1 .. Len(q) - 1 /\ ~(j - 1 < p) /\ j - 1 + 1 = j
      BY <1>0, <2>2
    <3> QED BY <1>1, <2>2, <3>1
  <2> QED BY <2>1, <2>2
<1>4. Range(t) = Range(q) \ {q[p]}
  <2>1. Range(t) \subseteq Range(q) \ {q[p]}
    BY <1>2 DEF Range, IsInjective
  <2>2. Range(q) \ {q[p]} \subseteq Range(t)
    BY <1>3 DEF Range
  <2> QED BY <2>1, <2>2
<1>5. IsInjective(t)
  <2>1. ASSUME NEW i \in DOMAIN t, NEW j \in DOMAIN t, t[i] = t[j] PROVE i = j
    <3>1. PICK a \in DOMAIN q : t[i] = q[a] /\ a = IF i < p THEN i ELSE i + 1
      BY <1>2
    <3>2. PICK b \in DOMAIN q : t[j] = q[b] /\ b = IF j < p THEN j ELSE j + 1
      BY <1>2
    <3>3. a = b
      BY Zenon, <2>1, <3>1, <3>2 DEF IsInjective
    <3> QED BY <1>0, <1>1, <3>1, <3>2, <3>3
  <2> QED BY <2>1 DEF IsInjective
<1>6. InOrder(t, left)
  <2>1. ASSUME NEW i \in DOMAIN t, NEW x \in left[t[i]] PROVE x \in {t[j] : j \in 1 .. i - 1}
    <3>1. PICK a \in DOMAIN q \ {p} : t[i] = q[a] /\ a = IF i < p THEN i ELSE i + 1
      BY <1>2
    <3>2. t[i] \in Range(q) \ {q[p]}
      BY Zenon, <1>4 DEF Range
    <3>3. x \in ah[q[a]] /\ x # q[p]
      BY <2>1, <3>1, <3>2
    <3>4. PICK b \in 1 .. a - 1 : x = q[b]
      BY <3>3 DEF InOrder
    <3>5. b \in DOMAIN q \ {p}
      BY <1>0, <3>3, <3>4
    <3>6. PICK j \in DOMAIN t : t[j] = q[b] /\ j = IF b < p THEN b ELSE b - 1
      BY <1>3, <3>5
    <3>7. j \in 1 .. i - 1
      BY <1>0, <1>1, <3>1, <3>4, <3>5, <3>6
    <3> QED BY <3>4, <3>6, <3>7
  <2> QED BY <2>1 DEF InOrder
<1>7. p = 1 => t = Tail(q)
  <2> SUFFICES ASSUME p = 1 PROVE t = Tail(q)
    OBVIOUS
  <2>1. q # <<>>
    BY <1>0
  <2>2. Tail(q) \in Seq(Clients) /\ Len(Tail(q)) = Len(q) - 1
        /\ \A i \in 1 .. Len(Tail(q)) : Tail(q)[i] = q[i + 1]
    BY <2>1, HeadTailProperties
  <2>3. \A i \in 1 .. Len(t) : t[i] = Tail(q)[i]
    BY <1>0, <1>1, <2>2
  <2> QED BY <1>1, <2>2, <2>3, SeqEqual
<1> QED BY <1>1, <1>4, <1>5, <1>6, <1>7 DEF t

\* A client joins a queue at its end, behind all who are in it.
LEMMA JoinQueue ==
    ASSUME NEW q \in Seq(Clients), NEW c \in Clients, c \notin Range(q),
           NEW ah, InOrder(q, ah), NEW joined, joined[c] = Range(q),
           \A x \in Range(q) : joined[x] = ah[x]
    PROVE  InOrder(Append(q, c), joined)
<1> DEFINE t == Append(q, c)
<1>0. Len(q) \in Nat /\ DOMAIN q = 1 .. Len(q)
  OBVIOUS
<1>1. /\ t \in Seq(Clients) /\ Len(t) = Len(q) + 1 /\ DOMAIN t = 1 .. Len(q) + 1
      /\ \A i \in 1 .. Len(q) : t[i] = q[i]
      /\ t[Len(q) + 1] = c
  BY <1>0, AppendFacts
<1> HIDE DEF t
<1>2. ASSUME NEW i \in DOMAIN t PROVE joined[t[i]] \subseteq {t[j] : j \in 1 .. i - 1}
  <2>1. CASE i = Len(q) + 1
    <3>1. joined[t[i]] = Range(q) /\ i - 1 = Len(q)
      BY <1>0, <1>1, <2>1
    <3> QED BY <1>0, <1>1, <3>1 DEF Range
  <2>2. CASE i # Len(q) + 1
    <3>1. i \in DOMAIN q /\ t[i] = q[i] /\ joined[t[i]] = ah[q[i]]
      BY <1>0, <1>1, <2>2 DEF Range
    <3>2. ASSUME NEW j \in 1 .. i - 1 PROVE t[j] = q[j]
      BY <1>0, <1>1, <3>1
    <3> QED BY <3>1, <3>2 DEF InOrder
  <2> QED BY <2>1, <2>2
<1> QED BY <1>2 DEF InOrder, t

\* What an order says of a queue it only says of the clients in it.
LEMMA OrderKept ==
    ASSUME NEW q, NEW ah, NEW other, InOrder(q, ah), \A x \in Range(q) : other[x] \subseteq ah[x]
    PROVE  InOrder(q, other)
BY DEF InOrder, Range

\* A client that does not wait begins to wait on the list at s.
LEMMA BlockQueues ==
    ASSUME NEW bl, NEW wt, NEW ah, Queued(bl, wt, ah),
           NEW c \in Clients, wt[c] = None, NEW s \in Keys, NEW d \in Keys
    PROVE  Queued([bl EXCEPT ![s] = Append(@, c)],
                  [wt EXCEPT ![c] = [src |-> s, dst |-> d]],
                  [ah EXCEPT ![c] = Range(bl[s])])
<1> DEFINE cmd == [src |-> s, dst |-> d]
           q == Append(bl[s], c)
           nb == [bl EXCEPT ![s] = q]
           nw == [wt EXCEPT ![c] = cmd]
           na == [ah EXCEPT ![c] = Range(bl[s])]
<1>1. /\ bl \in [Keys -> Seq(Clients)] /\ wt \in [Clients -> Commands \cup {None}]
      /\ ah \in [Clients -> SUBSET Clients]
  BY DEF Queued
<1>2. \A k \in Keys : Range(bl[k]) \subseteq Clients \ {c}
  BY DEF Queued
<1>3. cmd \in Commands /\ cmd # None /\ cmd.src = s
  BY NoneAssumption DEF Commands
<1>4. /\ q \in Seq(Clients) /\ Range(q) = Range(bl[s]) \cup {c} /\ IsInjective(q)
  BY <1>1, <1>2, AppendFacts DEF Queued
<1>5. /\ na \in [Clients -> SUBSET Clients] /\ na[c] = Range(bl[s])
      /\ \A x \in Clients \ {c} : na[x] = ah[x]
  BY <1>1, <1>2
<1>6. nw \in [Clients -> Commands \cup {None}] /\ nw[c] = cmd /\ \A x \in Clients \ {c} : nw[x] = wt[x]
  BY <1>1, <1>3
<1> HIDE DEF cmd, nw, na
<1>7. InOrder(q, na)
  <2>1. InOrder(bl[s], ah) /\ bl[s] \in Seq(Clients) /\ c \notin Range(bl[s])
    BY <1>1, <1>2 DEF Queued
  <2>2. \A x \in Range(bl[s]) : na[x] = ah[x]
    BY <1>2, <1>5
  <2> QED BY <1>5, <2>1, <2>2, JoinQueue
<1> HIDE DEF q
<1>8. nb \in [Keys -> Seq(Clients)] /\ nb[s] = q /\ \A k \in Keys \ {s} : nb[k] = bl[k]
  BY <1>1, <1>4
<1> HIDE DEF nb
<1>9. ASSUME NEW k \in Keys
      PROVE  /\ Range(nb[k]) = {x \in Clients : nw[x] # None /\ nw[x].src = k}
             /\ IsInjective(nb[k])
             /\ InOrder(nb[k], na)
  <2>0. Range(bl[k]) = {x \in Clients : wt[x] # None /\ wt[x].src = k}
    BY DEF Queued
  <2>1. CASE k = s
    <3>1. Range(nb[k]) = {x \in Clients : nw[x] # None /\ nw[x].src = k}
      BY <1>3, <1>4, <1>6, <1>8, <2>0, <2>1
    <3> QED BY <1>4, <1>7, <1>8, <2>1, <3>1
  <2>2. CASE k # s
    <3>1. Range(nb[k]) = {x \in Clients : nw[x] # None /\ nw[x].src = k}
      <4>1. nb[k] = bl[k] /\ c \notin Range(bl[k])
        BY <1>2, <1>8, <2>2
      <4>2. \A x \in Clients \ {c} : nw[x] = wt[x]
        BY <1>6
      <4>3. nw[c].src # k
        BY <1>3, <1>6, <2>2
      <4> QED BY <2>0, <4>1, <4>2, <4>3
    <3>2. InOrder(bl[k], na)
      <4>1. \A x \in Range(bl[k]) : na[x] \subseteq ah[x]
        BY <1>2, <1>5
      <4> QED BY <4>1, OrderKept DEF Queued
    <3> QED BY <1>8, <2>2, <3>1, <3>2 DEF Queued
  <2> QED BY <2>1, <2>2
<1>10. Queued(nb, nw, na)
  BY <1>5, <1>6, <1>8, <1>9 DEF Queued
<1> QED BY <1>10 DEF nb, nw, na, q, cmd

\* A client that waits leaves its queue; the others no longer wait for it.
LEMMA UnblockKeeps ==
    ASSUME Queued(blocking, want, ahead), NEW c \in Clients, want[c] # None,
           unblockClient(c), ahead' = Left(c)
    PROVE  /\ Queued(blocking', want', ahead')
           /\ want[c].src \in Keys /\ want[c].dst \in Keys
           /\ \A k \in Keys : blocking'[k] # <<>> => blocking[k] # <<>>
           /\ c = Head(blocking[want[c].src]) =>
                 blocking'[want[c].src] = Tail(blocking[want[c].src])
<1> DEFINE s == want[c].src
           q == RemoveFirst(blocking[s], c)
<1>1. /\ blocking \in [Keys -> Seq(Clients)] /\ want \in [Clients -> Commands \cup {None}]
      /\ ahead \in [Clients -> SUBSET Clients]
  BY DEF Queued
<1>2. s \in Keys /\ want[c].dst \in Keys
  BY <1>1 DEF Commands
<1> HIDE DEF s
<1>3. c \in Range(blocking[s]) /\ \A k \in Keys \ {s} : c \notin Range(blocking[k])
  BY <1>2 DEF Queued, s
<1>4. PICK p \in 1 .. Len(blocking[s]) : c = blocking[s][p]
  BY <1>1, <1>2, <1>3 DEF Range
<1>5. blocking[s] \in Seq(Clients) /\ IsInjective(blocking[s]) /\ InOrder(blocking[s], ahead)
  BY <1>1, <1>2 DEF Queued
<1>6. /\ ahead' \in [Clients -> SUBSET Clients]
      /\ \A x \in Clients \ {c} : ahead'[x] = ahead[x] \ {c}
      /\ \A x \in Clients : ahead'[x] \subseteq ahead[x]
  BY <1>1 DEF Left
<1>7. \A x \in Range(blocking[s]) \ {c} : ahead'[x] = ahead[x] \ {c}
  BY <1>5, <1>6 DEF Range
<1>8. /\ q \in Seq(Clients) /\ Range(q) = Range(blocking[s]) \ {c} /\ IsInjective(q)
      /\ InOrder(q, ahead') /\ (p = 1 => q = Tail(blocking[s]))
  <2> DEFINE b == blocking[s]
  <2>1. b \in Seq(Clients) /\ IsInjective(b) /\ InOrder(b, ahead) /\ p \in 1 .. Len(b)
    BY <1>5
  <2>2. \A x \in Range(b) \ {b[p]} : ahead'[x] = ahead[x] \ {b[p]}
    BY <1>4, <1>7
  <2> HIDE DEF b
  <2>3. /\ RemoveFirst(b, b[p]) \in Seq(Clients)
        /\ Range(RemoveFirst(b, b[p])) = Range(b) \ {b[p]}
        /\ IsInjective(RemoveFirst(b, b[p]))
        /\ InOrder(RemoveFirst(b, b[p]), ahead')
        /\ p = 1 => RemoveFirst(b, b[p]) = Tail(b)
    BY ONLY <2>1, <2>2, LeaveQueue, SMTT(30)
  <2>4. b[p] = c
    BY <1>4 DEF b
  <2> QED BY <2>3, <2>4 DEF b
<1>9. blocking[s] # <<>>
  <2>1. ASSUME NEW b \in Seq(Clients), NEW i \in 1 .. Len(b) PROVE b # <<>>
    OBVIOUS
  <2> QED BY <1>5, <2>1
<1>10. c = Head(blocking[s]) => p = 1
  <2>1. Head(blocking[s]) = blocking[s][1] /\ 1 \in DOMAIN blocking[s] /\ p \in DOMAIN blocking[s]
    <3>1. ASSUME NEW b \in Seq(Clients), b # <<>>
          PROVE  Head(b) = b[1] /\ 1 \in DOMAIN b /\ DOMAIN b = 1 .. Len(b)
      BY <3>1
    <3> QED BY <1>5, <1>9, <3>1
  <2> QED BY <1>4, <1>5, <2>1 DEF IsInjective
<1>11. want' \in [Clients -> Commands \cup {None}] /\ want'[c] = None /\ \A x \in Clients \ {c} : want'[x] = want[x]
  BY <1>1 DEF unblockClient
<1> HIDE DEF q
<1>12. blocking' \in [Keys -> Seq(Clients)] /\ blocking'[s] = q /\ \A k \in Keys \ {s} : blocking'[k] = blocking[k]
  BY <1>1, <1>2, <1>8 DEF unblockClient, s, q
<1>13. ASSUME NEW k \in Keys
       PROVE  /\ Range(blocking'[k]) = {x \in Clients : want'[x] # None /\ want'[x].src = k}
              /\ IsInjective(blocking'[k])
              /\ InOrder(blocking'[k], ahead')
  <2>0. Range(blocking[k]) = {x \in Clients : want[x] # None /\ want[x].src = k}
    BY DEF Queued
  <2>1. CASE k = s
    <3>1. Range(blocking'[k]) = {x \in Clients : want'[x] # None /\ want'[x].src = k}
      BY <1>8, <1>11, <1>12, <2>0, <2>1
    <3> QED BY <1>8, <1>12, <2>1, <3>1
  <2>2. CASE k # s
    <3>1. Range(blocking'[k]) = {x \in Clients : want'[x] # None /\ want'[x].src = k}
      <4>1. blocking'[k] = blocking[k] /\ c \notin Range(blocking[k])
        BY <1>3, <1>12, <2>2
      <4>2. \A x \in Clients \ {c} : want'[x] = want[x]
        BY <1>11
      <4>3. want'[c] = None
        BY <1>11
      <4> QED BY <2>0, <4>1, <4>2, <4>3
    <3>2. InOrder(blocking[k], ahead')
      BY <1>6, <2>0, OrderKept DEF Queued
    <3> QED BY <1>12, <2>2, <3>1, <3>2 DEF Queued
  <2> QED BY <2>1, <2>2
<1>14. Queued(blocking', want', ahead')
  BY <1>6, <1>11, <1>12, <1>13 DEF Queued
<1> QED BY <1>2, <1>8, <1>9, <1>10, <1>12, <1>14 DEF s

-----------------------------------------------------------------------------
(* The steps                                                                 *)

\* Nothing is in a list and nobody waits.
LEMMA InitHolds == Init => IInv
<1> SUFFICES ASSUME Init PROVE IInv
  OBVIOUS
<1>0. /\ Range(<<>>) = {} /\ IsInjective(<<>>)
      /\ \A S : <<>> \in Seq(S)
  BY EmptySeq DEF Range, IsInjective
<1>1. Placed(list, alive)
  BY <1>0 DEF Init, Placed
<1>2. Queued(blocking, want, ahead)
  <2>1. \A ah : InOrder(<<>>, ah)
    BY DEF InOrder
  <2> QED BY <1>0, <2>1 DEF Init, Queued
<1>3. Listed(ready, readySet, running)
  BY <1>0 DEF Init, Listed, Rest
<1>4. Woken(list, blocking, readySet, running)
  BY DEF Init, Woken
<1>5. InTurn(list, blocking, running, turn, ops)
  BY <1>0 DEF Init, InTurn
<1> QED BY <1>1, <1>2, <1>3, <1>4, <1>5, BoundAssumption DEF IInv, Init

\* A script starts, or returns before it has done all it may do.
LEMMA ScriptKeeps ==
    ASSUME IInv, (\E n \in 1 .. MaxOps : Script(n)) \/ Return
    PROVE  IInv'
<1>1. /\ UNCHANGED <<list, blocking, want, ready, readySet, running, turn>>
      /\ UNCHANGED <<ahead, overtook, alive>>
  BY DEF Script, Return, waiting, handling, history
<1>2. ops' \in 0 .. MaxOps /\ (running # <<>> => ops' = 0)
  BY BoundAssumption DEF Script, Return, Idle
<1>3. InTurn(list, blocking, running, turn, ops)'
  BY <1>1, <1>2 DEF IInv, InTurn
<1> QED BY <1>1, <1>2, <1>3 DEF IInv

\* While a script runs no key is being handled.
LEMMA OperationFacts ==
    ASSUME IInv, Operation
    PROVE  /\ running = <<>> /\ ops' \in 0 .. MaxOps
           /\ UNCHANGED <<blocking, want, running, turn, ahead, overtook>>
           /\ Queued(blocking, want, ahead)'
           /\ InTurn(list, blocking, running, turn, ops)'
<1>1. running = <<>> /\ ops' \in 0 .. MaxOps
  BY BoundAssumption DEF IInv, InTurn, Operation
<1>2. UNCHANGED <<blocking, want, running, turn, ahead, overtook>>
  BY DEF Operation, waiting
<1>3. Queued(blocking, want, ahead)'
  BY <1>2 DEF IInv
<1>4. InTurn(list, blocking, running, turn, ops)'
  BY <1>1, <1>2 DEF IInv, InTurn
<1> QED BY <1>1, <1>2, <1>3, <1>4

\* A push to a list that did not exist wakes those who wait on it.
LEMMA PushKeeps ==
    ASSUME IInv, NEW k \in Keys, NEW e \in Elements, lpush(k, e)
    PROVE  IInv'
<1>1. Operation
  BY DEF lpush
<1>2. /\ e \notin alive /\ alive' = alive \cup {e}
      /\ list' = [list EXCEPT ![k] = <<e>> \o @]
      /\ signalKeyAsReady(k, list[k] = <<>>)
  BY DEF lpush
<1>3. Placed(list', alive')
  BY Zenon, <1>2, PushPlaces DEF IInv
<1>4. /\ Listed(ready', readySet', running) /\ readySet \subseteq readySet'
      /\ list[k] = <<>> /\ blocking[k] # <<>> => k \in readySet'
  BY Zenon, <1>2, SignalLists DEF IInv
<1>5. running' = running /\ blocking' = blocking
  BY <1>1, OperationFacts
<1>6. \A j \in Keys \ {k} : list'[j] = list[j]
  BY <1>2 DEF IInv, Placed
<1>7. Woken(list', blocking', readySet', running')
  BY <1>4, <1>5, <1>6 DEF IInv, Woken
<1> QED BY <1>1, <1>3, <1>4, <1>5, <1>7, OperationFacts DEF IInv

\* So does a move.
LEMMA MoveKeeps ==
    ASSUME IInv, NEW s \in Keys, NEW d \in Keys, rpoplpush(s, d)
    PROVE  IInv'
<1>1. Operation /\ list[s] # <<>> /\ lmove(s, d) /\ alive' = alive
  BY DEF rpoplpush
<1>2. /\ Placed(list', alive) /\ Listed(ready', readySet', running)
      /\ Woken(list', blocking, readySet', running)
  BY <1>1, MoveWakes DEF IInv
<1>3. running' = running /\ blocking' = blocking
  BY <1>1, OperationFacts
<1> QED BY <1>1, <1>2, <1>3, OperationFacts DEF IInv

\* A deletion leaves nobody waiting on a list with elements who was not before.
LEMMA DeleteKeeps ==
    ASSUME IInv, NEW k \in Keys, del(k)
    PROVE  IInv'
<1>1. /\ Operation /\ list' = [list EXCEPT ![k] = <<>>] /\ alive' = alive \ Range(list[k])
      /\ ready' = ready /\ readySet' = readySet
  BY DEF del
<1>2. Placed(list', alive')
  BY Zenon, <1>1, DeletePlaces DEF IInv
<1>3. running' = running /\ blocking' = blocking
  BY <1>1, OperationFacts
<1>4. \A j \in Keys : list'[j] # <<>> => list[j] # <<>>
  BY <1>1 DEF IInv, Placed
<1>5. Woken(list', blocking', readySet', running')
  BY <1>1, <1>3, <1>4 DEF IInv, Woken
<1>6. Listed(ready', readySet', running')
  BY <1>1, <1>3 DEF IInv
<1> QED BY <1>1, <1>2, <1>5, <1>6, OperationFacts DEF IInv

\* Between commands nobody waits on a list with elements: the keys that could
\* be to be handled have all been handled.
LEMMA NobodyForgotten == IInv => NoLostWakeup
<1> SUFFICES ASSUME IInv, Idle PROVE \A k \in Keys : list[k] # <<>> => blocking[k] = <<>>
  BY DEF NoLostWakeup
<1>1. running = <<>> /\ ready = <<>>
  BY DEF Idle
<1>2. Range(<<>>) = {}
  BY DEF Range
<1>3. readySet = {}
  BY <1>1, <1>2 DEF IInv, Listed, Rest
<1> QED BY <1>1, <1>3 DEF IInv, Woken

\* A blocking move takes an element when nobody waits for one, or waits.
LEMMA BlockingMoveKeeps ==
    ASSUME IInv, NEW c \in Clients, NEW s \in Keys, NEW d \in Keys, brpoplpush(c, s, d)
    PROVE  IInv'
<1>1. /\ Idle /\ want[c] = None /\ running = <<>>
      /\ UNCHANGED <<running, turn, ops, alive>>
  BY DEF brpoplpush, Idle
<1>2. InTurn(list', blocking', running', turn', ops')
  BY <1>1 DEF IInv, InTurn
<1>3. CASE list[s] = <<>>
  <2>1. /\ blocking' = [blocking EXCEPT ![s] = Append(@, c)]
        /\ want' = [want EXCEPT ![c] = [src |-> s, dst |-> d]]
        /\ ahead' = [ahead EXCEPT ![c] = Range(blocking[s])]
        /\ UNCHANGED <<list, ready, readySet, overtook>>
    BY <1>3 DEF brpoplpush, blockForKeys
  <2>2. Queued(blocking', want', ahead')
    BY Zenon, <1>1, <2>1, BlockQueues DEF IInv
  <2>3. \A k \in Keys : list[k] # <<>> => blocking'[k] = blocking[k]
    BY <1>3, <2>1 DEF IInv, Queued
  <2>4. Woken(list', blocking', readySet', running')
    BY Zenon, <1>1, <2>1, <2>3 DEF IInv, Woken
  <2> QED BY <1>1, <1>2, <2>1, <2>2, <2>4 DEF IInv
<1>4. CASE list[s] # <<>>
  <2>1. /\ lmove(s, d) /\ UNCHANGED <<blocking, want, ahead>>
        /\ overtook' = overtook \cup (IF Range(blocking[s]) = {} THEN {} ELSE {c})
    BY <1>4 DEF brpoplpush, Take, waiting
  <2>2. Range(blocking[s]) = {}
    <3>1. blocking[s] = <<>>
      BY <1>1, <1>4, NobodyForgotten DEF NoLostWakeup
    <3> QED BY <3>1 DEF Range
  <2>3. /\ Placed(list', alive) /\ Listed(ready', readySet', running)
        /\ Woken(list', blocking, readySet', running)
    BY <1>4, <2>1, MoveWakes DEF IInv
  <2> QED BY <1>1, <1>2, <2>1, <2>2, <2>3 DEF IInv
<1> QED BY <1>3, <1>4

\* A client leaves between commands.
LEMMA TimeoutKeeps ==
    ASSUME IInv, NEW c \in Clients, unblockClientOnTimeout(c)
    PROVE  IInv'
<1>1. /\ want[c] # None /\ running = <<>>
      /\ UNCHANGED <<list, ready, readySet, running, turn, ops, overtook, alive>>
  BY DEF unblockClientOnTimeout, Idle, handling
<1>2. unblockClient(c) /\ ahead' = Left(c)
  BY DEF unblockClientOnTimeout
<1>3. /\ Queued(blocking', want', ahead')
      /\ \A k \in Keys : blocking'[k] # <<>> => blocking[k] # <<>>
  BY <1>1, <1>2, UnblockKeeps DEF IInv
<1>4. Woken(list', blocking', readySet', running')
  BY <1>1, <1>3 DEF IInv, Woken
<1>5. InTurn(list', blocking', running', turn', ops')
  BY <1>1 DEF IInv, InTurn
<1> QED BY <1>1, <1>3, <1>4, <1>5 DEF IInv

\* The ready list becomes the list being handled.
LEMMA TakeOverKeeps ==
    ASSUME IInv, TakeOver
    PROVE  IInv'
<1>1. /\ ops = 0 /\ running = <<>> /\ ready # <<>>
      /\ running' = ready /\ ready' = <<>> /\ readySet' = readySet \ {Head(ready)}
      /\ turn' = blocking[Head(ready)]
      /\ UNCHANGED <<list, blocking, want, ops, ahead, overtook, alive>>
  BY DEF TakeOver, waiting, history
<1>2. /\ Head(ready) \in Keys
      /\ Range(Tail(ready)) = Range(ready) \ {Head(ready)}
  BY <1>1, TailFacts DEF IInv, Listed
<1>3. Range(<<>>) = {} /\ IsInjective(<<>>) /\ <<>> \in Seq(Keys)
  BY EmptySeq DEF Range, IsInjective
<1>4. Listed(ready', readySet', running')
  BY <1>1, <1>2, <1>3 DEF IInv, Listed, Rest
<1>5. Woken(list', blocking', readySet', running')
  BY <1>1 DEF IInv, Woken
<1>6. InTurn(list', blocking', running', turn', ops')
  BY <1>1, <1>2 DEF IInv, InTurn, Queued
<1> QED BY <1>1, <1>4, <1>5, <1>6 DEF IInv

\* The first of the queue runs its command again, if the list is there.
LEMMA HandleKeeps ==
    ASSUME IInv, handleClientsBlockedOnKey
    PROVE  IInv'
<1> DEFINE c == Head(turn)
           h == Head(running)
<1>1. /\ running # <<>> /\ turn # <<>> /\ turn' = Tail(turn)
      /\ UNCHANGED <<running, ops, alive>>
  BY DEF handleClientsBlockedOnKey
<1>2. h \in Keys /\ ops = 0 /\ Tail(turn) \in Seq(Clients)
  BY <1>1, TailFacts DEF IInv, Listed, InTurn
<1>3. CASE list[h] # <<>>
  <2>1. /\ unblockClient(c) /\ ahead' = Left(c)
        /\ lmove(want[c].src, want[c].dst)
        /\ overtook' = overtook \cup (IF ahead[c] = {} THEN {} ELSE {c})
    BY <1>3 DEF handleClientsBlockedOnKey, Take
  <2>2. turn = blocking[h]
    BY <1>1, <1>3 DEF IInv, InTurn
  <2> HIDE DEF h
  <2>3. blocking[h] \in Seq(Clients) /\ IsInjective(blocking[h])
    BY <1>2 DEF IInv, Queued
  <2>4. c \in Clients /\ c \in Range(blocking[h]) /\ c = Head(blocking[h])
    BY <1>1, <2>2, <2>3, TailFacts
  <2>5. want[c] # None /\ want[c].src = h
    BY <1>2, <2>4 DEF IInv, Queued
  <2>6. ahead[c] = {}
    <3>1. ASSUME NEW q \in Seq(Clients), q # <<>>, InOrder(q, ahead) PROVE ahead[Head(q)] = {}
      <4>1. 1 \in DOMAIN q /\ Head(q) = q[1]
        BY <3>1
      <4>2. 1 .. 1 - 1 = {}
        OBVIOUS
      <4> QED BY <3>1, <4>1, <4>2 DEF InOrder
    <3>2. InOrder(blocking[h], ahead) /\ blocking[h] # <<>>
      BY <1>1, <1>2, <2>2 DEF IInv, Queued
    <3> QED BY <2>3, <2>4, <3>1, <3>2
  <2>7. /\ Queued(blocking', want', ahead') /\ want[c].dst \in Keys
        /\ \A k \in Keys : blocking'[k] # <<>> => blocking[k] # <<>>
        /\ blocking'[h] = Tail(blocking[h])
    <3> HIDE DEF c
    <3> QED BY <2>1, <2>4, <2>5, UnblockKeeps DEF IInv
  <2>8. /\ Placed(list', alive) /\ Listed(ready', readySet', running)
        /\ Woken(list', blocking, readySet', running)
    BY <1>2, <1>3, <2>1, <2>5, <2>7, MoveWakes DEF IInv
  <2>9. Woken(list', blocking', readySet', running')
    BY <1>1, <2>7, <2>8 DEF Woken
  <2>10. InTurn(list', blocking', running', turn', ops')
    BY <1>1, <1>2, <2>2, <2>7 DEF InTurn, h
  <2> QED BY <1>1, <2>1, <2>6, <2>7, <2>8, <2>9, <2>10 DEF IInv
<1>4. CASE list[h] = <<>>
  <2>1. UNCHANGED <<list, blocking, want, ready, readySet, ahead, overtook>>
    BY <1>4 DEF handleClientsBlockedOnKey, waiting
  <2>2. InTurn(list', blocking', running', turn', ops')
    BY <1>1, <1>2, <1>4, <2>1 DEF InTurn
  <2> QED BY <1>1, <2>1, <2>2 DEF IInv
<1> QED BY <1>3, <1>4

\* A key is left when its list is empty or nobody waits on it any more.
LEMMA NextKeyKeeps ==
    ASSUME IInv, NextKey
    PROVE  IInv'
<1> DEFINE rest == Tail(running)
<1>1. /\ running # <<>> /\ turn = <<>> /\ running' = rest
      /\ UNCHANGED <<list, blocking, want, ready, ops, ahead, overtook, alive>>
      /\ rest = <<>> => readySet' = readySet /\ turn' = turn
      /\ rest # <<>> => readySet' = readySet \ {Head(rest)} /\ turn' = blocking[Head(rest)]
  BY DEF NextKey, waiting, history
<1>2. rest \in Seq(Keys) /\ IsInjective(rest)
  BY <1>1, TailFacts DEF IInv, Listed
<1>3. list[Head(running)] # <<>> => blocking[Head(running)] = <<>>
  BY <1>1 DEF IInv, InTurn
<1>4. readySet = Range(ready) \cup Range(rest) /\ Range(ready) \cap Range(rest) = {}
  BY <1>1 DEF IInv, Listed, Rest
<1>5. ops = 0
  BY <1>1 DEF IInv, InTurn
<1> HIDE DEF rest
<1>6. CASE rest = <<>>
  <2>1. Range(rest) = {}
    BY <1>6 DEF Range
  <2>2. Listed(ready', readySet', running')
    BY Zenon, <1>1, <1>2, <1>4, <1>6, <2>1 DEF IInv, Listed, Rest
  <2>3. Woken(list', blocking', readySet', running')
    BY <1>1, <1>3, <1>6 DEF IInv, Woken
  <2>4. InTurn(list', blocking', running', turn', ops')
    BY <1>1, <1>6 DEF IInv, InTurn
  <2> QED BY <1>1, <2>2, <2>3, <2>4 DEF IInv
<1>7. CASE rest # <<>>
  <2>1. /\ Head(rest) \in Keys /\ Head(rest) \in Range(rest)
        /\ Range(Tail(rest)) = Range(rest) \ {Head(rest)}
    BY <1>2, <1>7, TailFacts
  <2>2. Listed(ready', readySet', running')
    BY <1>1, <1>2, <1>4, <1>7, <2>1 DEF IInv, Listed, Rest
  <2>3. Woken(list', blocking', readySet', running')
    BY <1>1, <1>3, <1>7 DEF IInv, Woken
  <2>4. InTurn(list', blocking', running', turn', ops')
    BY <1>1, <1>5, <1>7, <2>1 DEF IInv, InTurn, Queued
  <2> QED BY <1>1, <2>2, <2>3, <2>4 DEF IInv
<1> QED BY <1>6, <1>7

-----------------------------------------------------------------------------
(* What follows                                                              *)

\* The invariant holds in every state.
THEOREM InvariantHolds == Spec => []IInv
<1>1. ASSUME IInv, Next PROVE IInv'
  BY <1>1, ScriptKeeps, PushKeeps, MoveKeeps, DeleteKeeps, BlockingMoveKeeps,
     TimeoutKeeps, TakeOverKeeps, HandleKeeps, NextKeyKeeps DEF Next, Handle
<1>2. ASSUME IInv, UNCHANGED vars PROVE IInv'
  BY <1>2 DEF vars, waiting, handling, history, IInv
<1> QED BY InitHolds, <1>1, <1>2, PTL DEF Spec

\* Every variable stays in its type, who waits is queued once and on one key,
\* and a key is to be handled once (blockForKeys, signalKeyAsReady).
THEOREM TypeCorrect == Spec => []TypeOK
<1>1. IInv => TypeOK
  <2> SUFFICES ASSUME IInv PROVE TypeOK
    OBVIOUS
  <2>1. alive \subseteq Elements
    <3>1. ASSUME NEW k \in Keys PROVE Range(list[k]) \subseteq Elements
      BY DEF IInv, Placed, Range
    <3> QED BY <3>1 DEF IInv, Placed
  <2>2. Typed
    BY <2>1 DEF IInv, Placed, Queued, Listed, InTurn, Typed
  <2> QED BY <2>2 DEF IInv, Queued, Listed, Rest, TypeOK
<1> QED BY InvariantHolds, <1>1, PTL

\* No wakeup is lost, however scripts push, move and delete lists and clients
\* come and go (signalKeyAsReady, handleClientsBlockedOnKeys).
THEOREM NobodyLeftWaiting == Spec => []NoLostWakeup
BY InvariantHolds, NobodyForgotten, PTL

\* No client takes an element from under one that waited before it
\* (blockForKeys, handleClientsBlockedOnKey).
THEOREM ServedInOrder == Spec => []FirstComeFirstServed
<1>1. IInv => FirstComeFirstServed
  BY DEF IInv, FirstComeFirstServed
<1> QED BY InvariantHolds, <1>1, PTL

\* No element is lost or copied by a move, a list moved onto itself included
\* (lmoveGenericCommand).
THEOREM NeitherLostNorCopied == Spec => []OneCopy
<1>1. IInv => OneCopy
  BY DEF IInv, Placed, OneCopy
<1> QED BY InvariantHolds, <1>1, PTL
=============================================================================
