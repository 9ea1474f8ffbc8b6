-------------------------- MODULE RedisStoreProofs --------------------------
(***************************************************************************)
(* CleanMeansSaved and ShutdownSaveStands of RedisStore, and the steps by  *)
(* which RedisStore implements StoreContract, for any keys and lifetimes   *)
(* and any number of changes and crashes.                                  *)
(***************************************************************************)
EXTENDS RedisStore, TLAPS

\* Only a running server has a child; a shutdown is clean when it left none.
Stopped == (~up => child = None) /\ (clean => ~up /\ orphan = None)

\* The changes a child saved are among those that are counted.
Counted == dirty <= ver /\ (child # None => child.before <= dirty)

Whole(i) == \A k \in Keys : i.expires[k] # None => i.dict[k] # None

\* No image holds a lifetime without its key.
ImagesWhole ==
    /\ Whole(Image) /\ Whole(rdb)
    /\ child # None => Whole(child.image)
    /\ orphan # None => Whole(orphan)

\* When nothing was changed since the child was forked, it saves what is
\* there, and once it has renamed its file, the file is that.
ChildCovers ==
    up /\ child # None /\ child.before = dirty =>
        /\ child.pc = "saving" => View(Image) = View(child.image)
        /\ child.pc = "renamed" /\ ~overwritten => View(Image) = View(rdb)

Covered == up /\ ~overwritten /\ Unsaved = 0 => View(Image) = View(rdb)

IInv == TypeOK /\ Stopped /\ Counted /\ ImagesWhole /\ ChildCovers /\ Covered

-----------------------------------------------------------------------------
(* Images of the keyspace, and what they show at a time                      *)

\* View, of an image at time t.
Shown(i, t) ==
    [k \in Keys |-> IF i.dict[k] # None /\ (i.expires[k] # None => t <= i.expires[k])
                    THEN [val |-> i.dict[k], till |-> i.expires[k]] ELSE None]

\* What an image shows is a map of the contract.
LEMMA ShownFacts ==
    ASSUME NEW i \in Images, NEW t \in Nat
    PROVE  /\ Shown(i, t) \in [Keys -> Entries \cup {None}]
           /\ \A k \in Keys : i.dict[k] # None =>
                 [val |-> i.dict[k], till |-> i.expires[k]] \in Entries
           /\ \A k \in Keys : Shown(i, t)[k] # None <=>
                 i.dict[k] # None /\ (i.expires[k] # None => t <= i.expires[k])
<1>1. i.dict \in [Keys -> Values \cup {None}] /\ i.expires \in [Keys -> Nat \cup {None}]
  BY DEF Images
<1>2. \A k \in Keys : i.dict[k] # None => [val |-> i.dict[k], till |-> i.expires[k]] \in Entries
  BY <1>1 DEF Entries
<1>3. \A e \in Entries : e # None
  BY NoneAssumption
<1>4. QED
  BY <1>2, <1>3 DEF Shown

\* Time takes away what has run out and changes nothing else.
LEMMA ShownTick ==
    ASSUME NEW i \in Images, NEW t \in Nat
    PROVE  Shown(i, t + 1) = Contract!Live(Shown(i, t), t + 1)
<1>1. i.expires \in [Keys -> Nat \cup {None}]
  BY DEF Images
<1>2. ASSUME NEW k \in Keys
      PROVE  Shown(i, t + 1)[k] =
                IF Shown(i, t)[k] # None /\ (Shown(i, t)[k].till # None => t + 1 <= Shown(i, t)[k].till)
                THEN Shown(i, t)[k] ELSE None
  <2>1. CASE i.dict[k] # None /\ (i.expires[k] # None => t <= i.expires[k])
    <3>1. Shown(i, t)[k] = [val |-> i.dict[k], till |-> i.expires[k]] /\ Shown(i, t)[k] # None
      BY <2>1, ShownFacts DEF Shown
    <3>2. Shown(i, t)[k].till = i.expires[k]
      BY <3>1
    <3>3. QED
      BY <2>1, <3>1, <3>2 DEF Shown
  <2>2. CASE ~(i.dict[k] # None /\ (i.expires[k] # None => t <= i.expires[k]))
    <3>1. Shown(i, t)[k] = None
      BY <2>2 DEF Shown
    <3>2. i.expires[k] # None => (t + 1 <= i.expires[k] => t <= i.expires[k])
      BY <1>1
    <3>3. Shown(i, t + 1)[k] = None
      BY <2>2, <3>2 DEF Shown
    <3>4. QED
      BY <3>1, <3>3
  <2>3. QED
    BY <2>1, <2>2
<1>3. QED
  BY <1>2 DEF Contract!Live, Shown

\* One key of an image changes: so does what is shown of it, and nothing else.
LEMMA ShownChange ==
    ASSUME NEW i \in Images, NEW j \in Images, NEW t \in Nat, NEW k \in Keys, Whole(i),
           \A l \in Keys : l # k => j.dict[l] = i.dict[l] /\ j.expires[l] = i.expires[l],
           j.expires[k] # None => j.dict[k] # None /\ t <= j.expires[k]
    PROVE  /\ Whole(j)
           /\ Shown(j, t) = [Shown(i, t) EXCEPT ![k] = IF j.dict[k] = None THEN None ELSE
                                [val |-> j.dict[k], till |-> j.expires[k]]]
BY DEF Shown, Images, Whole

\* An empty keyspace shows nothing.
LEMMA ShownEmpty ==
    ASSUME NEW i, NEW t, i.dict = NoKeys
    PROVE  Shown(i, t) = NoKeys
BY DEF Shown, NoKeys

\* View is Shown now, before and after a step.
LEMMA ViewIsShown ==
    ASSUME TRUE
    PROVE  /\ View(Image) = Shown(Image, now) /\ View(Image)' = Shown(Image', now')
           /\ View(rdb) = Shown(rdb, now) /\ View(rdb)' = Shown(rdb', now')
           /\ View(child.image) = Shown(child.image, now)
           /\ View(child.image)' = Shown(child'.image, now')
           /\ View(orphan) = Shown(orphan, now) /\ View(orphan)' = Shown(orphan', now')
BY DEF View, Shown

\* The keyspace in memory as an image.
LEMMA ImageFacts ==
    ASSUME TypeOK
    PROVE  /\ Image \in Images /\ Image.dict = dict /\ Image.expires = expires /\ Image.ver = ver
           /\ Image'.dict = dict' /\ Image'.expires = expires' /\ Image'.ver = ver'
           /\ dict \in [Keys -> Values \cup {None}] /\ expires \in [Keys -> Nat \cup {None}]
           /\ ver \in 0 .. MaxWrites /\ now \in Nat
           /\ (/\ dict' \in [Keys -> Values \cup {None}] /\ expires' \in [Keys -> Nat \cup {None}]
               /\ ver' \in 0 .. MaxWrites) => Image' \in Images
<1>1. Image \in Images
  BY DEF TypeOK
<1>2. /\ Image.dict = dict /\ Image.expires = expires /\ Image.ver = ver
      /\ Image'.dict = dict' /\ Image'.expires = expires' /\ Image'.ver = ver'
  BY DEF Image
<1>3. /\ dict \in [Keys -> Values \cup {None}] /\ expires \in [Keys -> Nat \cup {None}]
      /\ ver \in 0 .. MaxWrites
  BY <1>1, <1>2 DEF Images
<1>4. now \in Nat
  BY BoundAssumption DEF TypeOK
<1>5. (/\ dict' \in [Keys -> Values \cup {None}] /\ expires' \in [Keys -> Nat \cup {None}]
       /\ ver' \in 0 .. MaxWrites) => Image' \in Images
  BY DEF Image, Images
<1>6. QED
  BY <1>1, <1>2, <1>3, <1>4, <1>5

-----------------------------------------------------------------------------
(* What the commands do to what is shown                                     *)

\* A key leaves the keyspace; nobody sees it if it had run out.
LEMMA DeleteFacts ==
    ASSUME IInv, NEW k \in Keys, dbGenericDelete(k), ver' \in 0 .. MaxWrites
    PROVE  /\ Image' \in Images /\ Whole(Image')
           /\ Shown(Image', now) = [Shown(Image, now) EXCEPT ![k] = None]
           /\ dict[k] = None \/ keyIsExpired(k) <=> Shown(Image, now)[k] = None
           /\ dict[k] = None \/ keyIsExpired(k) => Shown(Image', now) = Shown(Image, now)
<1> TypeOK /\ Whole(Image)
  BY DEF IInv, ImagesWhole
<1>1. /\ Image \in Images /\ Image.dict = dict /\ Image.expires = expires /\ now \in Nat
      /\ Image'.dict = dict' /\ Image'.expires = expires'
      /\ dict \in [Keys -> Values \cup {None}] /\ expires \in [Keys -> Nat \cup {None}]
  BY ImageFacts
<1>2. dict' = [dict EXCEPT ![k] = None] /\ expires' = [expires EXCEPT ![k] = None]
  BY DEF dbGenericDelete
<1>3. Image' \in Images
  BY <1>1, <1>2, ImageFacts
<1>4. /\ Shown(Image', now) = [Shown(Image, now) EXCEPT ![k] = None]
      /\ Whole(Image')
  <2>1. /\ Image'.dict[k] = None /\ Image'.expires[k] = None
        /\ \A l \in Keys : l # k => /\ Image'.dict[l] = Image.dict[l]
                                    /\ Image'.expires[l] = Image.expires[l]
    BY <1>1, <1>2
  <2>2. QED
    BY <1>1, <1>3, <2>1, ShownChange
<1>5. dict[k] = None \/ keyIsExpired(k) <=> Shown(Image, now)[k] = None
  <2>1. expires[k] # None => (now > expires[k] <=> ~(now <= expires[k]))
    BY <1>1
  <2>2. Shown(Image, now)[k] # None <=> dict[k] # None /\ (expires[k] # None => now <= expires[k])
    BY <1>1, ShownFacts
  <2>3. QED
    BY <2>1, <2>2 DEF keyIsExpired
<1>6. Shown(Image, now)[k] = None => [Shown(Image, now) EXCEPT ![k] = None] = Shown(Image, now)
  BY DEF Shown
<1>7. QED
  BY <1>3, <1>4, <1>5, <1>6

\* SET shows the value until its time is over.
LEMMA SetFacts ==
    ASSUME IInv, NEW k \in Keys, NEW v \in Values, NEW ttl \in Ttls, setCommand(k, v, ttl)
    PROVE  /\ Image' \in Images /\ Whole(Image')
           /\ Shown(Image', now) =
                 [Shown(Image, now) EXCEPT ![k] = [val |-> v, till |-> Contract!Till(now, ttl)]]
<1> TypeOK /\ Whole(Image)
  BY DEF IInv, ImagesWhole
<1> DEFINE e == Contract!Till(now, ttl)
<1>1. /\ Image \in Images /\ Image.dict = dict /\ Image.expires = expires /\ now \in Nat
      /\ Image'.dict = dict' /\ Image'.expires = expires'
      /\ dict \in [Keys -> Values \cup {None}] /\ expires \in [Keys -> Nat \cup {None}]
      /\ ver \in 0 .. MaxWrites
  BY ImageFacts
<1>2. e \in Nat \cup {None} /\ (e = None \/ now <= e)
  BY <1>1, TtlsAssumption DEF Contract!Till
<1>3. dict' = [dict EXCEPT ![k] = v] /\ expires' = [expires EXCEPT ![k] = e]
  BY DEF setCommand, setKey, setExpire, Contract!Till
<1>4. ver' \in 0 .. MaxWrites
  BY <1>1, BoundAssumption DEF setCommand, Changed
<1> HIDE DEF e
<1>5. Image' \in Images
  BY <1>1, <1>2, <1>3, <1>4, ImageFacts
<1>6. /\ Shown(Image', now) = [Shown(Image, now) EXCEPT ![k] = [val |-> v, till |-> e]]
      /\ Whole(Image')
  <2>1. /\ Image'.dict[k] = v /\ v # None /\ Image'.expires[k] = e
        /\ \A l \in Keys : l # k => /\ Image'.dict[l] = Image.dict[l]
                                    /\ Image'.expires[l] = Image.expires[l]
    BY <1>1, <1>3, NoneAssumption
  <2>2. QED
    BY <1>1, <1>2, <1>5, <2>1, ShownChange
<1>7. QED
  BY <1>5, <1>6 DEF e

\* A command keeps the invariant when the map stays as it is, or changes and is
\* counted.
LEMMA CommandKeeps ==
    ASSUME IInv, up, UNCHANGED <<now, up, status, child, rdb, orphan, history>>,
           Image' \in Images, Whole(Image'),
           \/ UNCHANGED <<dirty, ver>> /\ Shown(Image', now) = Shown(Image, now)
           \/ Changed
    PROVE  IInv'
<1>1. TypeOK /\ Stopped /\ Counted /\ ImagesWhole /\ ChildCovers /\ Covered
  BY DEF IInv
<1>2. dirty \in Nat /\ ver \in Nat /\ dirty <= ver /\ MaxWrites \in Nat
  BY <1>1, ImageFacts, BoundAssumption DEF TypeOK, Counted
<1>3. UNCHANGED <<overwritten, clean, crashes>>
  BY DEF history
<1>4. dirty' \in 0 .. MaxWrites /\ dirty' <= ver' /\ dirty <= dirty'
  BY <1>1, <1>2 DEF Changed, TypeOK
<1>5. child # None => child.before \in 1 .. MaxWrites /\ child.before <= dirty
  BY <1>1 DEF TypeOK, Children, Counted
<1>6. TypeOK'
  <2>1. Image'.dict = dict' /\ Image'.expires = expires'
    BY DEF Image
  <2>2. \A k \in Keys : expires'[k] # None => dict'[k] # None
    BY <2>1 DEF Whole
  <2>3. QED
    BY <1>1, <1>3, <1>4, <2>2 DEF TypeOK
<1>7. Stopped' /\ Counted'
  BY <1>1, <1>2, <1>3, <1>4, <1>5 DEF Stopped, Counted
<1>8. ImagesWhole'
  BY <1>1 DEF ImagesWhole, Whole
<1>9. CASE UNCHANGED <<dirty, ver>> /\ Shown(Image', now) = Shown(Image, now)
  <2>1. View(Image)' = View(Image) /\ View(rdb)' = View(rdb) /\ View(child.image)' = View(child.image)
    BY <1>9, ViewIsShown
  <2>2. ChildCovers' /\ Covered'
    BY <1>1, <1>3, <1>9, <2>1 DEF ChildCovers, Covered, Unsaved
  <2>3. QED
    BY <1>6, <1>7, <1>8, <2>2 DEF IInv
<1>10. CASE Changed
  <2>1. dirty' = dirty + 1
    BY <1>10 DEF Changed
  <2>2. child # None => child.before # dirty'
    BY <1>2, <1>5, <2>1
  <2>3. Unsaved' # 0
    BY <1>2, <1>5, <2>1 DEF Unsaved
  <2>4. ChildCovers' /\ Covered'
    BY <2>2, <2>3 DEF ChildCovers, Covered
  <2>5. QED
    BY <1>6, <1>7, <1>8, <2>4 DEF IInv
<1>11. QED
  BY <1>9, <1>10

-----------------------------------------------------------------------------
(* The invariant, step by step                                               *)

\* The commands and the expiry cycle.
LEMMA CommandStep ==
    ASSUME IInv, NEW k \in Keys,
           \/ activeExpireCycle(k) \/ delCommand(k) \/ getCommand(k)
           \/ \E v \in Values, ttl \in Ttls : setCommand(k, v, ttl)
    PROVE  IInv'
<1>1. up /\ UNCHANGED <<now, up, status, child, rdb, orphan, history>>
  BY DEF activeExpireCycle, delCommand, getCommand, setCommand
<1>2. TypeOK /\ Whole(Image) /\ ver \in 0 .. MaxWrites /\ MaxWrites \in Nat /\ Image \in Images
  BY ImageFacts, BoundAssumption DEF IInv, ImagesWhole
<1>3. CASE dbGenericDelete(k) /\ UNCHANGED <<dirty, ver>> /\ (dict[k] = None \/ keyIsExpired(k))
  BY <1>1, <1>2, <1>3, DeleteFacts, CommandKeeps
<1>4. CASE activeExpireCycle(k)
  BY <1>3, <1>4 DEF activeExpireCycle
<1>5. CASE getCommand(k)
  <2>1. CASE keyIsExpired(k)
    BY <1>3, <1>5, <2>1 DEF getCommand
  <2>2. CASE ~keyIsExpired(k)
    <3>1. UNCHANGED <<dict, expires, dirty, ver>>
      BY <1>5, <2>2 DEF getCommand
    <3>2. Image' = Image
      BY <3>1 DEF Image
    <3>3. QED
      BY <1>1, <1>2, <3>1, <3>2, CommandKeeps
  <2>3. QED
    BY <2>1, <2>2
<1>6. CASE delCommand(k)
  <2>1. CASE dict[k] = None \/ keyIsExpired(k)
    BY <1>3, <1>6, <2>1 DEF delCommand
  <2>2. CASE ~(dict[k] = None \/ keyIsExpired(k))
    <3>1. dbGenericDelete(k) /\ Changed
      BY <1>6, <2>2 DEF delCommand
    <3>2. ver' \in 0 .. MaxWrites
      BY <1>2, <3>1 DEF Changed
    <3>3. QED
      BY <1>1, <3>1, <3>2, DeleteFacts, CommandKeeps
  <2>3. QED
    BY <2>1, <2>2
<1>7. ASSUME NEW v \in Values, NEW ttl \in Ttls, setCommand(k, v, ttl)
      PROVE  IInv'
  <2>1. Changed
    BY <1>7 DEF setCommand
  <2>2. QED
    BY <1>1, <1>7, <2>1, SetFacts, CommandKeeps
<1>8. QED
  BY <1>4, <1>5, <1>6, <1>7

\* Images that show the same go on doing so as time passes.
LEMMA TickStep ==
    ASSUME IInv, Tick
    PROVE  IInv'
<1>1. TypeOK /\ Stopped /\ Counted /\ ImagesWhole /\ ChildCovers /\ Covered
  BY DEF IInv
<1>2. UNCHANGED <<up, dict, expires, dirty, status, ver, child, rdb, orphan, overwritten, clean, crashes>>
  BY DEF Tick, server, history
<1>3. Image' = Image
  BY <1>2 DEF Image
<1>4. now \in Nat /\ now' = now + 1 /\ now' \in 0 .. MaxNow
  BY <1>1, BoundAssumption DEF Tick, TypeOK
<1>5. TypeOK' /\ Stopped' /\ Counted' /\ ImagesWhole'
  BY <1>1, <1>2, <1>3, <1>4 DEF TypeOK, Stopped, Counted, ImagesWhole, Whole
<1>6. \A i \in Images : Shown(i, now') = Contract!Live(Shown(i, now), now')
  BY <1>4, ShownTick
<1>7. Image \in Images /\ rdb \in Images /\ (child # None => child.image \in Images)
  BY <1>1 DEF TypeOK, Children
<1>8. /\ View(Image) = View(rdb) => View(Image)' = View(rdb)'
      /\ child # None /\ View(Image) = View(child.image) => View(Image)' = View(child.image)'
  BY <1>2, <1>3, <1>6, <1>7, ViewIsShown
<1>9. ChildCovers'
  BY <1>1, <1>2, <1>8 DEF ChildCovers
<1>10. Covered'
  BY <1>1, <1>2, <1>8 DEF Covered, Unsaved
<1>11. QED
  BY <1>5, <1>9, <1>10 DEF IInv

\* A background save, from the fork to the reaping of its child.
LEMMA SaveStep ==
    ASSUME IInv,
           \/ rdbSaveBackground \/ ForkFails \/ rdbSave \/ ChildExits \/ ChildFails
           \/ backgroundSaveDoneHandler
    PROVE  IInv'
<1>1. TypeOK /\ Stopped /\ Counted /\ ImagesWhole /\ ChildCovers /\ Covered
  BY DEF IInv
<1>2. UNCHANGED <<now, up, dict, expires, ver, orphan, clean, crashes>>
  BY DEF rdbSaveBackground, ForkFails, rdbSave, ChildExits, ChildFails, backgroundSaveDoneHandler,
         server, history
<1>3. Image' = Image /\ View(Image)' = View(Image)
  BY <1>2 DEF Image, View
<1>4. /\ dirty \in 0 .. MaxWrites /\ MaxWrites \in Nat /\ dirty <= ver /\ ver \in Nat
      /\ Image \in Images /\ rdb \in Images
  BY <1>1, ImageFacts, BoundAssumption DEF TypeOK, Counted
<1>5. child # None =>
          /\ child \in Children /\ child.image \in Images /\ Whole(child.image)
          /\ child.before \in 1 .. MaxWrites /\ child.before <= dirty /\ up
          /\ child.pc \in {"saving", "renamed", "ok", "failed", "killed"}
  BY <1>1 DEF TypeOK, Children, Counted, Stopped, ImagesWhole
<1> DEFINE KeptIf(c, n, f) ==
        /\ c \in Children \cup {None} /\ n \in 0 .. MaxWrites /\ f \in Images /\ Whole(f)
        /\ c # None => up /\ c.before <= n /\ Whole(c.image)
        /\ n <= dirty
\* What is left to show once the new child, counter and file are in their types.
<1>6. ASSUME KeptIf(child', dirty', rdb'), status' \in {"ok", "err"}, overwritten' \in BOOLEAN,
             ChildCovers', Covered'
      PROVE  IInv'
  <2>1. TypeOK'
    BY <1>1, <1>2, <1>3, <1>6 DEF TypeOK
  <2>2. Stopped' /\ Counted' /\ ImagesWhole'
    BY <1>1, <1>2, <1>3, <1>4, <1>6 DEF Stopped, Counted, ImagesWhole, Whole
  <2>3. QED
    BY <1>6, <2>1, <2>2 DEF IInv
<1>7. CASE rdbSaveBackground
  <2> DEFINE c == [image |-> Image, before |-> dirty, pc |-> "saving"]
  <2>1. /\ child = None /\ up /\ dirty >= 1 /\ child' = c
        /\ UNCHANGED <<dirty, status, rdb, overwritten>>
    BY <1>7 DEF rdbSaveBackground, AtSavePoint, server, history
  <2>2. c \in Children
    BY <1>4, <2>1 DEF Children
  <2>3. /\ child' \in Children /\ child' # None /\ child'.image = Image /\ child'.before = dirty
        /\ child'.pc = "saving"
    BY <2>1, <2>2, NoneAssumption
  <2>4. KeptIf(child', dirty', rdb') /\ status' \in {"ok", "err"} /\ overwritten' \in BOOLEAN
    BY <1>1, <1>4, <2>1, <2>3 DEF TypeOK, ImagesWhole
  <2>5. ChildCovers'
    BY <1>3, <2>3, ViewIsShown DEF ChildCovers
  <2>6. Covered'
    BY <1>4, <2>1, <2>3 DEF Covered, Unsaved
  <2>7. QED
    BY <1>6, <2>4, <2>5, <2>6
<1>8. CASE ForkFails
  <2>1. child = None /\ status' = "err" /\ UNCHANGED <<dirty, child, rdb, overwritten>>
    BY <1>8 DEF ForkFails, AtSavePoint, history
  <2>2. KeptIf(child', dirty', rdb') /\ overwritten' \in BOOLEAN
    BY <1>1, <1>4, <2>1 DEF TypeOK, ImagesWhole
  <2>3. View(rdb)' = View(rdb)
    BY <1>2, <2>1 DEF View
  <2>4. ChildCovers' /\ Covered'
    BY <1>1, <1>2, <1>3, <2>1, <2>3 DEF ChildCovers, Covered, Unsaved
  <2>5. QED
    BY <1>6, <2>1, <2>2, <2>4
<1>9. ASSUME NEW pc \in {"renamed", "ok", "failed"}, child # None,
             child' = [child EXCEPT !.pc = pc]
      PROVE  /\ child' \in Children /\ child' # None /\ child'.image = child.image
             /\ child'.before = child.before /\ child'.pc = pc
  <2>1. [child EXCEPT !.pc = pc] \in Children
    BY <1>5, <1>9 DEF Children
  <2>2. QED
    BY <1>5, <1>9, <2>1, NoneAssumption DEF Children
<1>10. CASE rdbSave
  <2>1. /\ child # None /\ child.pc = "saving" /\ rdb' = child.image
        /\ child' = [child EXCEPT !.pc = "renamed"] /\ overwritten' = FALSE
        /\ UNCHANGED <<dirty, status>>
    BY <1>10 DEF rdbSave, server
  <2>2. /\ child' \in Children /\ child' # None /\ child'.image = child.image
        /\ child'.before = child.before /\ child'.pc = "renamed"
    BY <1>9, <2>1
  <2>3. KeptIf(child', dirty', rdb') /\ status' \in {"ok", "err"} /\ overwritten' \in BOOLEAN
    <3>1. overwritten' \in BOOLEAN /\ status' \in {"ok", "err"}
      BY <1>1, <2>1 DEF TypeOK
    <3>2. rdb' \in Images /\ Whole(rdb') /\ dirty' \in 0 .. MaxWrites /\ dirty' <= dirty
      BY <1>4, <1>5, <2>1
    <3>3. up /\ child'.before <= dirty' /\ Whole(child'.image)
      BY <1>5, <2>1, <2>2
    <3>4. QED
      BY <2>2, <3>1, <3>2, <3>3
  <2>4. View(rdb)' = View(child.image)
    BY <1>2, <2>1 DEF View
  <2>5. ChildCovers'
    BY <1>1, <1>2, <1>3, <2>1, <2>2, <2>4 DEF ChildCovers
  <2>6. Covered'
    BY <1>4, <1>5, <2>1, <2>2 DEF Covered, Unsaved
  <2>7. QED
    BY <1>6, <2>3, <2>5, <2>6
<1>11. CASE ChildExits \/ ChildFails
  <2>1. /\ child # None /\ child.pc \in {"saving", "renamed"}
        /\ UNCHANGED <<dirty, status, rdb, overwritten>>
        /\ \/ child' = [child EXCEPT !.pc = "ok"] /\ child.pc = "renamed"
           \/ child' = [child EXCEPT !.pc = "failed"]
    BY <1>11 DEF ChildExits, ChildFails, server, history
  <2>2. /\ child' \in Children /\ child' # None /\ child'.image = child.image
        /\ child'.before = child.before
        /\ (child'.pc = "ok" /\ child.pc = "renamed") \/ child'.pc = "failed"
    BY <1>9, <2>1
  <2>3. KeptIf(child', dirty', rdb') /\ status' \in {"ok", "err"} /\ overwritten' \in BOOLEAN
    BY <1>1, <1>4, <1>5, <2>1, <2>2 DEF TypeOK, ImagesWhole
  <2>4. View(rdb)' = View(rdb)
    BY <1>2, <2>1 DEF View
  <2>5. ChildCovers'
    BY <2>2 DEF ChildCovers
  <2>6. Covered'
    BY <1>1, <1>2, <1>3, <1>4, <1>5, <2>1, <2>2, <2>4 DEF Covered, Unsaved, ChildCovers
  <2>7. QED
    BY <1>6, <2>3, <2>5, <2>6
<1>12. CASE backgroundSaveDoneHandler
  <2>1. /\ child # None /\ child.pc \in {"ok", "failed", "killed"} /\ child' = None
        /\ dirty' = dirtyAfterSave /\ status' = statusAfterSave /\ UNCHANGED <<rdb, overwritten>>
    BY <1>12 DEF backgroundSaveDoneHandler, history
  <2>2. dirty' = IF child.pc = "ok" THEN dirty - child.before ELSE dirty
    BY <2>1 DEF dirtyAfterSave
  <2>3. dirty' \in 0 .. MaxWrites /\ dirty' <= dirty
    BY <1>4, <1>5, <2>1, <2>2
  <2>4. status' \in {"ok", "err"}
    BY <1>1, <2>1 DEF statusAfterSave, TypeOK
  <2>5. KeptIf(child', dirty', rdb') /\ overwritten' \in BOOLEAN
    BY <1>1, <1>4, <2>1, <2>3 DEF TypeOK, ImagesWhole
  <2>6. View(rdb)' = View(rdb)
    BY <1>2, <2>1 DEF View
  <2>7. ChildCovers'
    BY <2>1 DEF ChildCovers
  <2>8. Unsaved' = 0 => Unsaved = 0
    BY <1>4, <1>5, <2>1, <2>2 DEF Unsaved
  <2>9. Covered'
    BY <1>1, <1>2, <1>3, <2>1, <2>6, <2>8 DEF Covered
  <2>10. QED
    BY <1>6, <2>4, <2>5, <2>7, <2>9
<1>13. QED
  BY <1>7, <1>8, <1>10, <1>11, <1>12

\* A server that stops leaves nothing to show and nothing to count.
LEMMA ForgetKeeps ==
    ASSUME IInv, Forget, now' = now, rdb' \in {rdb, Image}, orphan' \in Images \cup {None},
           orphan' # None => Whole(orphan'), crashes' \in 0 .. MaxCrashes,
           overwritten' \in BOOLEAN, clean' \in BOOLEAN, clean' => orphan' = None
    PROVE  IInv'
<1>1. TypeOK /\ ImagesWhole
  BY DEF IInv
<1>2. ~up' /\ dict' = NoKeys /\ expires' = NoKeys /\ dirty' = 0 /\ status' = "ok" /\ ver' = 0 /\ child' = None
  BY DEF Forget
<1>3. 0 \in 0 .. MaxWrites
  BY BoundAssumption
<1>4. NoKeys \in [Keys -> Values \cup {None}] /\ NoKeys \in [Keys -> Nat \cup {None}]
  BY DEF NoKeys
<1>5. Image' \in Images
  BY <1>1, <1>2, <1>3, <1>4, ImageFacts
<1>6. Whole(Image') /\ \A k \in Keys : expires'[k] # None => dict'[k] # None
  BY <1>1, <1>2, ImageFacts DEF Whole, NoKeys
<1>7. rdb' \in Images /\ Whole(rdb')
  BY <1>1 DEF TypeOK, ImagesWhole
<1>8. TypeOK'
  <2>1. up' \in BOOLEAN
    BY DEF Forget
  <2>2. now' \in 0 .. MaxNow
    BY <1>1 DEF TypeOK
  <2>3. QED
    BY <1>2, <1>3, <1>5, <1>6, <1>7, <2>1, <2>2 DEF TypeOK
<1>9. Stopped' /\ Counted' /\ ImagesWhole'
  BY <1>2, <1>6, <1>7 DEF Stopped, Counted, ImagesWhole, Whole
<1>10. ChildCovers' /\ Covered'
  BY <1>2 DEF ChildCovers, Covered
<1>11. QED
  BY <1>8, <1>9, <1>10 DEF IInv

\* A stop that was asked for, done or failed.
LEMMA ShutdownStep ==
    ASSUME IInv, finishShutdown
    PROVE  IInv'
<1>1. TypeOK /\ Stopped /\ Counted /\ ImagesWhole /\ ChildCovers /\ Covered
  BY DEF IInv
<1>2. up /\ UNCHANGED <<now, orphan, crashes>>
  BY DEF finishShutdown
<1>3. CASE Forget /\ rdb' = Image /\ clean' = (orphan = None) /\ overwritten' = FALSE
  <2>1. /\ orphan' \in Images \cup {None} /\ (orphan' # None => Whole(orphan'))
        /\ crashes' \in 0 .. MaxCrashes
    BY <1>1, <1>2 DEF TypeOK, ImagesWhole
  <2>2. overwritten' \in BOOLEAN /\ clean' \in BOOLEAN
    BY <1>3
  <2>3. clean' => orphan' = None
    BY <1>2, <1>3
  <2>4. QED
    BY <1>2, <1>3, <2>1, <2>2, <2>3, ForgetKeeps
<1>4. CASE /\ \/ UNCHANGED <<rdb, overwritten>>
              \/ rdb' = Image /\ overwritten' = FALSE
           /\ child' = killRDBChild
           /\ UNCHANGED <<up, server, clean>>
  <2>1. UNCHANGED <<up, dict, expires, dirty, status, ver, clean>>
    BY <1>4 DEF server
  <2>2. Image' = Image /\ View(Image)' = View(Image)
    BY <1>2, <2>1 DEF Image, View
  <2>3. child # None =>
            /\ child \in Children /\ child.before \in 1 .. MaxWrites /\ child.before <= dirty
            /\ child.pc \in {"saving", "renamed", "ok", "failed", "killed"}
    BY <1>1 DEF TypeOK, Children, Counted
  <2>4. /\ child = None => child' = None
        /\ child # None => /\ child' \in Children /\ child' # None /\ child'.before = child.before
                           /\ child'.image = child.image
                           /\ child'.pc \in {"ok", "failed", "killed"}
                           /\ child'.pc = "ok" <=> child.pc = "ok"
    <3>1. CASE child # None /\ child.pc \in {"saving", "renamed"}
      <4>1. child' = [child EXCEPT !.pc = "killed"]
        BY <1>4, <3>1 DEF killRDBChild
      <4>2. [child EXCEPT !.pc = "killed"] \in Children
        BY <2>3, <3>1 DEF Children
      <4>3. QED
        BY <2>3, <3>1, <4>1, <4>2, NoneAssumption DEF Children
    <3>2. CASE ~(child # None /\ child.pc \in {"saving", "renamed"})
      BY <1>4, <2>3, <3>2 DEF killRDBChild
    <3>3. QED
      BY <3>1, <3>2
  <2>5. rdb' \in Images /\ Whole(rdb')
    BY <1>1, <1>4 DEF TypeOK, ImagesWhole
  <2>6. overwritten' \in BOOLEAN
    BY <1>1, <1>4 DEF TypeOK
  <2>7. TypeOK'
    BY <1>1, <1>2, <2>1, <2>2, <2>4, <2>5, <2>6 DEF TypeOK
  <2>8. Stopped' /\ Counted'
    BY <1>1, <1>2, <2>1, <2>3, <2>4 DEF Stopped, Counted
  <2>9. ImagesWhole'
    BY <1>1, <1>2, <2>2, <2>4, <2>5 DEF ImagesWhole, Whole
  <2>10. ChildCovers'
    BY <2>4 DEF ChildCovers
  <2>11. Covered'
    <3>1. CASE UNCHANGED <<rdb, overwritten>>
      <4>1. View(rdb)' = View(rdb)
        BY <1>2, <3>1 DEF View
      <4>2. Unsaved' = Unsaved
        BY <2>1, <2>4 DEF Unsaved
      <4>3. QED
        BY <1>1, <2>1, <2>2, <3>1, <4>1, <4>2 DEF Covered
    <3>2. CASE rdb' = Image
      BY <1>2, <2>2, <3>2, ViewIsShown DEF Covered
    <3>3. QED
      BY <1>4, <3>1, <3>2
  <2>12. QED
    BY <2>7, <2>8, <2>9, <2>10, <2>11 DEF IInv
<1>5. QED
  BY <1>3, <1>4 DEF finishShutdown

\* A crash, and the child that may outlive it.
LEMMA CrashStep ==
    ASSUME IInv, Crash \/ OrphanSaves \/ OrphanDies
    PROVE  IInv'
<1>1. TypeOK /\ Stopped /\ Counted /\ ImagesWhole /\ ChildCovers /\ Covered
  BY DEF IInv
<1>2. CASE Crash
  <2>1. /\ Forget /\ now' = now /\ rdb' = rdb /\ ~clean' /\ overwritten' = overwritten
        /\ crashes' \in 0 .. MaxCrashes /\ orphan' \in {orphan, Surviving}
    BY <1>1, <1>2, BoundAssumption DEF Crash, Stopped, TypeOK
  <2>2. /\ Surviving \in Images \cup {None} /\ (Surviving # None => Whole(Surviving))
        /\ orphan \in Images \cup {None} /\ (orphan # None => Whole(orphan))
    BY <1>1 DEF Surviving, TypeOK, ImagesWhole, Children
  <2>3. overwritten' \in BOOLEAN /\ clean' \in BOOLEAN
    BY <1>1, <1>2 DEF Crash, TypeOK
  <2>4. QED
    BY <2>1, <2>2, <2>3, ForgetKeeps
<1>3. CASE OrphanSaves \/ OrphanDies
  <2>1. /\ orphan # None /\ orphan' = None
        /\ UNCHANGED <<now, up, dict, expires, dirty, status, ver, child, clean, crashes>>
        /\ \/ rdb' = orphan /\ overwritten' = up
           \/ UNCHANGED <<rdb, overwritten>>
    BY <1>3 DEF OrphanSaves, OrphanDies, server, history
  <2>2. Image' = Image /\ View(Image)' = View(Image) /\ View(child.image)' = View(child.image)
    BY <2>1 DEF Image, View
  <2>3. rdb' \in Images /\ Whole(rdb')
    BY <1>1, <2>1 DEF TypeOK, ImagesWhole
  <2>4. overwritten' \in BOOLEAN
    BY <1>1, <2>1 DEF TypeOK
  <2>5. TypeOK'
    BY <1>1, <2>1, <2>2, <2>3, <2>4 DEF TypeOK
  <2>6. Stopped' /\ Counted' /\ ImagesWhole'
    BY <1>1, <2>1, <2>2, <2>3 DEF Stopped, Counted, ImagesWhole, Whole
  <2>7. rdb' = rdb => View(rdb)' = View(rdb)
    BY <2>1 DEF View
  <2>8. ChildCovers' /\ Covered'
    BY <1>1, <2>1, <2>2, <2>7 DEF ChildCovers, Covered, Unsaved
  <2>9. QED
    BY <2>5, <2>6, <2>8 DEF IInv
<1>4. QED
  BY <1>2, <1>3

\* A start brings back what the file shows.
LEMMA LoadFacts ==
    ASSUME IInv, rdbLoad
    PROVE  /\ Image' \in Images /\ Whole(Image') /\ child = None
           /\ Shown(Image', now) = Shown(rdb, now)
<1>1. TypeOK /\ Whole(rdb) /\ child = None /\ rdb \in Images /\ now \in Nat
  BY ImageFacts DEF IInv, ImagesWhole, Stopped, rdbLoad, TypeOK
<1>2. /\ dict' = [k \in Keys |-> IF rdb.expires[k] = None \/ now <= rdb.expires[k]
                                 THEN rdb.dict[k] ELSE None]
      /\ expires' = [k \in Keys |-> IF rdb.expires[k] = None \/ now <= rdb.expires[k]
                                    THEN rdb.expires[k] ELSE None]
      /\ ver' = rdb.ver
  BY DEF rdbLoad
<1>3. /\ rdb.dict \in [Keys -> Values \cup {None}] /\ rdb.expires \in [Keys -> Nat \cup {None}]
      /\ rdb.ver \in 0 .. MaxWrites
  BY <1>1 DEF Images
<1>4. dict' \in [Keys -> Values \cup {None}] /\ expires' \in [Keys -> Nat \cup {None}]
  BY <1>2, <1>3
<1>5. /\ Image' \in Images /\ Image'.dict = dict' /\ Image'.expires = expires'
  BY <1>1, <1>2, <1>3, <1>4, ImageFacts
<1>6. Whole(Image')
  BY <1>1, <1>2, <1>5 DEF Whole
<1>7. Shown(Image', now) = Shown(rdb, now)
  BY <1>2, <1>5 DEF Shown
<1>8. QED
  BY <1>1, <1>5, <1>6, <1>7

\* The invariant after a start.
LEMMA LoadStep ==
    ASSUME IInv, rdbLoad
    PROVE  IInv'
<1>1. TypeOK /\ Stopped /\ ImagesWhole
  BY DEF IInv
<1>2. /\ up' = TRUE /\ dirty' = 0 /\ status' = "ok" /\ overwritten' = FALSE /\ clean' = FALSE
      /\ UNCHANGED <<now, child, rdb, orphan, crashes>>
  BY DEF rdbLoad
<1>3. Image' \in Images /\ Whole(Image') /\ child = None /\ Shown(Image', now) = Shown(rdb, now)
  BY LoadFacts
<1>4. Image'.dict = dict' /\ Image'.expires = expires' /\ Image'.ver = ver' /\ ver' \in 0 .. MaxWrites
  BY <1>1, <1>3, ImageFacts DEF Images
<1>5. TypeOK'
  <2>1. up' \in BOOLEAN /\ overwritten' \in BOOLEAN /\ clean' \in BOOLEAN
    BY <1>2
  <2>2. dirty' \in 0 .. MaxWrites /\ status' \in {"ok", "err"}
    BY <1>2, BoundAssumption
  <2>3. \A k \in Keys : expires'[k] # None => dict'[k] # None
    BY <1>3, <1>4 DEF Whole
  <2>4. QED
    BY <1>1, <1>2, <1>3, <2>1, <2>2, <2>3 DEF TypeOK
<1>6. Stopped' /\ Counted' /\ ImagesWhole'
  BY <1>1, <1>2, <1>3, <1>4 DEF Stopped, Counted, ImagesWhole, Whole
<1>7. View(Image)' = View(rdb)'
  BY <1>2, <1>3, ViewIsShown
<1>8. ChildCovers' /\ Covered'
  BY <1>2, <1>3, <1>7 DEF ChildCovers, Covered
<1>9. QED
  BY <1>5, <1>6, <1>8 DEF IInv

-----------------------------------------------------------------------------
\* Every step keeps the invariant.
LEMMA InvStep == IInv /\ [Next]_vars => IInv'
<1> SUFFICES ASSUME IInv, [Next]_vars
             PROVE  IInv'
  OBVIOUS
<1>1. ASSUME UNCHANGED <<now, up, server, child, rdb, orphan, history>>
      PROVE  IInv'
  <2>1. UNCHANGED <<now, up, dict, expires, dirty, status, ver, child, rdb, orphan, overwritten, clean,
                    crashes>>
    BY <1>1 DEF server, history
  <2>2. TypeOK' /\ Image' = Image
    BY <2>1 DEF IInv, TypeOK, Image
  <2>3. Stopped' /\ Counted' /\ ImagesWhole'
    BY <2>1, <2>2 DEF IInv, Stopped, Counted, ImagesWhole, Whole
  <2>4. ChildCovers' /\ Covered'
    BY <2>1, <2>2 DEF IInv, ChildCovers, Covered, Unsaved, View
  <2>5. QED
    BY <2>2, <2>3, <2>4 DEF IInv
<1>2. CASE Refused
  BY <1>1, <1>2 DEF Refused
<1>3. CASE UNCHANGED vars
  BY <1>1, <1>3 DEF vars
<1>4. QED
  BY <1>2, <1>3, CommandStep, TickStep, SaveStep, ShutdownStep, CrashStep, LoadStep DEF Next

\* The invariant holds at the start.
LEMMA InitInv == Init => IInv
<1> SUFFICES ASSUME Init
             PROVE  IInv
  OBVIOUS
<1>1. /\ NoKeys \in [Keys -> Values \cup {None}] /\ NoKeys \in [Keys -> Nat \cup {None}]
      /\ 0 \in 0 .. MaxWrites
  BY BoundAssumption DEF NoKeys
<1>2. Image = Blank /\ Blank \in Images /\ rdb = Blank
  BY <1>1 DEF Init, Image, Blank, Images
<1>3. Whole(Blank)
  BY DEF Whole, Blank, NoKeys
<1>4. TypeOK
  <2>1. now \in 0 .. MaxNow /\ dirty \in 0 .. MaxWrites /\ crashes \in 0 .. MaxCrashes
    BY BoundAssumption DEF Init
  <2>2. up \in BOOLEAN /\ overwritten \in BOOLEAN /\ clean \in BOOLEAN
    BY DEF Init
  <2>3. \A k \in Keys : expires[k] # None => dict[k] # None
    BY DEF Init, NoKeys
  <2>4. orphan = None /\ child = None /\ status = "ok"
    BY DEF Init
  <2>5. QED
    BY <1>2, <2>1, <2>2, <2>3, <2>4 DEF TypeOK
<1>5. Stopped /\ Counted /\ ImagesWhole
  BY <1>1, <1>2, <1>3 DEF Init, Stopped, Counted, ImagesWhole
<1>6. ChildCovers /\ Covered
  BY <1>2 DEF Init, ChildCovers, Covered
<1>7. QED
  BY <1>4, <1>5, <1>6 DEF IInv

\* The inductive invariant holds throughout.
THEOREM InvariantHolds == Spec => []IInv
BY InitInv, InvStep, PTL DEF Spec

\* A server that counts no change to save has saved what it shows: the counter,
\* the child's copy of it and the expiry that is not counted fit together.
THEOREM NothingUncounted == Spec => []CleanMeansSaved
<1>1. IInv => CleanMeansSaved
  BY DEF IInv, Covered, CleanMeansSaved
<1>2. QED
  BY <1>1, InvariantHolds, PTL

\* After a completed shutdown no child is left that could replace its file.
THEOREM ShutdownStands == Spec => ShutdownSaveStands
<1>1. ASSUME IInv, [Next]_vars, ~up, clean
      PROVE  rdb' = rdb
  <2>1. child = None /\ orphan = None
    BY <1>1 DEF IInv, Stopped
  <2>2. QED
    BY <1>1, <2>1
    DEF Next, vars, Tick, Refused, rdbSaveBackground, AtSavePoint, ForkFails, rdbSave, ChildExits,
        ChildFails, backgroundSaveDoneHandler, finishShutdown, Crash, OrphanSaves, OrphanDies,
        rdbLoad, activeExpireCycle, delCommand, getCommand, setCommand
<1>2. IInv /\ [Next]_vars => [~up /\ clean => rdb' = rdb]_vars
  BY <1>1
<1>3. QED
  BY <1>2, InvariantHolds, PTL DEF Spec, ShutdownSaveStands

-----------------------------------------------------------------------------
(* RedisStore implements StoreContract                                       *)

\* What a child c that is still saving has of an image at time t, if anything.
Saving(c, t) == IF c # None /\ c.pc = "saving" THEN {Shown(c.image, t)} ELSE {}
Orphaned(o, t) == IF o # None THEN {Shown(o, t)} ELSE {}

\* The variables of the contract, before and after a step.
LEMMA MappedFacts ==
    ASSUME IInv, IInv'
    PROVE  /\ Memory = Shown(Image, now) /\ Memory' = Shown(Image', now')
           /\ Dump = Shown(rdb, now) /\ Dump' = Shown(rdb', now')
           /\ Pending = Saving(child, now) \cup Orphaned(orphan, now)
           /\ Pending' = Saving(child', now') \cup Orphaned(orphan', now')
<1>1. /\ Memory = Shown(Image, now) /\ Memory' = Shown(Image', now')
      /\ Dump = Shown(rdb, now) /\ Dump' = Shown(rdb', now')
  BY ViewIsShown DEF Memory, Dump
<1>2. ASSUME NEW c \in Children \cup {None}, NEW o \in Images \cup {None}, NEW t
      PROVE  {Shown(i, t) : i \in {j \in {IF c # None /\ c.pc = "saving" THEN c.image ELSE None, o} :
                                       j # None}}
             = Saving(c, t) \cup Orphaned(o, t)
  <2>1. c # None => c.image # None
    BY NoneAssumption DEF Children
  <2>2. QED
    BY <2>1 DEF Saving, Orphaned
<1>3. /\ child \in Children \cup {None} /\ orphan \in Images \cup {None}
      /\ child' \in Children \cup {None} /\ orphan' \in Images \cup {None}
  BY DEF IInv, TypeOK
<1>4. Pending = {Shown(i, now) : i \in {j \in {IF child # None /\ child.pc = "saving"
                                               THEN child.image ELSE None, orphan} : j # None}}
  BY DEF Pending, View, Shown
<1>5. Pending' = {Shown(i, now') : i \in {j \in {IF child' # None /\ child'.pc = "saving"
                                                 THEN child'.image ELSE None, orphan'} : j # None}}
  BY DEF Pending, View, Shown
<1>6. QED
  BY <1>1, <1>2, <1>3, <1>4, <1>5

\* The initial states map to the initial state of the contract.
LEMMA ContractInit == Init => Contract!Init
<1> SUFFICES ASSUME Init
             PROVE  Contract!Init
  OBVIOUS
<1>1. Memory = Contract!Empty /\ Dump = Contract!Empty
  BY DEF Init, Memory, Dump, View, Image, Blank, NoKeys, Contract!Empty
<1>2. Pending = {}
  BY DEF Init, Pending
<1>3. QED
  BY <1>1, <1>2 DEF Init, Contract!Init

\* The image a step starts from, and its version after the step.
LEMMA ImageTyped ==
    ASSUME IInv, IInv'
    PROVE  /\ TypeOK /\ Image.dict = dict /\ Image.expires = expires /\ Image \in Images
           /\ now \in Nat /\ ver' \in 0 .. MaxWrites
<1>1. TypeOK /\ Image \in Images /\ now \in Nat
  BY DEF IInv, TypeOK
<1>2. Image.dict = dict /\ Image.expires = expires
  BY DEF Image
<1>3. ver' \in 0 .. MaxWrites
  <2>1. Image' \in Images
    BY DEF IInv, TypeOK
  <2>2. Image'.ver = ver'
    BY DEF Image
  <2>3. \A i \in Images : i.ver \in 0 .. MaxWrites
    BY DEF Images
  <2>4. QED
    BY <2>1, <2>2, <2>3
<1>4. QED
  BY <1>1, <1>2, <1>3

\* GET answers from the map of the contract: a key that has run out is absent
\* there and is deleted on the way.
LEMMA ContractGet ==
    ASSUME IInv, IInv', NEW k \in Keys, getCommand(k)
    PROVE  Contract!Get(k)
<1>1. up /\ UNCHANGED <<now, up, child, rdb, orphan>>
  BY DEF getCommand
<1>2. /\ Dump' = Dump /\ Pending' = Pending
      /\ Memory = Shown(Image, now) /\ Memory' = Shown(Image', now)
  BY <1>1, MappedFacts
<1>3. /\ TypeOK /\ Image.dict = dict /\ Image.expires = expires /\ Image \in Images /\ now \in Nat
      /\ ver' \in 0 .. MaxWrites
  BY ImageTyped
<1>4. SUFFICES Memory' = Memory /\ reply' = (IF Memory[k] = None THEN None ELSE Memory[k].val)
  BY <1>1, <1>2 DEF Contract!Get
<1>5. CASE keyIsExpired(k)
  <2>1. Memory' = Memory /\ Memory[k] = None
    BY <1>2, <1>3, <1>5, DeleteFacts DEF getCommand
  <2>2. reply' = None
    BY <1>5 DEF getCommand
  <2>3. QED
    BY <2>1, <2>2
<1>6. CASE ~keyIsExpired(k)
  <2>1. reply' = dict[k] /\ UNCHANGED <<dict, expires, ver>>
    BY <1>6 DEF getCommand
  <2>2. Memory' = Memory
    BY <1>2, <2>1 DEF Image
  <2>3. expires[k] # None => now <= expires[k]
    BY <1>6, ImageFacts DEF IInv, keyIsExpired
  <2>4. CASE dict[k] = None
    <3>1. Memory[k] = None
      BY <1>2, <1>3, <2>4 DEF Shown
    <3>2. QED
      BY <2>1, <2>2, <2>4, <3>1
  <2>5. CASE dict[k] # None
    <3>1. Memory[k] = [val |-> dict[k], till |-> expires[k]]
      BY <1>2, <1>3, <2>3, <2>5 DEF Shown
    <3>2. Memory[k] # None
      BY <1>2, <1>3, <2>3, <2>5, ShownFacts
    <3>3. Memory[k].val = dict[k]
      BY <3>1
    <3>4. QED
      BY <2>1, <2>2, <3>2, <3>3
  <2>6. QED
    BY <2>4, <2>5
<1>7. QED
  BY <1>5, <1>6

\* Commands: SET, DEL and GET are those of the contract, and a key that is
\* deleted because it has run out is gone already there.
LEMMA ContractCommand ==
    ASSUME IInv, IInv', NEW k \in Keys,
           \/ activeExpireCycle(k) \/ delCommand(k) \/ getCommand(k)
           \/ \E v \in Values, ttl \in Ttls : setCommand(k, v, ttl)
    PROVE  Contract!Next \/ UNCHANGED Contract!vars
<1>1. up /\ UNCHANGED <<now, up, child, rdb, orphan>>
  BY DEF activeExpireCycle, delCommand, getCommand, setCommand
<1>2. Dump' = Dump /\ Pending' = Pending
  BY <1>1, MappedFacts
<1>3. Memory = Shown(Image, now) /\ Memory' = Shown(Image', now)
  BY <1>1, MappedFacts
<1>4. /\ TypeOK /\ Image.dict = dict /\ Image.expires = expires /\ Image \in Images /\ now \in Nat
      /\ ver' \in 0 .. MaxWrites
  BY ImageTyped
<1>5. CASE activeExpireCycle(k)
  <2>1. Memory' = Memory /\ reply' = reply
    BY <1>3, <1>4, <1>5, DeleteFacts DEF activeExpireCycle
  <2>2. QED
    BY <1>1, <1>2, <2>1 DEF Contract!vars
<1>6. CASE delCommand(k)
  <2>1. /\ Memory' = [Memory EXCEPT ![k] = None]
        /\ dict[k] = None \/ keyIsExpired(k) <=> Memory[k] = None
    BY <1>3, <1>4, <1>6, DeleteFacts DEF delCommand
  <2>2. reply' = IF Memory[k] = None THEN "absent" ELSE "deleted"
    BY <1>6, <2>1 DEF delCommand
  <2>3. Contract!Del(k)
    BY <1>1, <1>2, <2>1, <2>2 DEF Contract!Del
  <2>4. QED
    BY <2>3 DEF Contract!Next
<1>7. CASE getCommand(k)
  BY <1>7, ContractGet DEF Contract!Next
<1>8. ASSUME NEW v \in Values, NEW ttl \in Ttls, setCommand(k, v, ttl)
      PROVE  Contract!Next
  <2>1. Memory' = [Memory EXCEPT ![k] = [val |-> v, till |-> Contract!Till(now, ttl)]]
    BY <1>3, <1>8, SetFacts
  <2>2. Contract!Set(k, v, ttl)
    BY <1>1, <1>2, <1>8, <2>1 DEF Contract!Set, setCommand
  <2>3. QED
    BY <2>2 DEF Contract!Next
<1>9. QED
  BY <1>5, <1>6, <1>7, <1>8

\* The clock, and a write that is turned away.
LEMMA ContractTick ==
    ASSUME IInv, IInv', Tick \/ Refused
    PROVE  Contract!Next
<1>1. CASE Tick
  <2>1. now' = now + 1 /\ UNCHANGED <<up, dict, expires, ver, child, rdb, reply, orphan>>
    BY <1>1 DEF Tick, server
  <2>2. now \in Nat /\ Image' = Image
    BY <2>1, ImageFacts DEF IInv, Image
  <2>3. \A i \in Images : Shown(i, now') = Contract!Live(Shown(i, now), now')
    BY <2>1, <2>2, ShownTick
  <2>4. /\ Image \in Images /\ rdb \in Images
        /\ child # None => child.image \in Images
        /\ orphan # None => orphan \in Images
    BY DEF IInv, TypeOK, Children
  <2>5. Memory' = Contract!Live(Memory, now') /\ Dump' = Contract!Live(Dump, now')
    BY <2>1, <2>2, <2>3, <2>4, MappedFacts
  <2>6. Pending' = {Contract!Live(m, now') : m \in Pending}
    <3>1. /\ Saving(child', now') = {Contract!Live(m, now') : m \in Saving(child, now)}
          /\ Orphaned(orphan', now') = {Contract!Live(m, now') : m \in Orphaned(orphan, now)}
      BY <2>1, <2>3, <2>4 DEF Saving, Orphaned
    <3>2. QED
      BY <3>1, MappedFacts
  <2>7. Contract!Tick
    BY <2>1, <2>5, <2>6 DEF Contract!Tick
  <2>8. QED
    BY <2>7 DEF Contract!Next
<1>2. CASE Refused
  <2>1. up /\ reply' = "MISCONF" /\ UNCHANGED <<now, up, dict, expires, ver, child, rdb, orphan>>
    BY <1>2 DEF Refused, server
  <2>2. Memory' = Memory /\ Dump' = Dump /\ Pending' = Pending
    BY <2>1, MappedFacts DEF Image
  <2>3. Contract!Refuse
    BY <2>1, <2>2 DEF Contract!Refuse
  <2>4. QED
    BY <2>3 DEF Contract!Next
<1>3. QED
  BY <1>1, <1>2

\* A background save: its fork takes an image, its rename saves it, and a
\* failure before that drops it.
LEMMA ContractSave ==
    ASSUME IInv, IInv',
           \/ rdbSaveBackground \/ ForkFails \/ rdbSave \/ ChildExits \/ ChildFails
           \/ backgroundSaveDoneHandler
    PROVE  Contract!Next \/ UNCHANGED Contract!vars
<1>1. UNCHANGED <<now, up, dict, expires, ver, reply, orphan>>
  BY DEF rdbSaveBackground, ForkFails, rdbSave, ChildExits, ChildFails, backgroundSaveDoneHandler,
         server
<1>2. Memory' = Memory
  BY <1>1, MappedFacts DEF Image
<1>3. child \in Children \cup {None} /\ child' \in Children \cup {None}
  BY DEF IInv, TypeOK
<1>4. \A pc \in {"renamed", "ok", "failed"} :
          child # None /\ child' = [child EXCEPT !.pc = pc] => child'.pc = pc
  BY <1>3 DEF Children
<1>5. CASE rdbSaveBackground
  <2>1. up /\ child = None /\ rdb' = rdb /\ child' = [image |-> Image, before |-> dirty, pc |-> "saving"]
    BY <1>5 DEF rdbSaveBackground, AtSavePoint
  <2>2. child' # None
    <3>1. Image \in Images /\ dirty \in 1 .. MaxWrites
      BY <1>5, BoundAssumption DEF IInv, TypeOK, rdbSaveBackground, AtSavePoint
    <3>2. child' \in Children
      BY <2>1, <3>1 DEF Children
    <3>3. QED
      BY <3>2, NoneAssumption
  <2>3. Saving(child, now) = {} /\ Saving(child', now') = {Shown(Image, now)}
    BY <1>1, <2>1, <2>2 DEF Saving
  <2>4. Pending' = Pending \cup {Memory} /\ Dump' = Dump
    BY <1>1, <2>1, <2>3, MappedFacts
  <2>5. Contract!TakeImage
    BY <1>1, <1>2, <2>1, <2>4 DEF Contract!TakeImage
  <2>6. QED
    BY <2>5 DEF Contract!Next
<1>6. CASE rdbSave
  <2>1. child # None /\ child.pc = "saving" /\ rdb' = child.image /\ child' = [child EXCEPT !.pc = "renamed"]
    BY <1>6 DEF rdbSave
  <2>2. Saving(child, now) = {Shown(child.image, now)} /\ Saving(child', now') = {}
    BY <1>4, <2>1 DEF Saving
  <2>3. Dump' \in Pending /\ Pending' \in {Pending, Pending \ {Dump'}}
    <3>1. /\ Dump' = Shown(child.image, now) /\ Pending = {Shown(child.image, now)} \cup Orphaned(orphan, now)
          /\ Pending' = Orphaned(orphan, now)
      BY <1>1, <2>1, <2>2, MappedFacts
    <3>2. QED
      BY <3>1 DEF Orphaned
  <2>4. Contract!SaveImage
    BY <1>1, <1>2, <2>3 DEF Contract!SaveImage
  <2>5. QED
    BY <2>4 DEF Contract!Next
<1>7. ASSUME rdb' = rdb, Saving(child', now') \in {{}, Saving(child, now)}
      PROVE  Contract!Next \/ UNCHANGED Contract!vars
  <2>1. Dump' = Dump
    BY <1>1, <1>7, MappedFacts
  <2>2. /\ Pending = Saving(child, now) \cup Orphaned(orphan, now)
        /\ Pending' = Saving(child', now') \cup Orphaned(orphan, now)
    BY <1>1, MappedFacts
  <2>3. Pending' = Pending \/ \E m \in Pending : Pending' = Pending \ {m}
    BY <1>7, <2>2 DEF Saving, Orphaned
  <2>4. CASE Pending' = Pending
    BY <1>1, <1>2, <2>1, <2>4 DEF Contract!vars
  <2>5. CASE \E m \in Pending : Pending' = Pending \ {m}
    <3>1. Contract!DropImage
      BY <1>1, <1>2, <2>1, <2>5 DEF Contract!DropImage
    <3>2. QED
      BY <3>1 DEF Contract!Next
  <2>6. QED
    BY <2>3, <2>4, <2>5
<1>8. CASE ForkFails
  BY <1>1, <1>7, <1>8 DEF ForkFails
<1>9. CASE ChildExits \/ ChildFails
  <2>1. rdb' = rdb /\ child # None /\ \E pc \in {"ok", "failed"} : child' = [child EXCEPT !.pc = pc]
    BY <1>9 DEF ChildExits, ChildFails
  <2>2. Saving(child', now') = {}
    BY <1>4, <2>1 DEF Saving
  <2>3. QED
    BY <1>7, <2>1, <2>2
<1>10. CASE backgroundSaveDoneHandler
  BY <1>7, <1>10 DEF backgroundSaveDoneHandler, Saving
<1>11. QED
  BY <1>5, <1>6, <1>8, <1>9, <1>10

\* Stops and starts: a shutdown saves the map and gives up the child's image, a
\* crash keeps what an orphan goes on with, and a start loads the saved image.
LEMMA ContractStop ==
    ASSUME IInv, IInv', finishShutdown \/ Crash \/ OrphanSaves \/ OrphanDies \/ rdbLoad
    PROVE  Contract!Next \/ UNCHANGED Contract!vars
<1>1. UNCHANGED <<now, reply>>
  BY DEF finishShutdown, Crash, OrphanSaves, OrphanDies, rdbLoad
<1>2. /\ Memory = Shown(Image, now) /\ Memory' = Shown(Image', now)
      /\ Dump = Shown(rdb, now) /\ Dump' = Shown(rdb', now)
      /\ Pending = Saving(child, now) \cup Orphaned(orphan, now)
      /\ Pending' = Saving(child', now) \cup Orphaned(orphan', now)
  BY <1>1, MappedFacts
<1>3. Forget => ~up' /\ up' = FALSE /\ Memory' = Contract!Empty /\ Saving(child', now) = {}
  <2>1. dict' = NoKeys => Shown(Image', now) = NoKeys
    BY ShownEmpty DEF Image
  <2>2. QED
    BY <1>2, <2>1 DEF Forget, Saving, NoKeys, Contract!Empty
<1>4. ASSUME Pending' \subseteq Pending
      PROVE  \E gone \in SUBSET Pending : Pending' = Pending \ gone
  <2>1. Pending \ Pending' \in SUBSET Pending /\ Pending' = Pending \ (Pending \ Pending')
    BY <1>4
  <2>2. QED
    BY <2>1
<1>5. CASE finishShutdown
  <2>1. up /\ orphan' = orphan
    BY <1>5 DEF finishShutdown
  <2>2. \/ up' = FALSE /\ Memory' = Contract!Empty /\ Dump' = Memory /\ Saving(child', now) = {}
        \/ /\ up' = up /\ Memory' = Memory /\ Dump' \in {Dump, Memory}
           /\ Saving(child', now) = {}
    <3>1. CASE Forget /\ rdb' = Image
      BY <1>2, <1>3, <3>1
    <3>2. CASE rdb' \in {rdb, Image} /\ child' = killRDBChild /\ UNCHANGED <<up, server>>
      <4>1. Memory' = Memory
        BY <1>2, <3>2 DEF Image, server
      <4>2. child' # None => child'.pc # "saving"
        <5>1. child \in Children \cup {None}
          BY DEF IInv, TypeOK
        <5>2. QED
          BY <3>2, <5>1 DEF killRDBChild, Children
      <4>3. QED
        BY <1>2, <3>2, <4>1, <4>2 DEF Saving
    <3>3. QED
      BY <1>5, <3>1, <3>2 DEF finishShutdown
  <2>3. Pending' \subseteq Pending
    BY <1>2, <2>1, <2>2
  <2>4. Contract!Shutdown
    BY <1>1, <1>4, <2>1, <2>2, <2>3 DEF Contract!Shutdown
  <2>5. QED
    BY <2>4 DEF Contract!Next
<1>6. CASE Crash
  <2>1. up /\ Forget /\ rdb' = rdb /\ (orphan' = orphan \/ (orphan = None /\ orphan' = Surviving))
    BY <1>6 DEF Crash
  <2>2. orphan = None /\ orphan' = Surviving => Orphaned(orphan', now) \subseteq Saving(child, now)
    BY DEF Orphaned, Saving, Surviving
  <2>3. Pending' \subseteq Pending
    BY <1>2, <1>3, <2>1, <2>2
  <2>4. Contract!Crash
    BY <1>1, <1>2, <1>3, <1>4, <2>1, <2>3 DEF Contract!Crash
  <2>5. QED
    BY <2>4 DEF Contract!Next
<1>7. CASE OrphanSaves \/ OrphanDies
  <2>1. /\ orphan # None /\ orphan' = None /\ UNCHANGED <<up, dict, expires, ver, child>>
        /\ rdb' \in {rdb, orphan}
    BY <1>7 DEF OrphanSaves, OrphanDies, server
  <2>2. Memory' = Memory
    BY <1>2, <2>1 DEF Image
  <2>3. /\ Pending = Saving(child, now) \cup {Shown(orphan, now)}
        /\ Pending' = Saving(child, now)
    BY <1>2, <2>1 DEF Orphaned
  <2>4. Pending' \in {Pending, Pending \ {Shown(orphan, now)}}
    BY <2>3 DEF Saving
  <2>5. CASE rdb' = orphan
    <3>1. Contract!SaveImage
      BY <1>1, <1>2, <2>1, <2>2, <2>3, <2>4, <2>5 DEF Contract!SaveImage
    <3>2. QED
      BY <3>1 DEF Contract!Next
  <2>6. CASE rdb' = rdb /\ Pending' = Pending
    BY <1>1, <1>2, <2>1, <2>2, <2>6 DEF Contract!vars
  <2>7. CASE rdb' = rdb /\ Pending' = Pending \ {Shown(orphan, now)}
    <3>1. Contract!DropImage
      BY <1>1, <1>2, <2>1, <2>2, <2>3, <2>7 DEF Contract!DropImage
    <3>2. QED
      BY <3>1 DEF Contract!Next
  <2>8. QED
    BY <2>1, <2>4, <2>5, <2>6, <2>7
<1>8. CASE rdbLoad
  <2>1. ~up /\ up' = TRUE /\ UNCHANGED <<child, rdb, orphan>>
    BY <1>8 DEF rdbLoad
  <2>2. Memory' = Dump /\ Dump' = Dump /\ Pending' = Pending
    BY <1>2, <1>8, <2>1, LoadFacts
  <2>3. Contract!Restart
    BY <1>1, <2>1, <2>2 DEF Contract!Restart
  <2>4. QED
    BY <2>3 DEF Contract!Next
<1>9. QED
  BY <1>5, <1>6, <1>7, <1>8

\* RedisStore implements StoreContract, whatever the keys, the lifetimes and the
\* number of changes and crashes.
THEOREM KeepsContract == Spec => ImplementsContract
<1>1. IInv /\ IInv' /\ [Next]_vars => [Contract!Next]_(Contract!vars)
  <2> SUFFICES ASSUME IInv, IInv', [Next]_vars
               PROVE  Contract!Next \/ UNCHANGED Contract!vars
    OBVIOUS
  <2>1. CASE UNCHANGED vars
    <3>1. UNCHANGED <<now, up, dict, expires, ver, child, rdb, orphan, reply>>
      BY <2>1 DEF vars, server
    <3>2. Memory' = Memory /\ Dump' = Dump /\ Pending' = Pending
      BY <3>1, MappedFacts DEF Image
    <3>3. QED
      BY <3>1, <3>2 DEF Contract!vars
  <2>2. CASE Next
    BY <2>2, ContractCommand, ContractTick, ContractSave, ContractStop DEF Next
  <2>3. QED
    BY <2>1, <2>2
<1>2. QED
  BY <1>1, ContractInit, InvariantHolds, PTL DEF Spec, ImplementsContract, Contract!Spec

=============================================================================
