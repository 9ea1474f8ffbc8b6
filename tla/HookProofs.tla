----------------------------- MODULE HookProofs -----------------------------
(***************************************************************************)
(* Rows and what the hooks of their models keep right.  First CacheFollows *)
(* and SearchFollows of ProductCatalog, for any products, handlers and     *)
(* readers; then AnswersJustified, EmailHeldOnce and LastPasswordWorks of  *)
(* Accounts, for any number of customers, requests, emails and passwords.  *)
(***************************************************************************)
EXTENDS ProductCatalog, Accounts, SequenceTheorems, TLAPS

On(h, p) == handler[h] # Idle /\ handler[h].p = p

\* What the handler read lasts: rows are never removed, and only a create and
\* an update carry an instance.
HandlerKnows(h) ==
    handler[h] # Idle =>
        /\ handler[h].op \in {"create", "update"} => handler[h].inst \in Columns
        /\ handler[h].op # "create" => Exists(handler[h].p)
        /\ handler[h].op = "update" => handler[h].set \subseteq {"details", "stock"}

\* The row still is what the lone update of it read.
BeforeWrite(h) ==
    LET p == handler[h].p IN
    handler[h].pc = "write" /\ handler[h].op = "update" =>
        /\ Live(p)
        /\ "details" \notin handler[h].set => handler[h].inst.details = row[p].details

\* The row still is what the lone write of it left.
AfterWrite(h) ==
    LET p == handler[h].p IN
    handler[h].pc \in {"clear", "index"} =>
        /\ handler[h].op \in {"create", "update"} =>
              Live(p) /\ row[p].details = handler[h].inst.details
        /\ handler[h].op = "delete" => ~Live(p)

\* A handler that is marked alone is the only one at its product.
LoneOK(h) ==
    handler[h] # Idle /\ handler[h].alone =>
        /\ \A g \in Handlers : On(g, handler[h].p) => g = h
        /\ BeforeWrite(h)
        /\ AfterWrite(h)

\* The document agrees with the row, as SearchFollows asks.
Agrees(p) ==
    /\ doc[p] # None => Live(p) /\ doc[p].details = row[p].details
    /\ doc[p] = None /\ Live(p) => p \in unlisted

\* SearchFollows as long as no write of the product has reached its row.
AgreesTillWritten ==
    \A p \in Products \ astray :
        Exists(p) /\ (\A h \in Handlers : On(h, p) => handler[h].pc = "write") => Agrees(p)

HandlersOK == \A h \in Handlers : HandlerKnows(h) /\ LoneOK(h)

IInv == TypeOK /\ HandlersOK /\ CacheFollows /\ AgreesTillWritten

-----------------------------------------------------------------------------
\* The fields of a handler at work.
LEMMA WorkFacts ==
    ASSUME TypeOK
    PROVE  /\ \A h \in Handlers : handler[h] # Idle =>
                  /\ handler[h] \in Writing
                  /\ handler[h].p \in Products
                  /\ handler[h].pc \in {"write", "clear", "index"}
           /\ \A h \in Handlers : handler[h].pc \in {"write", "clear", "index"} => handler[h] # Idle
           /\ Idle.pc = "idle" /\ Idle \notin Writing
BY DEF TypeOK, Idle, Writing

\* Goto moves a handler and keeps what it carries.
LEMMA GotoFacts ==
    ASSUME TypeOK, NEW h \in Handlers, handler[h] # Idle,
           NEW pc \in {"write", "clear", "index"}, Goto(h, pc)
    PROVE  /\ handler' \in [Handlers -> {Idle} \cup Writing]
           /\ handler'[h] # Idle /\ handler'[h].pc = pc
           /\ handler'[h].p = handler[h].p /\ handler'[h].op = handler[h].op
           /\ handler'[h].inst = handler[h].inst /\ handler'[h].set = handler[h].set
           /\ handler'[h].alone = handler[h].alone
           /\ \A g \in Handlers : g # h => handler'[g] = handler[g]
<1>1. handler \in [Handlers -> {Idle} \cup Writing] /\ handler[h] \in Writing
  BY WorkFacts DEF TypeOK
<1>2. [handler[h] EXCEPT !.pc = pc] \in Writing
  BY <1>1 DEF Writing
<1>3. handler' = [handler EXCEPT ![h] = [handler[h] EXCEPT !.pc = pc]]
  BY DEF Goto
<1>4. handler'[h] = [handler[h] EXCEPT !.pc = pc]
  BY <1>1, <1>3
<1>5. /\ handler'[h].pc = pc
      /\ handler'[h].p = handler[h].p /\ handler'[h].op = handler[h].op
      /\ handler'[h].inst = handler[h].inst /\ handler'[h].set = handler[h].set
      /\ handler'[h].alone = handler[h].alone
  BY <1>1, <1>4 DEF Writing
<1>6. QED
  BY <1>1, <1>2, <1>3, <1>4, <1>5, WorkFacts

\* What a handler writes is a row, and what of it the document shows.
LEMMA WrittenFacts ==
    ASSUME TypeOK, NEW h \in Handlers, handler[h] # Idle, HandlerKnows(h)
    PROVE  /\ Written(h) \in Rows
           /\ handler[h].op = "create" =>
                 ~Written(h).gone /\ Written(h).details = handler[h].inst.details
           /\ handler[h].op = "update" =>
                 /\ Written(h).details = IF "details" \in handler[h].set
                                         THEN handler[h].inst.details
                                         ELSE row[handler[h].p].details
                 /\ Written(h).gone = row[handler[h].p].gone
           /\ handler[h].op = "delete" => Written(h).gone
<1>1. handler[h] \in Writing
  BY WorkFacts
<1>2. handler[h].op # "create" => row[handler[h].p] \in Rows
  BY <1>1 DEF HandlerKnows, Exists, TypeOK, Writing
<1>3. CASE handler[h].op = "create"
  BY <1>1, <1>3 DEF Written, HandlerKnows, Rows, Columns
<1>4. CASE handler[h].op = "update"
  <2> DEFINE old == row[handler[h].p]
             inst == handler[h].inst
             set == handler[h].set
  <2>1. Written(h) = [c \in DOMAIN old |-> IF c \in set THEN inst[c] ELSE old[c]]
    BY <1>4 DEF Written
  <2>2. inst \in Columns /\ old \in Rows /\ set \subseteq {"details", "stock"}
    BY <1>2, <1>4 DEF HandlerKnows
  <2>3. Written(h) = [details |-> IF "details" \in set THEN inst.details ELSE old.details,
                      stock |-> IF "stock" \in set THEN inst.stock ELSE old.stock,
                      gone |-> old.gone]
    BY <2>1, <2>2 DEF Columns, Rows
  <2>4. QED
    BY <1>4, <2>2, <2>3 DEF Columns, Rows
<1>5. CASE handler[h].op = "delete"
  BY <1>1, <1>2, <1>5 DEF Written, Rows
<1>6. CASE handler[h].op = "restore"
  BY <1>1, <1>2, <1>6 DEF Written, Rows
<1>7. QED
  BY <1>1, <1>3, <1>4, <1>5, <1>6 DEF Writing

\* A request that begins: its own fields, and the handlers it overlaps.
LEMMA BeginFacts ==
    ASSUME TypeOK, NEW h \in Handlers, NEW p \in Products,
           NEW op \in {"create", "update", "delete", "restore"},
           NEW inst \in Columns \cup {None}, NEW set \in SUBSET {"details", "stock", "gone"},
           Begin(h, p, op, inst, set)
    PROVE  /\ handler' \in [Handlers -> {Idle} \cup Writing]
           /\ handler[h] = Idle
           /\ handler'[h] = [pc |-> "write", p |-> p, op |-> op, inst |-> inst, set |-> set,
                             alone |-> ~Busy(p)]
           /\ handler'[h] # Idle
           /\ \A g \in Handlers : g # h =>
                 IF On(g, p)
                 THEN /\ handler'[g] # Idle /\ handler'[g].pc = handler[g].pc
                      /\ handler'[g].p = p /\ handler'[g].op = handler[g].op
                      /\ handler'[g].inst = handler[g].inst /\ handler'[g].set = handler[g].set
                      /\ ~handler'[g].alone
                 ELSE handler'[g] = handler[g]
<1> DEFINE new == [pc |-> "write", p |-> p, op |-> op, inst |-> inst, set |-> set,
                   alone |-> ~Busy(p)]
<1>1. new \in Writing
  BY DEF Writing, Busy
<1>2. ASSUME NEW g \in Handlers, On(g, p)
      PROVE  /\ [handler[g] EXCEPT !.alone = FALSE] \in Writing
             /\ [handler[g] EXCEPT !.alone = FALSE].pc = handler[g].pc
             /\ [handler[g] EXCEPT !.alone = FALSE].p = p
             /\ [handler[g] EXCEPT !.alone = FALSE].op = handler[g].op
             /\ [handler[g] EXCEPT !.alone = FALSE].inst = handler[g].inst
             /\ [handler[g] EXCEPT !.alone = FALSE].set = handler[g].set
             /\ ~[handler[g] EXCEPT !.alone = FALSE].alone
  <2>1. handler[g] \in Writing /\ handler[g].p = p
    BY <1>2, WorkFacts DEF On
  <2>2. QED
    BY <2>1 DEF Writing
<1>3. handler \in [Handlers -> {Idle} \cup Writing]
  BY DEF TypeOK
<1>4. /\ handler[h] = Idle
      /\ handler' = [g \in Handlers |-> IF g = h THEN new
                        ELSE IF On(g, p) THEN [handler[g] EXCEPT !.alone = FALSE]
                        ELSE handler[g]]
  BY DEF Begin, On
<1> HIDE DEF new
<1>5. handler' \in [Handlers -> {Idle} \cup Writing]
  BY <1>1, <1>2, <1>3, <1>4
<1>6. handler'[h] = new /\ new # Idle
  BY <1>1, <1>4, WorkFacts
<1>7. ASSUME NEW g \in Handlers, g # h, On(g, p)
      PROVE  /\ handler'[g] # Idle /\ handler'[g].pc = handler[g].pc
             /\ handler'[g].p = p /\ handler'[g].op = handler[g].op
             /\ handler'[g].inst = handler[g].inst /\ handler'[g].set = handler[g].set
             /\ ~handler'[g].alone
  <2>1. handler'[g] = [handler[g] EXCEPT !.alone = FALSE]
    BY <1>4, <1>7
  <2>2. QED
    BY <1>2, <1>7, <2>1, WorkFacts
<1>8. ASSUME NEW g \in Handlers, g # h, ~On(g, p)
      PROVE  handler'[g] = handler[g]
  BY <1>4, <1>8
<1>9. QED
  BY <1>4, <1>5, <1>6, <1>7, <1>8 DEF new

\* Each request is a Begin with the fields of its operation.
LEMMA RequestFacts ==
    ASSUME TypeOK, NEW h \in Handlers, NEW p \in Products, Request(h, p)
    PROVE  \E op \in {"create", "update", "delete", "restore"},
              inst \in Columns \cup {None}, set \in SUBSET {"details", "stock", "gone"} :
              /\ Begin(h, p, op, inst, set)
              /\ op \in {"create", "update"} => inst \in Columns
              /\ op # "create" => Exists(p)
              /\ op = "update" => /\ Live(p) /\ set \subseteq {"details", "stock"}
                                  /\ "details" \notin set => inst.details = row[p].details
<1>1. ASSUME NEW d \in Details, NEW s \in Given(p)
      PROVE  [details |-> d, stock |-> s] \in Columns
  <2>1. Exists(p) => row[p].stock \in Int
    BY DEF Exists, TypeOK, Rows
  <2>2. s \in Stocks \/ (Exists(p) /\ s = row[p].stock)
    BY <1>1 DEF Given
  <2>3. s \in Int
    <3>1. s \in Stocks => s \in Nat
      BY StockAssumption
    <3>2. s \in Nat => s \in Int
      OBVIOUS
    <3>3. QED
      BY <2>1, <2>2, <3>1, <3>2
  <2>4. QED
    BY <2>3 DEF Columns
<1>2. ASSUME NEW inst \in Columns, createProduct(h, p, inst)
      PROVE  Begin(h, p, "create", inst, {})
  BY <1>2 DEF createProduct
<1>3. ASSUME NEW inst \in Columns, updateProduct(h, p, inst)
      PROVE  \E set \in SUBSET {"details", "stock"} :
                /\ Begin(h, p, "update", inst, set) /\ Live(p)
                /\ "details" \notin set => inst.details = row[p].details
  <2> DEFINE set == {c \in {"details", "stock"} : inst[c] # row[p][c]}
  <2>1. Begin(h, p, "update", inst, set) /\ Live(p)
    BY <1>3 DEF updateProduct
  <2>2. "details" \notin set => inst.details = row[p].details
    OBVIOUS
  <2>3. set \in SUBSET {"details", "stock"}
    OBVIOUS
  <2>4. QED
    BY <2>1, <2>2, <2>3
<1>4. ASSUME softDeleteProduct(h, p)
      PROVE  Begin(h, p, "delete", None, {}) /\ Exists(p)
  BY <1>4 DEF softDeleteProduct, Live
<1>5. ASSUME restoreProduct(h, p)
      PROVE  Exists(p) /\ \E set \in SUBSET {"details", "stock", "gone"} :
                              Begin(h, p, "restore", None, set)
  <2>1. (IF row[p].gone THEN {"gone"} ELSE {}) \in SUBSET {"details", "stock", "gone"}
    OBVIOUS
  <2>2. QED
    BY <1>5, <2>1 DEF restoreProduct
<1>6. CASE \E d \in Details, s \in Given(p) : createProduct(h, p, [details |-> d, stock |-> s])
  <2>1. PICK inst \in Columns : createProduct(h, p, inst)
    BY <1>1, <1>6
  <2>2. Begin(h, p, "create", inst, {})
    BY <1>2, <2>1
  <2>3. QED
    BY <2>2
<1>7. CASE \E d \in Details, s \in Given(p) : updateProduct(h, p, [details |-> d, stock |-> s])
  <2>1. PICK inst \in Columns : updateProduct(h, p, inst)
    BY <1>1, <1>7
  <2>2. PICK set \in SUBSET {"details", "stock"} :
            /\ Begin(h, p, "update", inst, set) /\ Live(p)
            /\ "details" \notin set => inst.details = row[p].details
    BY <1>3, <2>1
  <2>3. Exists(p)
    BY <2>2 DEF Live
  <2>4. QED
    BY <2>2, <2>3
<1>8. CASE softDeleteProduct(h, p)
  BY <1>4, <1>8
<1>9. CASE restoreProduct(h, p)
  BY <1>5, <1>9
<1>10. QED
  BY <1>6, <1>7, <1>8, <1>9 DEF Request

-----------------------------------------------------------------------------
OtherInv == HandlersOK /\ CacheFollows /\ AgreesTillWritten

\* A request that begins has written nothing yet, and whoever it overlaps stops
\* being alone.
LEMMA BeginStep ==
    ASSUME TypeOK, OtherInv, NEW h \in Handlers, NEW p \in Products, Request(h, p)
    PROVE  TypeOK' /\ OtherInv'
<1>1. PICK op \in {"create", "update", "delete", "restore"},
           inst \in Columns \cup {None}, set \in SUBSET {"details", "stock", "gone"} :
           /\ Begin(h, p, op, inst, set)
           /\ op \in {"create", "update"} => inst \in Columns
           /\ op # "create" => Exists(p)
           /\ op = "update" => /\ Live(p) /\ set \subseteq {"details", "stock"}
                               /\ "details" \notin set => inst.details = row[p].details
  BY RequestFacts
<1>2. UNCHANGED <<row, cache, doc, reader, sync, left, astray, unlisted>>
  BY <1>1 DEF Begin
<1>3. /\ handler' \in [Handlers -> {Idle} \cup Writing]
      /\ handler[h] = Idle
      /\ handler'[h] = [pc |-> "write", p |-> p, op |-> op, inst |-> inst, set |-> set,
                        alone |-> ~Busy(p)]
      /\ handler'[h] # Idle
      /\ \A g \in Handlers : g # h =>
            IF On(g, p)
            THEN /\ handler'[g] # Idle /\ handler'[g].pc = handler[g].pc
                 /\ handler'[g].p = p /\ handler'[g].op = handler[g].op
                 /\ handler'[g].inst = handler[g].inst /\ handler'[g].set = handler[g].set
                 /\ ~handler'[g].alone
            ELSE handler'[g] = handler[g]
  BY <1>1, BeginFacts
<1>4. TypeOK'
  BY <1>2, <1>3 DEF TypeOK
<1>5. /\ handler'[h].pc = "write" /\ handler'[h].p = p /\ handler'[h].op = op
      /\ handler'[h].inst = inst /\ handler'[h].set = set /\ handler'[h].alone = ~Busy(p)
  BY <1>3
<1>6. \A q \in Products : /\ Exists(q)' <=> Exists(q)
                          /\ Live(q)' <=> Live(q)
                          /\ Agrees(q)' <=> Agrees(q)
  BY <1>2 DEF Exists, Live, Agrees
<1>7. ASSUME NEW g \in Handlers
      PROVE  HandlerKnows(g)' /\ LoneOK(g)'
  <2>1. CASE g = h
    <3>1. HandlerKnows(h)'
      BY <1>1, <1>2, <1>5 DEF HandlerKnows, Exists
    <3>2. ASSUME handler'[h].alone
          PROVE  /\ \A f \in Handlers : On(f, handler[h].p)' => f = h
                 /\ BeforeWrite(h)' /\ AfterWrite(h)'
      <4>1. \A f \in Handlers : ~On(f, p)
        BY <1>5, <3>2 DEF Busy, On
      <4>2. \A f \in Handlers : On(f, handler[h].p)' => f = h
        BY <1>3, <1>5, <4>1 DEF On
      <4>3. BeforeWrite(h)'
        BY <1>1, <1>2, <1>5 DEF BeforeWrite, Live, Exists
      <4>4. AfterWrite(h)'
        BY <1>5 DEF AfterWrite
      <4>5. QED
        BY <4>2, <4>3, <4>4
    <3>3. QED
      BY <2>1, <3>1, <3>2 DEF LoneOK
  <2>2. CASE g # h /\ On(g, p)
    <3>1. LoneOK(g)'
      BY <1>3, <2>2 DEF LoneOK
    <3>2. HandlerKnows(g)'
      BY <1>2, <1>3, <2>2 DEF OtherInv, HandlersOK, HandlerKnows, Exists, On
    <3>3. QED
      BY <3>1, <3>2
  <2>3. CASE g # h /\ ~On(g, p)
    <3>1. handler'[g] = handler[g]
      BY <1>3, <2>3
    <3>2. HandlerKnows(g)' /\ BeforeWrite(g)' = BeforeWrite(g) /\ AfterWrite(g)' = AfterWrite(g)
      BY <1>2, <3>1
      DEF OtherInv, HandlersOK, HandlerKnows, BeforeWrite, AfterWrite, Live, Exists
    <3>3. ASSUME handler[g] # Idle, handler[g].alone, NEW f \in Handlers, On(f, handler[g].p)'
          PROVE  f = g
      BY <1>3, <1>5, <2>3, <3>1, <3>3 DEF OtherInv, HandlersOK, LoneOK, On
    <3>4. QED
      BY <3>1, <3>2, <3>3 DEF OtherInv, HandlersOK, LoneOK
  <2>4. QED
    BY <2>1, <2>2, <2>3
<1>8. CacheFollows'
  <2>1. \A g \in Handlers : handler[g].pc = "clear" =>
            handler'[g].pc = "clear" /\ handler'[g].p = handler[g].p
    BY <1>3, WorkFacts DEF On
  <2>2. QED
    BY <1>2, <2>1 DEF OtherInv, CacheFollows, SameBut
<1>9. AgreesTillWritten'
  <2>1. \A q \in Products, g \in Handlers : On(g, q) => On(g, q)' /\ handler'[g].pc = handler[g].pc
    BY <1>3 DEF On
  <2>2. QED
    BY <1>2, <1>6, <2>1 DEF OtherInv, AgreesTillWritten
<1>10. QED
  BY <1>4, <1>7, <1>8, <1>9 DEF OtherInv, HandlersOK

\* The row changes: the key is about to be deleted, and the document is the
\* business of this handler from now on.
LEMMA WriteRowStep ==
    ASSUME TypeOK, OtherInv, NEW h \in Handlers, WriteRow(h)
    PROVE  TypeOK' /\ OtherInv'
<1> DEFINE p == handler[h].p
<1>1. /\ handler[h] # Idle /\ handler[h].pc = "write" /\ p \in Products /\ Goto(h, "clear")
      /\ row' = [row EXCEPT ![p] = Written(h)]
      /\ UNCHANGED <<cache, doc, reader, sync, left, astray, unlisted>>
  BY WorkFacts DEF WriteRow
<1>2. /\ handler' \in [Handlers -> {Idle} \cup Writing]
      /\ handler'[h] # Idle /\ handler'[h].pc = "clear"
      /\ handler'[h].p = p /\ handler'[h].op = handler[h].op
      /\ handler'[h].inst = handler[h].inst /\ handler'[h].set = handler[h].set
      /\ handler'[h].alone = handler[h].alone
      /\ \A g \in Handlers : g # h => handler'[g] = handler[g]
  BY <1>1, GotoFacts
<1>3. HandlerKnows(h) /\ LoneOK(h)
  BY DEF OtherInv, HandlersOK
<1>4. /\ Written(h) \in Rows /\ row'[p] = Written(h)
      /\ \A q \in Products : q # p => row'[q] = row[q]
  BY <1>1, <1>3, WrittenFacts DEF TypeOK
<1>5. Written(h) # None
  BY <1>4, NoneAssumption
<1>6. TypeOK'
  BY <1>1, <1>2, <1>4 DEF TypeOK
<1>7. \A g \in Handlers, q \in Products : On(g, q)' <=> On(g, q)
  BY <1>1, <1>2 DEF On
<1>8. row'[p] # None /\ \A q \in Products : Exists(q) => Exists(q)'
  BY <1>4, <1>5 DEF Exists
<1>9. ASSUME NEW g \in Handlers
      PROVE  HandlerKnows(g)'
  <2>1. handler[g] # Idle => handler[g].p \in Products
    BY WorkFacts
  <2>2. CASE g = h
    BY <1>1, <1>2, <1>3, <1>8, <2>2 DEF HandlerKnows, Exists
  <2>3. CASE g # h
    BY <1>2, <1>8, <2>1, <2>3 DEF HandlerKnows, OtherInv, HandlersOK
  <2>4. QED
    BY <2>2, <2>3
<1>10. LoneOK(h)'
  <2>1. SUFFICES ASSUME handler[h].alone
                 PROVE  /\ \A g \in Handlers : On(g, handler[h].p)' => g = h
                        /\ BeforeWrite(h)' /\ AfterWrite(h)'
    BY <1>2 DEF LoneOK
  <2>2. \A g \in Handlers : On(g, handler[h].p)' => g = h
    BY <1>1, <1>2, <1>3, <1>7, <2>1 DEF LoneOK, On
  <2>3. BeforeWrite(h)'
    BY <1>2 DEF BeforeWrite
  <2>4. handler[h].op = "update" => /\ Live(p)
                                    /\ "details" \notin handler[h].set =>
                                          handler[h].inst.details = row[p].details
    BY <1>1, <1>3, <2>1 DEF LoneOK, BeforeWrite
  <2>5. /\ handler[h].op \in {"create", "update"} =>
              ~Written(h).gone /\ Written(h).details = handler[h].inst.details
        /\ handler[h].op = "delete" => Written(h).gone
    BY <1>1, <1>3, <2>4, WrittenFacts DEF Live
  <2>6. AfterWrite(h)'
    BY <1>2, <1>4, <1>5, <2>5 DEF AfterWrite, Live, Exists
  <2>7. QED
    BY <2>2, <2>3, <2>6
<1>11. ASSUME NEW g \in Handlers, g # h
       PROVE  LoneOK(g)'
  <2>1. SUFFICES ASSUME handler[g] # Idle, handler[g].alone
                 PROVE  /\ \A f \in Handlers : On(f, handler[g].p)' => f = g
                        /\ BeforeWrite(g)' /\ AfterWrite(g)'
    BY <1>2, <1>11 DEF LoneOK
  <2>2. LoneOK(g) /\ handler'[g] = handler[g] /\ handler[g].p \in Products
    BY <1>2, <1>11, <2>1, WorkFacts DEF OtherInv, HandlersOK
  <2>3. handler[g].p # p
    BY <1>1, <1>11, <2>1, <2>2 DEF LoneOK, On
  <2>4. row'[handler[g].p] = row[handler[g].p]
    BY <1>4, <2>2, <2>3
  <2>5. QED
    BY <1>7, <2>1, <2>2, <2>4 DEF LoneOK, BeforeWrite, AfterWrite, Live, Exists
<1>12. CacheFollows'
  <2>1. ASSUME NEW q \in Products \ left, cache[q] # None, q # p
        PROVE  \/ SameBut(cache[q], row'[q])
               \/ \E g \in Handlers : handler'[g].pc = "clear" /\ handler'[g].p = q
    BY <1>1, <1>2, <1>4, <2>1 DEF OtherInv, CacheFollows
  <2>2. QED
    BY <1>1, <1>2, <2>1 DEF CacheFollows, SameBut
<1>13. AgreesTillWritten'
  <2>1. ~(\A g \in Handlers : On(g, handler[h].p)' => handler'[g].pc = "write")
    BY <1>2 DEF On
  <2>2. ASSUME NEW q \in Products \ astray, q # p, Exists(q)',
               \A g \in Handlers : On(g, q)' => handler'[g].pc = "write"
        PROVE  Agrees(q)'
    <3>1. Exists(q) /\ \A g \in Handlers : On(g, q) => handler[g].pc = "write"
      BY <1>1, <1>2, <1>4, <1>7, <2>2 DEF Exists, On
    <3>2. Agrees(q)
      BY <2>2, <3>1 DEF OtherInv, AgreesTillWritten
    <3>3. QED
      BY <1>1, <1>4, <2>2, <3>2 DEF Agrees, Live, Exists
  <2>3. QED
    BY <1>1, <1>2, <2>1, <2>2 DEF AgreesTillWritten
<1>14. QED
  BY <1>6, <1>9, <1>10, <1>11, <1>12, <1>13 DEF OtherInv, HandlersOK

\* A handler that has answered leaves what the others know as it is.
LEMMA LeaveFacts ==
    ASSUME TypeOK, HandlersOK, NEW h \in Handlers, handler[h] # Idle,
           handler' = [handler EXCEPT ![h] = Idle], UNCHANGED row
    PROVE  /\ HandlersOK'
           /\ handler' \in [Handlers -> {Idle} \cup Writing]
           /\ handler'[h] = Idle /\ \A g \in Handlers : g # h => handler'[g] = handler[g]
           /\ \A g \in Handlers, q \in Products : On(g, q)' <=> On(g, q) /\ g # h
<1>1. /\ handler' \in [Handlers -> {Idle} \cup Writing]
      /\ handler'[h] = Idle /\ \A g \in Handlers : g # h => handler'[g] = handler[g]
  BY DEF TypeOK
<1>2. \A g \in Handlers, q \in Products : On(g, q)' <=> On(g, q) /\ g # h
  BY <1>1 DEF On
<1>3. ASSUME NEW g \in Handlers
      PROVE  HandlerKnows(g)' /\ LoneOK(g)'
  <2>1. CASE g = h
    BY <1>1, <2>1 DEF HandlerKnows, LoneOK
  <2>2. CASE handler[g] = Idle /\ g # h
    BY <1>1, <2>2 DEF HandlerKnows, LoneOK
  <2>3. CASE handler[g] # Idle /\ g # h
    <3>1. handler'[g] = handler[g] /\ handler[g].p \in Products /\ HandlerKnows(g) /\ LoneOK(g)
      BY <1>1, <2>3, WorkFacts DEF HandlersOK
    <3>2. QED
      BY <1>2, <2>3, <3>1
      DEF HandlerKnows, LoneOK, BeforeWrite, AfterWrite, Live, Exists
  <2>4. QED
    BY <2>1, <2>2, <2>3
<1>4. QED
  BY <1>1, <1>2, <1>3 DEF HandlersOK

\* The DEL of the hook takes the key away, or counts it as left.
LEMMA ClearCacheStep ==
    ASSUME TypeOK, OtherInv, NEW h \in Handlers, ClearCache(h)
    PROVE  TypeOK' /\ OtherInv'
<1> DEFINE p == handler[h].p
<1>1. /\ handler[h] # Idle /\ handler[h].pc = "clear" /\ p \in Products /\ Goto(h, "index")
      /\ UNCHANGED <<row, doc, reader, sync, astray, unlisted>>
  BY WorkFacts DEF ClearCache
<1>2. /\ handler' \in [Handlers -> {Idle} \cup Writing]
      /\ handler'[h] # Idle /\ handler'[h].pc = "index"
      /\ handler'[h].p = p /\ handler'[h].op = handler[h].op
      /\ handler'[h].inst = handler[h].inst /\ handler'[h].set = handler[h].set
      /\ handler'[h].alone = handler[h].alone
      /\ \A g \in Handlers : g # h => handler'[g] = handler[g]
  BY <1>1, GotoFacts
<1>3. /\ cache' \in [Products -> Rows \cup {None}] /\ left' \subseteq Products
      /\ cache'[p] = None \/ p \in left'
      /\ \A q \in Products : q # p => cache'[q] = cache[q] /\ (q \in left' <=> q \in left)
  BY <1>1 DEF ClearCache, TypeOK
<1>4. TypeOK'
  BY <1>1, <1>2, <1>3 DEF TypeOK
<1>5. \A g \in Handlers, q \in Products : On(g, q)' <=> On(g, q)
  BY <1>1, <1>2 DEF On
<1>6. ASSUME NEW g \in Handlers
      PROVE  HandlerKnows(g)' /\ LoneOK(g)'
  <2>1. HandlerKnows(g) /\ LoneOK(g) /\ (handler[g] # Idle => handler[g].p \in Products)
    BY WorkFacts DEF OtherInv, HandlersOK
  <2>2. CASE g = h
    BY <1>1, <1>2, <1>5, <2>1, <2>2
    DEF HandlerKnows, LoneOK, BeforeWrite, AfterWrite, Live, Exists
  <2>3. CASE g # h
    BY <1>1, <1>2, <1>5, <2>1, <2>3
    DEF HandlerKnows, LoneOK, BeforeWrite, AfterWrite, Live, Exists
  <2>4. QED
    BY <2>2, <2>3
<1>7. CacheFollows'
  <2> SUFFICES ASSUME NEW q \in Products, q \notin left', cache'[q] # None
      PROVE  \/ SameBut(cache'[q], row'[q])
             \/ \E g \in Handlers : handler'[g].pc = "clear" /\ handler'[g].p = q
    BY DEF CacheFollows, SameBut
  <2>1. q # p /\ q \notin left /\ cache'[q] = cache[q] /\ row'[q] = row[q]
    BY <1>1, <1>3
  <2>2. SameBut(cache[q], row[q]) \/ \E g \in Handlers : handler[g].pc = "clear" /\ handler[g].p = q
    BY Zenon, <2>1 DEF OtherInv, CacheFollows
  <2>3. \A g \in Handlers : handler[g].p = q => handler'[g] = handler[g]
    BY Zenon, <1>2, <2>1
  <2>4. QED
    BY Zenon, <2>1, <2>2, <2>3
<1>8. AgreesTillWritten'
  <2>1. \A q \in Products : (\A g \in Handlers : On(g, q)' => handler'[g].pc = "write") =>
                                \A g \in Handlers : On(g, q) => handler[g].pc = "write"
    BY <1>2, <1>5
  <2>2. QED
    BY <1>1, <2>1 DEF OtherInv, AgreesTillWritten, Agrees, Live, Exists
<1>9. QED
  BY <1>4, <1>6, <1>7, <1>8 DEF OtherInv, HandlersOK

\* The last step of the hook: alone, it leaves a document that agrees with the
\* row; otherwise the document counts as astray.
LEMMA IndexStep ==
    ASSUME TypeOK, OtherInv, NEW h \in Handlers, Index(h)
    PROVE  TypeOK' /\ OtherInv'
<1> DEFINE p == handler[h].p
<1> DEFINE indexed == handler[h].op \in {"create", "update"}
<1>1. /\ handler[h] # Idle /\ handler[h].pc = "index" /\ p \in Products
      /\ handler' = [handler EXCEPT ![h] = Idle]
      /\ UNCHANGED <<row, cache, reader, sync, left>>
  BY WorkFacts DEF Index
<1>2. HandlersOK /\ HandlerKnows(h) /\ LoneOK(h)
  BY DEF OtherInv, HandlersOK
<1>3. /\ HandlersOK'
      /\ handler' \in [Handlers -> {Idle} \cup Writing]
      /\ handler'[h] = Idle /\ \A g \in Handlers : g # h => handler'[g] = handler[g]
      /\ \A g \in Handlers, q \in Products : On(g, q)' <=> On(g, q) /\ g # h
  BY <1>1, <1>2, LeaveFacts
<1>4. /\ doc' = [doc EXCEPT ![p] = IF indexed THEN handler[h].inst ELSE None]
      /\ unlisted' = IF handler[h].op = "restore" THEN unlisted \cup {p}
                     ELSE IF indexed THEN unlisted \ {p} ELSE unlisted
      /\ astray' = IF handler[h].alone THEN astray \ {p} ELSE astray \cup {p}
  BY DEF Index
<1>5. indexed => handler[h].inst \in Columns
  BY <1>1, <1>2 DEF HandlerKnows
<1>6. TypeOK'
  BY <1>1, <1>3, <1>4, <1>5 DEF TypeOK
<1>7. CacheFollows'
  <2>1. \A g \in Handlers : handler[g].pc = "clear" => handler'[g] = handler[g]
    BY <1>1, <1>3
  <2>2. QED
    BY <1>1, <2>1 DEF OtherInv, CacheFollows, SameBut
<1>8. ASSUME NEW q \in Products \ astray', q # p, Exists(q)',
             \A g \in Handlers : On(g, q)' => handler'[g].pc = "write"
      PROVE  Agrees(q)'
  <2>1. q \notin astray /\ doc'[q] = doc[q] /\ (q \in unlisted' <=> q \in unlisted)
    BY <1>1, <1>4, <1>8 DEF TypeOK
  <2>2. \A g \in Handlers : On(g, q) => handler[g].pc = "write"
    BY <1>3, <1>8 DEF On
  <2>3. QED
    BY <1>1, <1>8, <2>1, <2>2 DEF OtherInv, AgreesTillWritten, Agrees, Live, Exists
<1>9. ASSUME p \notin astray', row[p] # None
      PROVE  /\ doc'[p] # None => row[p] # None /\ ~row[p].gone /\ doc'[p].details = row[p].details
             /\ doc'[p] = None /\ row[p] # None /\ ~row[p].gone => p \in unlisted'
  <2>1. handler[h].alone
    BY <1>4, <1>9
  <2>2. AfterWrite(h)
    BY <1>1, <1>2, <2>1 DEF LoneOK
  <2>3. handler[h].op \in {"create", "update", "delete", "restore"}
    BY <1>1, WorkFacts DEF Writing
  <2>4. doc'[p] = IF indexed THEN handler[h].inst ELSE None
    BY <1>1, <1>4 DEF TypeOK
  <2>5. indexed => doc'[p] # None /\ Live(p) /\ row[p].details = handler[h].inst.details
    BY <1>1, <1>5, <2>2, <2>4, NoneAssumption DEF AfterWrite
  <2>6. QED
    BY <1>1, <1>4, <2>2, <2>3, <2>4, <2>5 DEF AfterWrite, Live, Exists
<1>10. AgreesTillWritten'
  BY <1>1, <1>8, <1>9 DEF AgreesTillWritten, Agrees, Live, Exists
<1>11. QED
  BY <1>3, <1>6, <1>7, <1>10 DEF OtherInv

\* A handler that fails: before its write nothing happened, after it the key
\* and the document count as left behind.
LEMMA FailWriteStep ==
    ASSUME TypeOK, OtherInv, NEW h \in Handlers, FailWrite(h)
    PROVE  TypeOK' /\ OtherInv'
<1> DEFINE p == handler[h].p
<1>1. /\ handler[h] # Idle /\ handler[h].pc \in {"write", "clear", "index"} /\ p \in Products
      /\ handler' = [handler EXCEPT ![h] = Idle]
      /\ UNCHANGED <<row, cache, doc, reader, sync, unlisted>>
      /\ left' = IF handler[h].pc = "clear" THEN left \cup {p} ELSE left
      /\ astray' = IF handler[h].pc = "write" THEN astray ELSE astray \cup {p}
  BY WorkFacts DEF FailWrite
<1>2. HandlersOK
  BY DEF OtherInv
<1>3. /\ HandlersOK'
      /\ handler' \in [Handlers -> {Idle} \cup Writing]
      /\ handler'[h] = Idle /\ \A g \in Handlers : g # h => handler'[g] = handler[g]
      /\ \A g \in Handlers, q \in Products : On(g, q)' <=> On(g, q) /\ g # h
  BY <1>1, <1>2, LeaveFacts
<1>4. TypeOK'
  BY <1>1, <1>3 DEF TypeOK
<1>5. CacheFollows'
  BY <1>1, <1>3 DEF OtherInv, CacheFollows, SameBut
<1>6. ASSUME NEW q \in Products \ astray', Exists(q)',
             \A g \in Handlers : On(g, q)' => handler'[g].pc = "write"
      PROVE  Agrees(q)'
  <2>1. q \notin astray /\ Exists(q)
    BY <1>1, <1>6 DEF Exists
  <2>2. \A g \in Handlers : On(g, q) => handler[g].pc = "write"
    BY <1>1, <1>3, <1>6 DEF On
  <2>3. QED
    BY <1>1, <2>1, <2>2 DEF OtherInv, AgreesTillWritten, Agrees, Live, Exists
<1>7. QED
  BY <1>3, <1>4, <1>5, <1>6 DEF OtherInv, AgreesTillWritten

\* Orders move the stock and nothing else of a row.
LEMMA MoveStockStep ==
    ASSUME TypeOK, OtherInv, NEW p \in Products, NEW n \in {-1, 1}, MoveStock(p, n)
    PROVE  TypeOK' /\ OtherInv'
<1>1. row[p] \in Rows
  BY DEF MoveStock, Exists, TypeOK
<1>2. [row[p] EXCEPT !.stock = @ + n] \in Rows
  BY <1>1 DEF Rows
<1>3. /\ row' = [row EXCEPT ![p] = [row[p] EXCEPT !.stock = @ + n]]
      /\ UNCHANGED <<cache, doc, handler, reader, sync, left, astray, unlisted>>
  BY DEF MoveStock
<1>4. TypeOK'
  BY <1>2, <1>3 DEF TypeOK
<1>5. row'[p] # None /\ row'[p].details = row[p].details /\ row'[p].gone = row[p].gone
  <2>1. row'[p] = [row[p] EXCEPT !.stock = @ + n]
    BY <1>3 DEF TypeOK
  <2>2. QED
    BY <1>1, <1>2, <2>1, NoneAssumption DEF Rows
<1>6. \A q \in Products : /\ Exists(q)' <=> Exists(q)
                          /\ Live(q)' <=> Live(q)
                          /\ row'[q].details = row[q].details
                          /\ row'[q].gone = row[q].gone
  BY <1>1, <1>3, <1>5, NoneAssumption DEF Exists, Live, TypeOK
<1>7. HandlersOK'
  BY <1>3, <1>6, WorkFacts
  DEF OtherInv, HandlersOK, HandlerKnows, LoneOK, BeforeWrite, AfterWrite, On
<1>8. CacheFollows'
  BY <1>3, <1>6 DEF OtherInv, CacheFollows, SameBut
<1>9. AgreesTillWritten'
  BY <1>3, <1>6 DEF OtherInv, AgreesTillWritten, Agrees, On
<1>10. QED
  BY <1>4, <1>7, <1>8, <1>9 DEF OtherInv

\* The readers and the time to live: they touch the key only, and a SET of
\* anything but the row counts as left.
LEMMA ReaderStep ==
    ASSUME TypeOK, OtherInv,
           \/ \E r \in Readers : \/ \E p \in Products : FindProduct(r, p)
                                 \/ SetCache(r) \/ FailRead(r)
           \/ \E p \in Products : Expire(p)
    PROVE  TypeOK' /\ OtherInv'
<1>1. UNCHANGED <<row, doc, handler, sync, astray, unlisted>>
  BY DEF FindProduct, SetCache, FailRead, Expire
<1>2. HandlersOK' /\ AgreesTillWritten'
  BY <1>1
  DEF OtherInv, HandlersOK, HandlerKnows, LoneOK, BeforeWrite, AfterWrite, On, AgreesTillWritten,
      Agrees, Live, Exists
<1>3. ASSUME NEW r \in Readers, NEW p \in Products, FindProduct(r, p)
      PROVE  TypeOK' /\ CacheFollows'
  <2>1. UNCHANGED <<cache, left>>
    BY <1>3 DEF FindProduct
  <2>2. [pc |-> "set", p |-> p, copy |-> row[p]] \in Reading
    BY <1>3 DEF FindProduct, Exists, TypeOK, Reading
  <2>3. TypeOK'
    BY <1>1, <1>3, <2>1, <2>2 DEF FindProduct, TypeOK
  <2>4. CacheFollows'
    BY <1>1, <2>1 DEF OtherInv, CacheFollows, SameBut
  <2>5. QED
    BY <2>3, <2>4
<1>4. ASSUME NEW r \in Readers, SetCache(r)
      PROVE  TypeOK' /\ CacheFollows'
  <2>1. reader[r].p \in Products /\ reader[r].copy \in Rows
    <3>1. reader[r] \in Reading
      BY <1>4 DEF SetCache, TypeOK, Idle
    <3>2. QED
      BY <3>1 DEF Reading
  <2>2. TypeOK'
    BY <1>1, <1>4, <2>1 DEF SetCache, TypeOK
  <2>3. CacheFollows'
    <3>1. /\ \A q \in Products :
               q # reader[r].p => cache'[q] = cache[q] /\ (q \in left' <=> q \in left)
          /\ cache'[reader[r].p] = reader[r].copy
          /\ reader[r].p \notin left' => SameBut(reader[r].copy, row[reader[r].p])
      BY <1>4, <2>1 DEF SetCache, TypeOK
    <3>2. QED
      BY <1>1, <2>1, <3>1 DEF OtherInv, CacheFollows, SameBut
  <2>4. QED
    BY <2>2, <2>3
<1>5. ASSUME NEW r \in Readers, FailRead(r)
      PROVE  TypeOK' /\ CacheFollows'
  <2>1. TypeOK'
    BY <1>1, <1>5 DEF FailRead, TypeOK
  <2>2. CacheFollows'
    <3>1. UNCHANGED <<cache, left>>
      BY <1>5 DEF FailRead
    <3>2. QED
      BY <1>1, <3>1 DEF OtherInv, CacheFollows, SameBut
  <2>3. QED
    BY <2>1, <2>2
<1>6. ASSUME NEW p \in Products, Expire(p)
      PROVE  TypeOK' /\ CacheFollows'
  <2>1. TypeOK'
    BY <1>1, <1>6 DEF Expire, TypeOK
  <2>2. CacheFollows'
    BY <1>1, <1>6 DEF Expire, TypeOK, OtherInv, CacheFollows, SameBut
  <2>3. QED
    BY <2>1, <2>2
<1>7. QED
  BY <1>2, <1>3, <1>4, <1>5, <1>6 DEF OtherInv

\* The synchronisation: what it indexes is the row, or counts as astray.
LEMMA SyncStep ==
    ASSUME TypeOK, OtherInv, StartSync \/ EndSync \/ FailSync
    PROVE  TypeOK' /\ OtherInv'
<1>1. UNCHANGED <<row, cache, handler, reader, left>>
  BY DEF StartSync, EndSync, FailSync
<1>2. HandlersOK' /\ CacheFollows'
  BY <1>1
  DEF OtherInv, HandlersOK, HandlerKnows, LoneOK, BeforeWrite, AfterWrite, On, Live, Exists,
      CacheFollows, SameBut
<1>3. CASE StartSync
  <2>1. \A p \in Products : Document(p) \in Columns \cup {None}
    BY DEF Document, Live, Exists, Body, TypeOK, Rows, Columns
  <2>2. TypeOK'
    BY <1>3, <2>1 DEF StartSync, TypeOK
  <2>3. AgreesTillWritten'
    BY <1>3 DEF StartSync, OtherInv, AgreesTillWritten, Agrees, Live, Exists, On
  <2>4. QED
    BY <1>2, <2>2, <2>3 DEF OtherInv
<1>4. CASE FailSync
  <2>1. TypeOK'
    BY <1>4 DEF FailSync, TypeOK
  <2>2. AgreesTillWritten'
    BY <1>4 DEF FailSync, OtherInv, AgreesTillWritten, Agrees, Live, Exists, On
  <2>3. QED
    BY <1>2, <2>1, <2>2 DEF OtherInv
<1>5. CASE EndSync
  <2> DEFINE read == {p \in Products : sync[p] # None}
  <2> DEFINE late == {p \in read : ~Live(p) \/ sync[p].details # row[p].details \/ Busy(p)}
  <2>1. /\ sync \in [Products -> Columns \cup {None}]
        /\ doc' = [p \in Products |-> IF p \in read THEN sync[p] ELSE doc[p]]
        /\ astray' = astray \cup late /\ unlisted' = unlisted \ read /\ sync' = None
    BY <1>5 DEF EndSync, TypeOK
  <2>2. TypeOK'
    BY <1>1, <2>1 DEF TypeOK
  <2>3. ASSUME NEW p \in Products \ astray', Exists(p)',
               \A h \in Handlers : On(h, p)' => handler'[h].pc = "write"
        PROVE  Agrees(p)'
    <3>1. CASE p \in read
      BY <1>1, <2>1, <2>3, <3>1 DEF Agrees, Live, Exists
    <3>2. CASE p \notin read
      BY <1>1, <2>1, <2>3, <3>2 DEF OtherInv, AgreesTillWritten, Agrees, Live, Exists, On
    <3>3. QED
      BY <3>1, <3>2
  <2>4. QED
    BY <1>2, <2>2, <2>3 DEF OtherInv, AgreesTillWritten
<1>6. QED
  BY <1>3, <1>4, <1>5

-----------------------------------------------------------------------------
\* The inductive invariant holds throughout.
THEOREM InvariantHolds == Spec => []IInv
<1>1. Init => IInv
  <2>1. Init => TypeOK
    BY DEF Init, TypeOK
  <2>2. Init => HandlersOK /\ CacheFollows /\ AgreesTillWritten
    BY DEF Init, HandlersOK, HandlerKnows, LoneOK, CacheFollows, AgreesTillWritten, Exists
  <2>3. QED
    BY <2>1, <2>2 DEF IInv
<1>2. IInv /\ [Next]_vars => IInv'
  <2> SUFFICES ASSUME TypeOK, OtherInv, [Next]_vars
               PROVE  TypeOK' /\ OtherInv'
    BY DEF IInv, OtherInv
  <2>1. CASE UNCHANGED vars
    <3>1. UNCHANGED <<row, cache, doc, handler, reader, sync, left, astray, unlisted>>
      BY <2>1 DEF vars
    <3>2. TypeOK'
      BY <3>1 DEF TypeOK
    <3>3. HandlersOK'
      BY <3>1
      DEF OtherInv, HandlersOK, HandlerKnows, LoneOK, BeforeWrite, AfterWrite, On, Live, Exists
    <3>4. CacheFollows' /\ AgreesTillWritten'
      BY <3>1 DEF OtherInv, CacheFollows, SameBut, AgreesTillWritten, Agrees, On, Live, Exists
    <3>5. QED
      BY <3>2, <3>3, <3>4 DEF OtherInv
  <2>2. CASE Next
    BY <2>2, BeginStep, WriteRowStep, ClearCacheStep, IndexStep, FailWriteStep, MoveStockStep,
       ReaderStep, SyncStep, Zenon
    DEF Next, Step
  <2>3. QED
    BY <2>1, <2>2
<1>3. QED
  BY <1>1, <1>2, PTL DEF Spec

\* The row, the key, the document and every request stay in their types.
THEOREM TypeCorrect == Spec => []TypeOK
<1>1. IInv => TypeOK
  BY DEF IInv
<1>2. QED
  BY <1>1, InvariantHolds, PTL

\* The hooks of productHooks.js miss no write of a product, however many
\* overlap: a key that is not the row but for its stock was SET late, outlived a
\* failed DEL, or is about to be deleted.
THEOREM CacheIsTheRow == Spec => []CacheFollows
<1>1. IInv => CacheFollows
  BY DEF IInv
<1>2. QED
  BY <1>1, InvariantHolds, PTL

\* After a lone write of a product, with the synchronisation of the index in
\* between or not, the document is the row's.
THEOREM SearchIsTheRow == Spec => []SearchFollows
<1>1. ASSUME IInv
      PROVE  SearchFollows
  <2>1. ASSUME NEW p \in Products \ astray, Exists(p), ~Busy(p)
        PROVE  Agrees(p)
    BY <1>1, <2>1 DEF IInv, AgreesTillWritten, Busy, On
  <2>2. QED
    BY <2>1 DEF SearchFollows, Agrees
<1>2. QED
  BY <1>1, InvariantHolds, PTL

-----------------------------------------------------------------------------
(* Accounts                                                                  *)

\* What the fields of a request say when the customers are rs.
FieldsOK(q, rs) ==
    /\ q.op \in {"register", "login"} => q.email \in Emails /\ q.pw \in Passwords
    /\ q.op = "register" => q.id = 0
    /\ q.op \in {"update", "delete", "restore"} => q.id \in 1 .. Len(rs)
    /\ q.pc = "hash" => q.op = "login" /\ q.id \in 1 .. Len(rs) /\ q.read \in CustomerRows
    /\ q.pc = "save" => q.op # "login"
    /\ q.pc = "save" /\ q.op # "register" => q.read \in CustomerRows

\* The flags of an open request know of the present customers, and of those at
\* the time it read its row.
FlagsOK(q, rs) ==
    /\ q.pc \in {"find", "hash", "save"} =>
            /\ Grantable(q, rs) => q.ever
            /\ q.always => Grantable(q, rs)
    /\ q.pc = "hash" =>
            /\ compare(q.pw, q.read.secret) => q.ever
            /\ q.always => compare(q.pw, q.read.secret)
    /\ q.pc = "save" /\ q.op = "update" /\ q.email = q.read.email => q.ever

\* The answer of a request is one that was right at some time.
Justified(q) ==
    q.op \in {"register", "login", "update"} =>
        /\ q.pc = "granted" => q.ever
        /\ q.pc = "refused" => ~q.always

RequestOK(q, rs) == q.pc # "idle" => FieldsOK(q, rs) /\ FlagsOK(q, rs) /\ Justified(q)

Unique(rs) == \A i, j \in 1 .. Len(rs) : rs[i].email = rs[j].email => i = j

\* The inductive invariant.
AccountsInv ==
    /\ AccountsTypeOK
    /\ Len(chosen) = Len(rows)
    /\ Unique(rows)
    /\ LastPasswordWorks
    /\ \A r \in Requests : RequestOK(req[r], rows)

-----------------------------------------------------------------------------
\* A request as Watch leaves it when the customers become rs.
Noted(q, rs) ==
    IF q.pc \in {"find", "hash", "save"}
    THEN [q EXCEPT !.ever = @ \/ Grantable(q, rs), !.always = @ /\ Grantable(q, rs)]
    ELSE q

\* The fields of a request, and that it is not idle.
LEMMA AskedFacts ==
    ASSUME NEW q \in Asked
    PROVE  /\ q.pc \in {"find", "hash", "save", "granted", "refused", "failed"} /\ q.pc # "idle"
           /\ q.op \in {"register", "login", "update", "delete", "restore"}
           /\ q.id \in 0 .. MaxRows /\ q.email \in Emails \cup {Unset}
           /\ q.pw \in Passwords \cup {Unset} /\ q.read \in CustomerRows \cup {Unset}
           /\ q.ever \in BOOLEAN /\ q.always \in BOOLEAN
BY DEF Asked

\* t is s with x in place n.
Put(s, n, x, t) == t = [s EXCEPT ![n] = x]
\* What that comes to.
PutOK(S, s, n, x, t) ==
    /\ t \in Seq(S) /\ Len(t) = Len(s)
    /\ \A i \in 1 .. Len(s) : t[i] = IF i = n THEN x ELSE s[i]

\* A sequence with one element replaced.
LEMMA PutFacts ==
    ASSUME NEW S, NEW s \in Seq(S), NEW n \in 1 .. Len(s), NEW x \in S, NEW t, Put(s, n, x, t)
    PROVE  PutOK(S, s, n, x, t)
BY ExceptSeq DEF Put, PutOK

\* Grantable looks at four fields of a request.
LEMMA SameGrant ==
    ASSUME NEW q, NEW p, NEW rs,
           p.op = q.op, p.email = q.email, p.op = "login" => p.pw = q.pw,
           p.op # "login" => p.id = q.id
    PROVE  Grantable(p, rs) = Grantable(q, rs)
BY DEF Grantable

\* The flags of a request that is watched.
LEMMA NotedFacts ==
    ASSUME NEW q \in Asked, NEW rs, q.pc \in {"find", "hash", "save"}
    PROVE  LET n == Noted(q, rs) IN
           /\ n \in Asked
           /\ n.pc = q.pc /\ n.op = q.op /\ n.id = q.id /\ n.email = q.email /\ n.pw = q.pw
           /\ n.read = q.read
           /\ n.ever = (q.ever \/ Grantable(q, rs))
           /\ n.always = (q.always /\ Grantable(q, rs))
<1>1. Grantable(q, rs) \in BOOLEAN
  BY DEF Grantable
<1>2. (q.ever \/ Grantable(q, rs)) \in BOOLEAN /\ (q.always /\ Grantable(q, rs)) \in BOOLEAN
  OBVIOUS
<1>3. QED
  BY Zenon, <1>2 DEF Noted, Asked

\* A request that is watched stays right when customers are added or changed.
LEMMA NotedOK ==
    ASSUME NEW q \in {NoRequest} \cup Asked, NEW rs \in Seq(CustomerRows),
           NEW new \in Seq(CustomerRows),
           RequestOK(q, rs), Len(rs) <= Len(new)
    PROVE  Noted(q, new) \in {NoRequest} \cup Asked /\ RequestOK(Noted(q, new), new)
<1>1. CASE q.pc \notin {"find", "hash", "save"}
  <2>1. Noted(q, new) = q
    BY <1>1 DEF Noted
  <2>2. RequestOK(q, new)
    <3>1. q.id \in 1 .. Len(rs) => q.id \in 1 .. Len(new)
      OBVIOUS
    <3> QED
      BY Zenon, <1>1, <3>1 DEF RequestOK, FieldsOK, FlagsOK
  <2>3. QED
    BY <2>1, <2>2
<1>2. CASE q.pc \in {"find", "hash", "save"}
  <2> DEFINE n == Noted(q, new)
  <2>1. q \in Asked
    BY <1>2 DEF NoRequest
  <2>2. /\ n \in Asked
        /\ n.pc = q.pc /\ n.op = q.op /\ n.id = q.id /\ n.email = q.email /\ n.pw = q.pw
        /\ n.read = q.read
        /\ n.ever = (q.ever \/ Grantable(q, new))
        /\ n.always = (q.always /\ Grantable(q, new))
    BY <1>2, <2>1, NotedFacts
  <2> HIDE DEF n
  <2>3. Grantable(n, new) = Grantable(q, new)
    BY <2>2, SameGrant
  <2>4. FieldsOK(q, rs) /\ FlagsOK(q, rs)
    BY <1>2 DEF RequestOK
  <2>5. FieldsOK(n, new)
    BY <2>2, <2>4 DEF FieldsOK
  <2>6. FlagsOK(n, new)
    BY Zenon, <2>2, <2>3, <2>4 DEF FlagsOK
  <2>7. Justified(n)
    BY <1>2, <2>2 DEF Justified
  <2>8. QED
    BY <2>2, <2>5, <2>6, <2>7 DEF RequestOK, n
<1>3. QED
  BY <1>1, <1>2

-----------------------------------------------------------------------------
\* A step of one request that writes no customer.
LEMMA LocalStep ==
    ASSUME AccountsInv, NEW r \in Requests, NEW new \in {NoRequest} \cup Asked,
           req' = [req EXCEPT ![r] = new], RequestOK(new, rows),
           UNCHANGED <<rows, chosen>>, tokens' \subseteq Ids
    PROVE  AccountsInv'
<1>1. req \in [Requests -> {NoRequest} \cup Asked]
  BY DEF AccountsInv, AccountsTypeOK
<1>2. req' \in [Requests -> {NoRequest} \cup Asked]
  BY <1>1
<1>3. \A s \in Requests : req'[s] = IF s = r THEN new ELSE req[s]
  BY <1>1
<1>4. AccountsTypeOK'
  BY <1>2 DEF AccountsInv, AccountsTypeOK, Ids
<1>5. \A s \in Requests : RequestOK(req'[s], rows)
  BY <1>3 DEF AccountsInv
<1>6. LastPasswordWorks'
  BY DEF AccountsInv, LastPasswordWorks, Ids
<1>7. QED
  BY <1>4, <1>5, <1>6 DEF AccountsInv

\* A request that goes on to pc.
Moved(q, pc) == [q EXCEPT !.pc = pc]
PCs == {"find", "hash", "save", "granted", "refused", "failed"}

\* What is known of a request that is not idle.
LEMMA OpenFacts ==
    ASSUME AccountsInv, NEW r \in Requests, req[r].pc # "idle"
    PROVE  req[r] \in Asked /\ FieldsOK(req[r], rows) /\ FlagsOK(req[r], rows)
<1>1. req[r] \in {NoRequest} \cup Asked /\ RequestOK(req[r], rows)
  BY DEF AccountsInv, AccountsTypeOK
<1>2. req[r] # NoRequest
  BY DEF NoRequest
<1>3. QED
  BY <1>1, <1>2 DEF RequestOK

\* A request goes on to pc and nothing else of it changes.
LEMMA MoveFacts ==
    ASSUME AccountsInv, NEW r \in Requests, req[r].pc # "idle", NEW pc \in PCs
    PROVE  /\ req[r] \in Asked /\ Moved(req[r], pc) \in Asked /\ Moved(req[r], pc).pc = pc
           /\ Moved(req[r], pc).op = req[r].op /\ Moved(req[r], pc).id = req[r].id
           /\ Moved(req[r], pc).email = req[r].email /\ Moved(req[r], pc).pw = req[r].pw
           /\ Moved(req[r], pc).read = req[r].read /\ Moved(req[r], pc).ever = req[r].ever
           /\ Moved(req[r], pc).always = req[r].always
           /\ MoveTo(r, pc) = [req EXCEPT ![r] = Moved(req[r], pc)]
           /\ MoveTo(r, pc)[r] = Moved(req[r], pc)
           /\ Grantable(Moved(req[r], pc), rows) = Grantable(req[r], rows)
           /\ FieldsOK(req[r], rows) /\ FlagsOK(req[r], rows)
<1> DEFINE n == Moved(req[r], pc)
<1>1. req \in [Requests -> {NoRequest} \cup Asked]
  BY DEF AccountsInv, AccountsTypeOK
<1>2. req[r] \in Asked /\ FieldsOK(req[r], rows) /\ FlagsOK(req[r], rows)
  BY OpenFacts
<1>3. /\ n \in Asked /\ n.pc = pc
      /\ n.op = req[r].op /\ n.id = req[r].id /\ n.email = req[r].email /\ n.pw = req[r].pw
      /\ n.read = req[r].read /\ n.ever = req[r].ever /\ n.always = req[r].always
  BY <1>2 DEF Asked, Moved, PCs
<1>4. MoveTo(r, pc) = [req EXCEPT ![r] = n] /\ MoveTo(r, pc)[r] = n
  BY <1>1 DEF MoveTo, Moved
<1>5. Grantable(n, rows) = Grantable(req[r], rows)
  BY <1>3, SameGrant
<1>6. QED
  BY <1>2, <1>3, <1>4, <1>5

\* A request ends without an effect: failed, or with an answer it justifies.
LEMMA EndStep ==
    ASSUME AccountsInv, NEW r \in Requests, req[r].pc \in {"find", "hash", "save"},
           NEW pc \in {"granted", "refused", "failed"}, req' = MoveTo(r, pc),
           UNCHANGED <<rows, chosen>>, tokens' \subseteq Ids,
           pc = "granted" /\ req[r].op \in {"register", "login", "update"} => req[r].ever,
           pc = "refused" => ~req[r].always
    PROVE  AccountsInv'
<1> DEFINE n == Moved(req[r], pc)
<1>1. req[r].pc # "idle" /\ pc \in PCs
  BY DEF PCs
<1>2. /\ n \in Asked /\ n.pc = pc
      /\ n.op = req[r].op /\ n.id = req[r].id /\ n.email = req[r].email /\ n.pw = req[r].pw
      /\ n.read = req[r].read /\ n.ever = req[r].ever /\ n.always = req[r].always
      /\ req' = [req EXCEPT ![r] = n]
      /\ FieldsOK(req[r], rows)
  BY <1>1, MoveFacts
<1> HIDE DEF n
<1>3. FieldsOK(n, rows)
  BY <1>2 DEF FieldsOK
<1>4. FlagsOK(n, rows) /\ Justified(n)
  BY <1>2 DEF FlagsOK, Justified
<1>5. QED
  BY Zenon, <1>2, <1>3, <1>4, LocalStep DEF RequestOK

\* A request arrives.
LEMMA StartStep ==
    ASSUME AccountsInv, NEW r \in Requests,
           NEW op \in {"register", "login", "update", "delete", "restore"},
           NEW i \in 0 .. MaxRows, NEW e \in Emails \cup {Unset}, NEW p \in Passwords \cup {Unset},
           op \in {"register", "login"} => i = 0 /\ e \in Emails /\ p \in Passwords,
           op \in {"update", "delete", "restore"} => i \in Ids,
           Start(r, op, i, e, p)
    PROVE  AccountsInv'
<1> DEFINE q == [op |-> op, id |-> i, email |-> e, pw |-> p]
           g == Grantable(q, rows)
           n == [pc |-> "find", op |-> op, id |-> i, email |-> e, pw |-> p, read |-> Unset,
                 ever |-> g, always |-> g]
<1>1. req' = [req EXCEPT ![r] = n] /\ UNCHANGED <<rows, tokens, chosen>>
  BY DEF Start
<1>2. g \in BOOLEAN
  BY DEF Grantable
<1>3. q.op = op /\ q.id = i /\ q.email = e /\ q.pw = p
  OBVIOUS
<1> HIDE DEF g
<1>4. /\ n \in Asked /\ n.pc = "find" /\ n.op = op /\ n.id = i /\ n.email = e /\ n.pw = p
      /\ n.ever = g /\ n.always = g
  BY <1>2 DEF Asked
<1> HIDE DEF n, q
<1>5. Grantable(n, rows) = g
  BY <1>3, <1>4, SameGrant DEF g
<1>6. FieldsOK(n, rows)
  BY <1>4 DEF FieldsOK, Ids
<1>7. FlagsOK(n, rows) /\ Justified(n)
  BY <1>4, <1>5 DEF FlagsOK, Justified
<1>8. tokens \subseteq Ids
  BY DEF AccountsInv, AccountsTypeOK
<1>9. QED
  BY Zenon, <1>1, <1>4, <1>6, <1>7, <1>8, LocalStep DEF RequestOK

\* registerCustomer looks for the email: it is refused or goes on to insert.
LEMMA FindExistingStep ==
    ASSUME AccountsInv, NEW r \in Requests, FindExisting(r)
    PROVE  AccountsInv'
<1> DEFINE n == Moved(req[r], "save")
<1>1. /\ req[r].pc = "find" /\ req[r].op = "register" /\ UNCHANGED <<rows, tokens, chosen>>
      /\ req' = MoveTo(r, IF \E i \in Ids : rows[i].email = req[r].email
                        THEN "refused" ELSE "save")
  BY DEF FindExisting
<1>2. tokens \subseteq Ids /\ rows \in Seq(CustomerRows) /\ DOMAIN rows = Ids
  BY DEF AccountsInv, AccountsTypeOK, Ids
<1>3. "save" \in PCs /\ req[r].pc # "idle"
  BY <1>1 DEF PCs
<1>4. /\ n \in Asked /\ n.pc = "save" /\ n.op = "register" /\ n.id = req[r].id
      /\ n.email = req[r].email /\ n.pw = req[r].pw /\ n.ever = req[r].ever
      /\ n.always = req[r].always
      /\ MoveTo(r, "save") = [req EXCEPT ![r] = n] /\ Grantable(n, rows) = Grantable(req[r], rows)
      /\ FieldsOK(req[r], rows) /\ FlagsOK(req[r], rows)
  BY <1>1, <1>3, MoveFacts
<1> HIDE DEF n
<1>5. CASE \E i \in Ids : rows[i].email = req[r].email
  <2>1. ~Grantable(req[r], rows)
    <3>1. PICK i \in Ids : rows[i].email = req[r].email
      BY <1>5
    <3>2. i # req[r].id
      <4>1. req[r].id = 0
        BY Zenon, <1>1, <1>4 DEF FieldsOK
      <4>2. i # 0
        BY DEF Ids
      <4> QED
        BY Zenon, <4>1, <4>2
    <3> QED
      BY Zenon, <1>1, <1>2, <3>1, <3>2 DEF Grantable
  <2>2. ~req[r].always
    BY <1>1, <1>4, <2>1 DEF FlagsOK
  <2>3. QED
    BY <1>1, <1>2, <1>5, <2>2, EndStep
<1>6. CASE ~\E i \in Ids : rows[i].email = req[r].email
  <2>1. req' = [req EXCEPT ![r] = n]
    BY <1>1, <1>4, <1>6
  <2>2. FieldsOK(n, rows)
    BY <1>1, <1>4 DEF FieldsOK
  <2>3. FlagsOK(n, rows) /\ Justified(n)
    BY <1>1, <1>4 DEF FlagsOK, Justified
  <2>4. QED
    BY <1>1, <1>2, <1>4, <2>1, <2>2, <2>3, LocalStep DEF RequestOK
<1>7. QED
  BY <1>5, <1>6

\* loginCustomer reads the row of the email; what the flags know of this moment
\* settles the comparison that follows, because no other row has the email.
LEMMA FindLoginStep ==
    ASSUME AccountsInv, NEW r \in Requests, FindLogin(r)
    PROVE  AccountsInv'
<1> DEFINE found == {i \in Ids : rows[i].email = req[r].email}
<1>1. /\ req[r].pc = "find" /\ req[r].op = "login" /\ UNCHANGED <<rows, tokens, chosen>>
      /\ \/ found = {} /\ req' = MoveTo(r, "refused")
         \/ \E i \in found : req' = [req EXCEPT ![r].pc = "hash", ![r].id = i,
                                                ![r].read = rows[i]]
  BY Zenon DEF FindLogin
<1>2. /\ tokens \subseteq Ids /\ rows \in Seq(CustomerRows) /\ DOMAIN rows = Ids /\ Unique(rows)
      /\ req \in [Requests -> {NoRequest} \cup Asked]
  BY DEF AccountsInv, AccountsTypeOK, Ids
<1>3. req[r] \in Asked /\ FieldsOK(req[r], rows) /\ FlagsOK(req[r], rows)
  BY Zenon, <1>1, OpenFacts
<1>4. Grantable(req[r], rows) <=> \E i \in found : compare(req[r].pw, rows[i].secret)
  <2>1. Grantable(req[r], rows) <=>
            \E i \in Ids : rows[i].email = req[r].email /\ compare(req[r].pw, rows[i].secret)
    BY Zenon, <1>1, <1>2 DEF Grantable
  <2>2. QED
    BY Zenon, <2>1
<1>5. /\ Grantable(req[r], rows) => req[r].ever
      /\ req[r].always => Grantable(req[r], rows)
  BY Zenon, <1>1, <1>3 DEF FlagsOK
<1>6. CASE found = {} /\ req' = MoveTo(r, "refused")
  <2>1. ~req[r].always
    BY <1>4, <1>5, <1>6
  <2>2. QED
    BY Zenon, <1>1, <1>2, <1>6, <2>1, EndStep
<1>7. ASSUME NEW i \in found,
             req' = [req EXCEPT ![r].pc = "hash", ![r].id = i, ![r].read = rows[i]]
      PROVE  AccountsInv'
  <2> DEFINE n == [req[r] EXCEPT !.pc = "hash", !.id = i, !.read = rows[i]]
  <2>1. i \in 1 .. Len(rows) /\ i \in 0 .. MaxRows /\ rows[i] \in CustomerRows
    BY <1>2, BoundAssumption DEF Ids, AccountsInv, AccountsTypeOK
  <2>2. req' = [req EXCEPT ![r] = n]
    BY Zenon, <1>2, <1>7
  <2>3. /\ n \in Asked /\ n.pc = "hash" /\ n.op = "login" /\ n.id = i /\ n.read = rows[i]
        /\ n.email = req[r].email /\ n.pw = req[r].pw /\ n.ever = req[r].ever
        /\ n.always = req[r].always
    BY Zenon, <1>1, <1>3, <2>1 DEF Asked
  <2> HIDE DEF n
  <2>4. FieldsOK(n, rows)
    <3>1. n.op = "login" /\ n.email \in Emails /\ n.pw \in Passwords
      BY Zenon, <1>1, <1>3, <2>3 DEF FieldsOK
    <3>2. QED
      BY <2>1, <2>3, <3>1 DEF FieldsOK
  <2>5. Grantable(n, rows) = Grantable(req[r], rows)
    <3>1. n.op = "login" /\ n.op = req[r].op
      BY Zenon, <1>1, <2>3
    <3>2. QED
      BY <2>3, <3>1, SameGrant
  <2>6. Grantable(req[r], rows) <=> compare(req[r].pw, rows[i].secret)
    <3>1. \A j \in found : j = i
      BY <1>2 DEF Unique, Ids
    <3>2. QED
      BY <1>4, <3>1
  <2>7. FlagsOK(n, rows) /\ Justified(n)
    BY <1>5, <2>3, <2>5, <2>6 DEF FlagsOK, Justified
  <2>8. QED
    BY Zenon, <1>1, <1>2, <2>2, <2>3, <2>4, <2>7, LocalStep DEF RequestOK
<1>8. QED
  BY Zenon, <1>1, <1>6, <1>7

\* authenticateCustomer and findByPk: the row of the token's id.
LEMMA FindByPkStep ==
    ASSUME AccountsInv, NEW r \in Requests, FindByPk(r)
    PROVE  AccountsInv'
<1> DEFINE made == rows[req[r].id]
           n == [req[r] EXCEPT !.pc = "save", !.read = made]
<1>1. /\ req[r].pc = "find" /\ req[r].op \in {"update", "delete", "restore"}
      /\ UNCHANGED <<rows, tokens, chosen>>
      /\ req' = [req EXCEPT ![r].pc = "save", ![r].read = made]
  BY DEF FindByPk
<1>2. /\ tokens \subseteq Ids /\ rows \in Seq(CustomerRows) /\ DOMAIN rows = Ids /\ Unique(rows)
      /\ req \in [Requests -> {NoRequest} \cup Asked]
  BY DEF AccountsInv, AccountsTypeOK, Ids
<1>3. req[r] \in Asked /\ FieldsOK(req[r], rows) /\ FlagsOK(req[r], rows)
  BY <1>1, OpenFacts
<1>4. req[r].id \in Ids /\ made \in CustomerRows
  BY <1>1, <1>2, <1>3 DEF FieldsOK, Ids
<1>5. req' = [req EXCEPT ![r] = n]
  BY Zenon, <1>1, <1>2
<1>6. /\ n \in Asked /\ n.pc = "save" /\ n.op = req[r].op /\ n.id = req[r].id /\ n.read = made
      /\ n.email = req[r].email /\ n.pw = req[r].pw /\ n.ever = req[r].ever
      /\ n.always = req[r].always
  BY Zenon, <1>3, <1>4 DEF Asked
<1> HIDE DEF n
<1>7. FieldsOK(n, rows)
  BY <1>1, <1>3, <1>4, <1>6 DEF FieldsOK
<1>8. Grantable(n, rows) = Grantable(req[r], rows)
  BY <1>6, SameGrant
<1>9. n.email = made.email => Grantable(n, rows)
  BY <1>1, <1>2, <1>4, <1>6 DEF Grantable, Unique, Ids
<1>10. FlagsOK(n, rows) /\ Justified(n)
  BY <1>1, <1>3, <1>6, <1>8, <1>9 DEF FlagsOK, Justified
<1>11. QED
  BY Zenon, <1>1, <1>2, <1>5, <1>6, <1>7, <1>10, LocalStep DEF RequestOK

\* The handlers that answer without writing a customer: loginCustomer after
\* bcrypt.compare, a delete that throws, a restore of a live row, a failure.
LEMMA AnswerStep ==
    ASSUME AccountsInv, NEW r \in Requests,
           Compare(r) \/ CountUndelivered(r) \/ RestoreLive(r) \/ Fail(r) \/ Done(r)
    PROVE  AccountsInv'
<1>1. tokens \subseteq Ids /\ UNCHANGED <<rows, chosen>>
  BY DEF AccountsInv, AccountsTypeOK, Compare, CountUndelivered, RestoreLive, Fail, Done
<1>2. CASE Compare(r)
  <2> DEFINE match == compare(req[r].pw, req[r].read.secret)
  <2>1. /\ req[r].pc = "hash" /\ req[r].op = "login"
        /\ req' = MoveTo(r, IF match THEN "granted" ELSE "refused")
        /\ tokens' = IF match THEN tokens \cup {req[r].id} ELSE tokens
    BY <1>2 DEF Compare
  <2>2. FieldsOK(req[r], rows) /\ FlagsOK(req[r], rows)
    BY <2>1 DEF AccountsInv, RequestOK
  <2>3. tokens' \subseteq Ids
    BY <1>1, <2>1, <2>2 DEF FieldsOK, Ids
  <2>4. (match => req[r].ever) /\ (req[r].always => match)
    BY <2>1, <2>2 DEF FlagsOK
  <2> HIDE DEF match
  <2>5. CASE match
    <3>1. req' = MoveTo(r, "granted") /\ req[r].ever
      BY <2>1, <2>4, <2>5
    <3>2. QED
      BY <1>1, <2>1, <2>3, <3>1, EndStep
  <2>6. CASE ~match
    <3>1. req' = MoveTo(r, "refused") /\ ~req[r].always
      BY <2>1, <2>4, <2>6
    <3>2. QED
      BY <1>1, <2>1, <2>3, <3>1, EndStep
  <2>7. QED
    BY <2>5, <2>6
<1>3. CASE CountUndelivered(r) \/ Fail(r)
  <2>1. /\ req[r].pc \in {"find", "hash", "save"} /\ req' = MoveTo(r, "failed")
        /\ tokens' = tokens
    BY <1>3 DEF CountUndelivered, Fail
  <2>2. QED
    BY <1>1, <2>1, EndStep
<1>4. CASE RestoreLive(r)
  <2>1. /\ req[r].pc = "save" /\ req[r].op = "restore" /\ req' = MoveTo(r, "granted")
        /\ tokens' = tokens
    BY <1>4 DEF RestoreLive
  <2>2. QED
    BY <1>1, <2>1, EndStep
<1>5. CASE Done(r)
  <2>1. req' = [req EXCEPT ![r] = NoRequest] /\ tokens' = tokens
    BY <1>5 DEF Done
  <2>2. RequestOK(NoRequest, rows)
    BY DEF RequestOK, NoRequest
  <2>3. QED
    BY Zenon, <1>1, <2>1, <2>2, LocalStep
<1>6. QED
  BY <1>2, <1>3, <1>4, <1>5

-----------------------------------------------------------------------------
\* A statement that writes: the customers stay distinct, the passwords chosen
\* stay the ones that work, and the open requests take note.
LEMMA WriteStep ==
    ASSUME AccountsInv, NEW r \in Requests, req[r].pc = "save", req[r].ever,
           NEW new \in Seq(CustomerRows), rows' = new, Len(rows) <= Len(new), Len(new) <= MaxRows,
           Unique(new), chosen' \in Seq(Passwords), Len(chosen') = Len(new),
           \A i \in 1 .. Len(new) : compare(chosen'[i], new[i].secret),
           req' = [Watch(req, rows') EXCEPT ![r] = MoveTo(r, "granted")[r]],
           tokens' = tokens
    PROVE  AccountsInv'
<1> DEFINE n == Moved(req[r], "granted")
<1>1. /\ rows \in Seq(CustomerRows) /\ tokens \subseteq Ids
      /\ req \in [Requests -> {NoRequest} \cup Asked]
  BY DEF AccountsInv, AccountsTypeOK
<1>2. req[r].pc # "idle" /\ "granted" \in PCs
  BY DEF PCs
<1>3. /\ n \in Asked /\ n.pc = "granted" /\ n.op = req[r].op /\ n.id = req[r].id
      /\ n.email = req[r].email /\ n.pw = req[r].pw /\ n.ever = req[r].ever
      /\ MoveTo(r, "granted")[r] = n /\ FieldsOK(req[r], rows)
  BY Zenon, <1>2, MoveFacts
<1> HIDE DEF n
<1>4. RequestOK(n, new)
  <2>1. FieldsOK(n, new)
    <3>1. \A i : i \in 1 .. Len(rows) => i \in 1 .. Len(new)
      BY <1>1
    <3>2. QED
      BY <1>3, <3>1 DEF FieldsOK
  <2>2. FlagsOK(n, new) /\ Justified(n)
    BY <1>3 DEF FlagsOK, Justified
  <2>3. QED
    BY <2>1, <2>2 DEF RequestOK
<1>5. ASSUME NEW s \in Requests, s # r
      PROVE  req'[s] = Noted(req[s], new)
  BY Zenon, <1>5 DEF Watch, Noted
<1>6. req'[r] = n /\ DOMAIN req' = Requests
  BY Zenon, <1>3 DEF Watch
<1>7. ASSUME NEW s \in Requests
      PROVE  req'[s] \in {NoRequest} \cup Asked /\ RequestOK(req'[s], new)
  <2>1. CASE s = r
    BY <1>3, <1>4, <1>6, <2>1
  <2>2. CASE s # r
    <3>1. req[s] \in {NoRequest} \cup Asked /\ RequestOK(req[s], rows)
      BY <1>1 DEF AccountsInv
    <3>2. Noted(req[s], new) \in {NoRequest} \cup Asked /\ RequestOK(Noted(req[s], new), new)
      BY <1>1, <3>1, NotedOK
    <3>3. QED
      BY <1>5, <2>2, <3>2
  <2>3. QED
    BY <2>1, <2>2
<1>8. req' \in [Requests -> {NoRequest} \cup Asked]
  <2>1. req' = [s \in Requests |-> req'[s]]
    BY Zenon DEF Watch
  <2>2. QED
    BY Zenon, <1>7, <2>1
<1>9. AccountsTypeOK'
  BY <1>1, <1>8 DEF AccountsTypeOK, Ids
<1>10. LastPasswordWorks'
  BY DEF LastPasswordWorks, Ids
<1>11. QED
  BY <1>7, <1>9, <1>10 DEF AccountsInv

\* registerCustomer inserts, unless the index finds the email taken.
LEMMA CreateStep ==
    ASSUME AccountsInv, NEW r \in Requests, Create(r)
    PROVE  AccountsInv'
<1> DEFINE made == [email |-> req[r].email, secret |-> hash(Plain(req[r].pw))]
           new == Append(rows, made)
<1>1. req[r].pc = "save" /\ req[r].op = "register" /\ tokens' = tokens /\ req[r].pc # "idle"
  BY DEF Create
<1>2. /\ rows \in Seq(CustomerRows) /\ Len(rows) <= MaxRows /\ DOMAIN rows = Ids
      /\ tokens \subseteq Ids
      /\ chosen \in Seq(Passwords) /\ Len(chosen) = Len(rows) /\ Unique(rows)
  BY DEF AccountsInv, AccountsTypeOK, Ids
<1>3. req[r] \in Asked /\ FieldsOK(req[r], rows) /\ FlagsOK(req[r], rows)
  BY <1>1, OpenFacts
<1>4. req[r].id = 0 /\ req[r].email \in Emails /\ req[r].pw \in Passwords
  BY <1>1, <1>3 DEF FieldsOK
<1>5. Grantable(req[r], rows) <=> \A i \in Ids : rows[i].email # req[r].email
  BY <1>1, <1>2, <1>4 DEF Grantable, Ids
<1>6. made \in CustomerRows /\ made.email = req[r].email /\ compare(req[r].pw, made.secret)
  BY <1>4 DEF CustomerRows, Secrets, hash, Plain, compare
<1> HIDE DEF made
<1>7. CASE /\ \E i \in Ids : rows[i].email = made.email
           /\ req' = MoveTo(r, "refused") /\ UNCHANGED <<rows, chosen>>
  <2>1. ~req[r].always
    BY <1>1, <1>3, <1>5, <1>6, <1>7 DEF FlagsOK
  <2>2. QED
    BY <1>1, <1>2, <1>7, <2>1, EndStep
<1>8. CASE /\ \A i \in Ids : rows[i].email # made.email
           /\ Len(rows) < MaxRows
           /\ rows' = Append(rows, made)
           /\ req' = [Watch(req, rows') EXCEPT ![r] = MoveTo(r, "granted")[r]]
           /\ chosen' = Append(chosen, req[r].pw)
  <2>1. req[r].ever
    BY <1>1, <1>3, <1>5, <1>6, <1>8 DEF FlagsOK
  <2>2. /\ new \in Seq(CustomerRows) /\ Len(new) = Len(rows) + 1
        /\ \A i \in 1 .. Len(rows) : new[i] = rows[i]
        /\ new[Len(rows) + 1] = made
    BY <1>2, <1>6
  <2>3. /\ chosen' \in Seq(Passwords) /\ Len(chosen') = Len(rows) + 1
        /\ \A i \in 1 .. Len(rows) : chosen'[i] = chosen[i]
        /\ chosen'[Len(rows) + 1] = req[r].pw
    <3> DEFINE s == chosen
               x == req[r].pw
    <3>1. s \in Seq(Passwords) /\ x \in Passwords /\ Len(s) = Len(rows) /\ chosen' = Append(s, x)
      BY <1>2, <1>4, <1>8
    <3> HIDE DEF s, x
    <3>2. /\ Append(s, x) \in Seq(Passwords) /\ Len(Append(s, x)) = Len(s) + 1
          /\ \A i \in 1 .. Len(s) : Append(s, x)[i] = s[i]
          /\ Append(s, x)[Len(s) + 1] = x
      BY <3>1
    <3> QED
      BY <3>1, <3>2 DEF s, x
  <2>4. Len(rows) \in Nat /\ rows' = new
    BY <1>2, <1>8
  <2> HIDE DEF new
  <2>5. \A i \in 1 .. Len(new) : i \in 1 .. Len(rows) \/ i = Len(rows) + 1
    BY <2>2, <2>4
  <2>6. Unique(new)
    BY <1>2, <1>8, <2>2, <2>5 DEF Unique, Ids
  <2>7. \A i \in 1 .. Len(new) : compare(chosen'[i], new[i].secret)
    BY <1>6, <2>2, <2>3, <2>5 DEF AccountsInv, LastPasswordWorks, Ids
  <2>8. Len(rows) <= Len(new) /\ Len(new) <= MaxRows /\ Len(chosen') = Len(new)
    BY <1>8, <2>2, <2>3, <2>4, BoundAssumption
  <2>9. QED
    BY Zenon, <1>1, <1>8, <2>1, <2>2, <2>3, <2>4, <2>6, <2>7, <2>8, WriteStep
<1>9. QED
  BY <1>7, <1>8 DEF Create, made

\* updateCustomer and patchCustomer write the columns that differ from the row
\* they read, unless the index finds the new email taken.
LEMMA SaveStep ==
    ASSUME AccountsInv, NEW r \in Requests, Save(r)
    PROVE  AccountsInv'
<1> DEFINE q == req[r]
           now == rows[q.id]
           secret == beforeUpdate(q)
           made == [email |-> IF q.email \in {Unset, q.read.email} THEN now.email ELSE q.email,
                   secret |-> IF secret = q.read.secret /\ q.pw = Unset THEN now.secret
                              ELSE secret]
           new == [rows EXCEPT ![q.id] = made]
<1>1. q.pc = "save" /\ q.op = "update" /\ tokens' = tokens /\ q.pc # "idle"
  BY DEF Save
<1>2. /\ rows \in Seq(CustomerRows) /\ Len(rows) <= MaxRows /\ DOMAIN rows = Ids
      /\ tokens \subseteq Ids
      /\ chosen \in Seq(Passwords) /\ Len(chosen) = Len(rows) /\ Unique(rows)
  BY DEF AccountsInv, AccountsTypeOK, Ids
<1>3. q \in Asked /\ FieldsOK(q, rows) /\ FlagsOK(q, rows)
  BY <1>1, OpenFacts
<1>4. /\ q.id \in Ids /\ now \in CustomerRows /\ q.read \in CustomerRows
      /\ q.email \in Emails \cup {Unset} /\ q.pw \in Passwords \cup {Unset}
  <2>1. q.email \in Emails \cup {Unset} /\ q.pw \in Passwords \cup {Unset}
    BY Zenon, <1>3, AskedFacts
  <2>2. q.id \in Ids /\ q.read \in CustomerRows
    BY <1>1, <1>3 DEF FieldsOK, Ids
  <2>3. now \in CustomerRows
    BY Zenon, <1>2, <2>2, ElementOfSeq DEF Ids
  <2>4. QED
    BY <2>1, <2>2, <2>3
<1>5. Grantable(q, rows) <=> \A i \in Ids : rows[i].email = q.email => i = q.id
  BY <1>1, <1>2 DEF Grantable
<1>6. /\ Grantable(q, rows) => q.ever
      /\ q.always => Grantable(q, rows)
      /\ q.email = q.read.email => q.ever
  BY <1>1, <1>3 DEF FlagsOK
<1>7. \A i \in Ids : rows[i].email \in Emails /\ rows[i].secret \in Secrets
  <2>1. \A i \in Ids : rows[i] \in CustomerRows
    BY Zenon, <1>2, ElementOfSeq DEF Ids
  <2>2. \A x \in CustomerRows : x.email \in Emails /\ x.secret \in Secrets
    BY DEF CustomerRows
  <2>3. QED
    BY <2>1, <2>2
<1>8. /\ made.email = IF q.email \in {Unset, q.read.email} THEN now.email ELSE q.email
      /\ made.email \in Emails
  BY <1>4, <1>7
<1>9. made.secret = IF q.pw = Unset THEN now.secret ELSE hash(Plain(q.pw))
  BY DEF beforeUpdate
<1>10. made \in CustomerRows
  <2>1. made.secret \in Secrets
    BY <1>4, <1>7, <1>9 DEF Secrets, hash, Plain
  <2>2. made = [email |-> made.email, secret |-> made.secret]
    OBVIOUS
  <2> HIDE DEF made
  <2>3. QED
    BY <1>8, <2>1, <2>2 DEF CustomerRows
<1> HIDE DEF made
<1>11. CASE /\ \E i \in Ids \ {q.id} : rows[i].email = made.email
            /\ req' = MoveTo(r, "refused") /\ UNCHANGED <<rows, chosen>>
  <2>1. made.email # now.email
    BY <1>2, <1>4, <1>11 DEF Unique, Ids
  <2>2. ~Grantable(q, rows)
    BY <1>5, <1>8, <1>11, <2>1
  <2>3. ~q.always
    BY <1>6, <2>2
  <2>4. QED
    BY <1>1, <1>2, <1>11, <2>3, EndStep
<1>12. CASE /\ \A i \in Ids \ {q.id} : rows[i].email # made.email
            /\ rows' = new
            /\ req' = [Watch(req, rows') EXCEPT ![r] = MoveTo(r, "granted")[r]]
            /\ chosen' = IF q.pw # Unset THEN [chosen EXCEPT ![q.id] = q.pw] ELSE chosen
  <2>1. q.ever
    <3>1. CASE q.email = Unset
      <4>1. Grantable(q, rows)
        BY <1>5, <1>7, <3>1, UnsetAssumption
      <4>2. QED
        BY <1>6, <4>1
    <3>2. CASE q.email = q.read.email
      BY <1>6, <3>2
    <3>3. CASE q.email \notin {Unset, q.read.email}
      <4>1. made.email = q.email
        BY <1>8, <3>3
      <4>2. Grantable(q, rows)
        BY <1>5, <1>12, <4>1
      <4>3. QED
        BY <1>6, <4>2
    <3>4. QED
      BY <3>1, <3>2, <3>3
  <2>2. q.id \in 1 .. Len(rows)
    BY <1>4 DEF Ids
  <2>3. /\ new \in Seq(CustomerRows) /\ Len(new) = Len(rows)
        /\ \A i \in 1 .. Len(rows) : new[i] = IF i = q.id THEN made ELSE rows[i]
    <3>1. Put(rows, q.id, made, new)
      BY DEF Put
    <3> HIDE DEF new
    <3>2. PutOK(CustomerRows, rows, q.id, made, new)
      BY Zenon, <1>2, <1>10, <2>2, <3>1, PutFacts
    <3> QED
      BY <3>2 DEF PutOK
  <2>4. /\ chosen' \in Seq(Passwords) /\ Len(chosen') = Len(rows)
        /\ \A i \in 1 .. Len(rows) :
                chosen'[i] = IF i = q.id /\ q.pw # Unset THEN q.pw ELSE chosen[i]
    <3>1. CASE q.pw # Unset
      <4>1. q.pw \in Passwords /\ q.id \in 1 .. Len(chosen) /\ chosen \in Seq(Passwords)
        BY <1>2, <1>4, <2>2, <3>1
      <4>2. Put(chosen, q.id, q.pw, chosen')
        BY <1>12, <3>1 DEF Put
      <4>3. PutOK(Passwords, chosen, q.id, q.pw, chosen')
        BY Zenon, <4>1, <4>2, PutFacts
      <4>4. QED
        BY <1>2, <3>1, <4>3 DEF PutOK
    <3>2. CASE q.pw = Unset
      BY <1>2, <1>12, <3>2
    <3>3. QED
      BY <3>1, <3>2
  <2> HIDE DEF new
  <2>5. Unique(new)
    BY <1>2, <1>12, <2>3 DEF Unique, Ids
  <2>6. ASSUME NEW i \in 1 .. Len(new)
        PROVE  compare(chosen'[i], new[i].secret)
    <3>1. compare(chosen[i], rows[i].secret) /\ i \in 1 .. Len(rows)
      BY <2>3 DEF AccountsInv, LastPasswordWorks, Ids
    <3>2. CASE i = q.id /\ q.pw # Unset
      BY <1>9, <2>3, <2>4, <3>1, <3>2 DEF compare
    <3>3. CASE i = q.id /\ q.pw = Unset
      BY <1>9, <2>3, <2>4, <3>1, <3>3
    <3>4. CASE i # q.id
      BY <2>3, <2>4, <3>1, <3>4
    <3>5. QED
      BY <3>2, <3>3, <3>4
  <2>7. Len(rows) <= Len(new) /\ Len(new) <= MaxRows /\ Len(chosen') = Len(new)
    BY <1>2, <2>3, <2>4
  <2>8. QED
    BY Zenon, <1>1, <1>12, <2>1, <2>3, <2>4, <2>5, <2>6, <2>7, WriteStep
<1>13. QED
  BY <1>11, <1>12 DEF Save, made

-----------------------------------------------------------------------------
\* Every step keeps the invariant.
LEMMA InvStep == AccountsInv /\ [AccountsNext]_accountsVars => AccountsInv'
<1> SUFFICES ASSUME AccountsInv, [AccountsNext]_accountsVars
             PROVE  AccountsInv'
  OBVIOUS
<1>1. CASE UNCHANGED accountsVars
  BY <1>1 DEF accountsVars, AccountsInv, AccountsTypeOK, Ids, LastPasswordWorks
<1>2. ASSUME NEW r \in Requests, Arrive(r)
      PROVE  AccountsInv'
  <2>1. 0 \in 0 .. MaxRows /\ \A i \in Ids : i \in 0 .. MaxRows
    BY BoundAssumption DEF AccountsInv, AccountsTypeOK, Ids
  <2>2. ASSUME NEW e \in Emails, NEW p \in Passwords, Register(r, e, p) \/ Login(r, e, p)
        PROVE  AccountsInv'
    BY <2>1, <2>2, StartStep DEF Register, Login
  <2>3. ASSUME NEW i \in Ids, NEW e \in Emails \cup {Unset}, NEW p \in Passwords \cup {Unset},
               Update(r, i, e, p)
        PROVE  AccountsInv'
    BY <2>1, <2>3, StartStep DEF Update
  <2>4. ASSUME NEW i \in Ids, Delete(r, i) \/ Restore(r, i)
        PROVE  AccountsInv'
    BY <2>1, <2>4, StartStep DEF Delete, Restore
  <2>5. QED
    BY <1>2, <2>2, <2>3, <2>4 DEF Arrive
<1>3. ASSUME NEW r \in Requests, RequestStep(r)
      PROVE  AccountsInv'
  BY <1>3, FindExistingStep, CreateStep, FindLoginStep, FindByPkStep, SaveStep, AnswerStep
  DEF RequestStep
<1>4. QED
  BY <1>1, <1>2, <1>3 DEF AccountsNext

\* No customer and no request yet.
LEMMA InitInv == AccountsInit => AccountsInv
<1> SUFFICES ASSUME AccountsInit PROVE AccountsInv
  OBVIOUS
<1>1. rows = <<>> /\ chosen = <<>> /\ tokens = {} /\ req = [r \in Requests |-> NoRequest]
  BY DEF AccountsInit
<1>2. Len(rows) = 0 /\ Len(chosen) = 0 /\ rows \in Seq(CustomerRows) /\ chosen \in Seq(Passwords)
  BY <1>1
<1>3. AccountsTypeOK
  BY <1>1, <1>2, BoundAssumption DEF AccountsTypeOK, Ids
<1>4. Unique(rows) /\ LastPasswordWorks
  BY <1>2 DEF Unique, LastPasswordWorks, Ids
<1>5. \A r \in Requests : RequestOK(req[r], rows)
  BY <1>1 DEF RequestOK, NoRequest
<1>6. QED
  BY <1>2, <1>3, <1>4, <1>5 DEF AccountsInv

\* The inductive invariant: distinct emails, passwords hashed once, and flags
\* that know what each open request has seen.
THEOREM AccountsInvHolds == AccountsSpec => []AccountsInv
BY InitInv, InvStep, PTL DEF AccountsSpec

\* However the requests interleave, a granted request could be granted at some
\* time between its arrival and its answer, and a refused one could not.
THEOREM EveryAnswerJustified == AccountsSpec => []AnswersJustified
<1>1. AccountsInv => AnswersJustified
  <2> SUFFICES ASSUME AccountsInv, NEW r \in Requests, req[r] # NoRequest
               PROVE  Justified(req[r])
    BY DEF AnswersJustified, Justified
  <2>1. req[r] \in Asked /\ RequestOK(req[r], rows)
    BY DEF AccountsInv, AccountsTypeOK
  <2>2. QED
    BY <2>1, AskedFacts DEF RequestOK
<1>2. QED
  BY <1>1, AccountsInvHolds, PTL

\* The unique index, checked by the statements themselves, keeps every email
\* with one customer, and every variable keeps its type.
THEOREM OneHolder == AccountsSpec => []EmailHeldOnce
<1>1. AccountsInv => EmailHeldOnce
  BY DEF AccountsInv, EmailHeldOnce, Unique, Ids
<1>2. QED
  BY <1>1, AccountsInvHolds, PTL

\* The password a customer set last, hashed once, is the one that logs them in.
THEOREM LastOneWorks == AccountsSpec => []LastPasswordWorks
<1>1. AccountsInv => LastPasswordWorks
  BY DEF AccountsInv
<1>2. QED
  BY <1>1, AccountsInvHolds, PTL
=============================================================================
