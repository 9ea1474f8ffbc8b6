------------------------------ MODULE Accounts ------------------------------
(***************************************************************************)
(* Customer accounts: registerCustomer and loginCustomer                   *)
(* (controllers/authController.js), the handlers of                        *)
(* controllers/customerController.js behind authenticateCustomer, and the  *)
(* hooks that hash a password (hooks/customerHooks.js).                    *)
(*                                                                         *)
(* Every await is a step of its own: bcrypt runs on a thread pool and the  *)
(* statements on different connections, so requests interleave there.  A   *)
(* statement is atomic, and the unique index on customers.email is checked *)
(* by the statement itself.                                                *)
(*                                                                         *)
(* No statement of the program removes a row or sets deleted_at:           *)
(* softDeleteCustomer throws before it gets there.  A row has no such      *)
(* column here, and restoreCustomer finds a live row and writes nothing.   *)
(***************************************************************************)
EXTENDS Naturals, Sequences

CONSTANTS
    Emails, Passwords,
    Requests,   \* requests handled at a time
    MaxRows,    \* bound: customers
    Unset       \* a field the request does not send, a row not read yet

ASSUME UnsetAssumption == Unset \notin Emails \cup Passwords
ASSUME BoundAssumption == MaxRows \in Nat

VARIABLES
    rows,    \* customers: rows[id]
    tokens,  \* ids for which a token was issued
    req,     \* what each request asked for and where it is
    chosen   \* history: the password each customer set last

accountsVars == <<rows, tokens, req, chosen>>

Ids == 1 .. Len(rows)

\* A password as stored: what was chosen and how often it went through bcrypt.
Plain(p) == [pw |-> p, times |-> 0]
hash(s) == [s EXCEPT !.times = @ + 1]
compare(p, s) == s = hash(Plain(p))

NoRequest == [pc |-> "idle"]
AccountsInit == rows = <<>> /\ tokens = {} /\ req = [r \in Requests |-> NoRequest] /\ chosen = <<>>

\* What must hold of the customers for request q to be granted.
Grantable(q, rs) ==
    IF q.op = "login"
    THEN \E i \in DOMAIN rs : rs[i].email = q.email /\ compare(q.pw, rs[i].secret)
    ELSE \A i \in DOMAIN rs : rs[i].email = q.email => i = q.id

\* The requests under way when the customers become rs.
Watch(rq, rs) ==
    [r \in Requests |->
        IF rq[r].pc \in {"find", "hash", "save"}
        THEN [rq[r] EXCEPT !.ever = @ \/ Grantable(rq[r], rs),
                           !.always = @ /\ Grantable(rq[r], rs)]
        ELSE rq[r]]

MoveTo(r, pc) == [req EXCEPT ![r].pc = pc]

Start(r, op, i, e, p) ==
    LET q == [op |-> op, id |-> i, email |-> e, pw |-> p] IN
    /\ req[r] = NoRequest
    /\ req' = [req EXCEPT ![r] =
            [pc |-> "find", op |-> op, id |-> i, email |-> e, pw |-> p, read |-> Unset,
             ever |-> Grantable(q, rows), always |-> Grantable(q, rows)]]
    /\ UNCHANGED <<rows, tokens, chosen>>

-----------------------------------------------------------------------------
(* registerCustomer                                                          *)

Register(r, e, p) == Start(r, "register", 0, e, p)

\* Customer.findOne, soft-deleted rows included.
FindExisting(r) ==
    /\ req[r].pc = "find" /\ req[r].op = "register"
    /\ req' = MoveTo(r, IF \E i \in Ids : rows[i].email = req[r].email
                        THEN "refused" ELSE "save")
    /\ UNCHANGED <<rows, tokens, chosen>>

CreateUnindexed(r) ==
    LET row == [email |-> req[r].email, secret |-> hash(Plain(req[r].pw))] IN
    /\ req[r].pc = "save" /\ req[r].op = "register"
    /\ Len(rows) < MaxRows
    /\ rows' = Append(rows, row)
    /\ req' = [Watch(req, rows') EXCEPT ![r] = MoveTo(r, "granted")[r]]
    /\ chosen' = Append(chosen, req[r].pw)
    /\ UNCHANGED tokens

\* Customer.create: beforeCreate hashes the password, then INSERT, which the
\* unique index refuses when another request has inserted the email since.
Create(r) ==
    LET row == [email |-> req[r].email, secret |-> hash(Plain(req[r].pw))] IN
    /\ req[r].pc = "save" /\ req[r].op = "register"
    /\ \/ /\ \E i \in Ids : rows[i].email = row.email
          /\ req' = MoveTo(r, "refused")
          /\ UNCHANGED <<rows, chosen>>
       \/ /\ \A i \in Ids : rows[i].email # row.email
          /\ Len(rows) < MaxRows
          /\ rows' = Append(rows, row)
          /\ req' = [Watch(req, rows') EXCEPT ![r] = MoveTo(r, "granted")[r]]
          /\ chosen' = Append(chosen, req[r].pw)
    /\ UNCHANGED tokens

-----------------------------------------------------------------------------
(* loginCustomer                                                             *)

Login(r, e, p) == Start(r, "login", 0, e, p)

FindLogin(r) ==
    LET found == {i \in Ids : rows[i].email = req[r].email} IN
    /\ req[r].pc = "find" /\ req[r].op = "login"
    /\ \/ found = {} /\ req' = MoveTo(r, "refused")
       \/ \E i \in found : req' = [req EXCEPT ![r].pc = "hash", ![r].id = i,
                                              ![r].read = rows[i]]
    /\ UNCHANGED <<rows, tokens, chosen>>

CompareNothing(r) ==
    /\ req[r].pc = "hash" /\ req[r].op = "login"
    /\ req' = MoveTo(r, "granted")
    /\ tokens' = tokens \cup {req[r].id}
    /\ UNCHANGED <<rows, chosen>>

\* bcrypt.compare with the row that was read, then jwt.sign.
Compare(r) ==
    LET match == compare(req[r].pw, req[r].read.secret) IN
    /\ req[r].pc = "hash" /\ req[r].op = "login"
    /\ req' = MoveTo(r, IF match THEN "granted" ELSE "refused")
    /\ tokens' = IF match THEN tokens \cup {req[r].id} ELSE tokens
    /\ UNCHANGED <<rows, chosen>>

-----------------------------------------------------------------------------
(* updateCustomer (PUT, every field) and patchCustomer (any of them)         *)

Update(r, i, e, p) == i \in tokens /\ Start(r, "update", i, e, p)

\* authenticateCustomer and Customer.findByPk.
FindByPk(r) ==
    /\ req[r].pc = "find" /\ req[r].op \in {"update", "delete", "restore"}
    /\ req' = [req EXCEPT ![r].pc = "save", ![r].read = rows[req[r].id]]
    /\ UNCHANGED <<rows, tokens, chosen>>

\* beforeUpdate: the password is hashed if it was set, and it is never equal to
\* the hash that was read.
beforeUpdate(q) == IF q.pw # Unset THEN hash(Plain(q.pw)) ELSE q.read.secret

SaveWhole(r) ==
    LET q == req[r]
        new == [email |-> IF q.email # Unset THEN q.email ELSE q.read.email,
                secret |-> beforeUpdate(q)]
    IN
    /\ q.pc = "save" /\ q.op = "update"
    /\ \A i \in Ids \ {q.id} : rows[i].email # new.email
    /\ rows' = [rows EXCEPT ![q.id] = new]
    /\ req' = [Watch(req, rows') EXCEPT ![r] = MoveTo(r, "granted")[r]]
    /\ chosen' = IF q.pw # Unset THEN [chosen EXCEPT ![q.id] = q.pw] ELSE chosen
    /\ UNCHANGED tokens

\* customer.update: UPDATE by id of the columns that differ from the row that
\* was read, refused by the unique index if another customer has the email.
Save(r) ==
    LET q == req[r]
        now == rows[q.id]
        secret == beforeUpdate(q)
        new == [email |-> IF q.email \in {Unset, q.read.email} THEN now.email ELSE q.email,
                secret |-> IF secret = q.read.secret /\ q.pw = Unset THEN now.secret ELSE secret]
    IN
    /\ q.pc = "save" /\ q.op = "update"
    /\ \/ /\ \E i \in Ids \ {q.id} : rows[i].email = new.email
          /\ req' = MoveTo(r, "refused")
          /\ UNCHANGED <<rows, chosen>>
       \/ /\ \A i \in Ids \ {q.id} : rows[i].email # new.email
          /\ rows' = [rows EXCEPT ![q.id] = new]
          /\ req' = [Watch(req, rows') EXCEPT ![r] = MoveTo(r, "granted")[r]]
          /\ chosen' = IF q.pw # Unset THEN [chosen EXCEPT ![q.id] = q.pw] ELSE chosen
    /\ UNCHANGED tokens

-----------------------------------------------------------------------------
(* softDeleteCustomer and restoreCustomer                                    *)

Delete(r, i) == i \in tokens /\ Start(r, "delete", i, Unset, Unset)
Restore(r, i) == i \in tokens /\ Start(r, "restore", i, Unset, Unset)

\* The condition of Order.count names Op, which the file never imports: the
\* ReferenceError is caught and answered with a 500.
CountUndelivered(r) ==
    /\ req[r].pc = "save" /\ req[r].op = "delete"
    /\ req' = MoveTo(r, "failed")
    /\ UNCHANGED <<rows, tokens, chosen>>

\* customer.restore of a row that is not deleted has nothing to save.
RestoreLive(r) ==
    /\ req[r].pc = "save" /\ req[r].op = "restore"
    /\ req' = MoveTo(r, "granted")
    /\ UNCHANGED <<rows, tokens, chosen>>

-----------------------------------------------------------------------------
\* PostgreSQL or bcrypt fails: a 500, and nothing was written.
Fail(r) ==
    /\ req[r].pc \in {"find", "hash", "save"}
    /\ req' = MoveTo(r, "failed")
    /\ UNCHANGED <<rows, tokens, chosen>>

\* The client has its answer.
Done(r) ==
    /\ req[r].pc \in {"granted", "refused", "failed"}
    /\ req' = [req EXCEPT ![r] = NoRequest]
    /\ UNCHANGED <<rows, tokens, chosen>>

Arrive(r) ==
    \/ \E e \in Emails, p \in Passwords : Register(r, e, p) \/ Login(r, e, p)
    \/ \E i \in Ids, e \in Emails \cup {Unset}, p \in Passwords \cup {Unset} : Update(r, i, e, p)
    \/ \E i \in Ids : Delete(r, i) \/ Restore(r, i)

RequestStep(r) ==
    \/ FindExisting(r) \/ Create(r)
    \/ FindLogin(r) \/ Compare(r)
    \/ FindByPk(r) \/ Save(r) \/ CountUndelivered(r) \/ RestoreLive(r)
    \/ Fail(r) \/ Done(r)

AccountsNext == \E r \in Requests : Arrive(r) \/ RequestStep(r)
AccountsSpec == AccountsInit /\ [][AccountsNext]_accountsVars

-----------------------------------------------------------------------------
Secrets == [pw : Passwords, times : 0 .. 1]
CustomerRows == [email : Emails, secret : Secrets]
Asked ==
    [pc : {"find", "hash", "save", "granted", "refused", "failed"},
     op : {"register", "login", "update", "delete", "restore"},
     id : 0 .. MaxRows, email : Emails \cup {Unset}, pw : Passwords \cup {Unset},
     read : CustomerRows \cup {Unset}, ever : BOOLEAN, always : BOOLEAN]

\* Every variable stays in its type.
AccountsTypeOK ==
    /\ rows \in Seq(CustomerRows) /\ Len(rows) <= MaxRows
    /\ chosen \in Seq(Passwords)
    /\ tokens \subseteq Ids
    /\ req \in [Requests -> {NoRequest} \cup Asked]

\* However the awaits of several requests interleave, the answer of a register,
\* a login or an update is one the database justified at some moment between
\* the request and the answer: a granted request could be granted at some time,
\* a refused one could not at some time.
AnswersJustified ==
    \A r \in Requests :
        req[r] # NoRequest /\ req[r].op \in {"register", "login", "update"} =>
            /\ req[r].pc = "granted" => req[r].ever
            /\ req[r].pc = "refused" => ~req[r].always

\* Registrations and changes of address that pass their own check at the same
\* time never leave two customers with one email, nor a variable out of its type.
EmailHeldOnce ==
    /\ AccountsTypeOK
    /\ \A i, j \in Ids : rows[i].email = rows[j].email => i = j

\* The password a customer set last is the one that logs them in: it was hashed
\* exactly once, and no update that began before it puts an older one back.
LastPasswordWorks == \A i \in Ids : compare(chosen[i], rows[i].secret)
=============================================================================
