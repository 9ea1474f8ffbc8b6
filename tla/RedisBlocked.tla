---------------------------- MODULE RedisBlocked ----------------------------
(***************************************************************************)
(* Clients blocked on lists in the Redis server (blocked.c, t_list.c): the *)
(* workers of both Bull queues wait for jobs in BRPOPLPUSH wait active,    *)
(* and jobs arrive from scripts that push, move and delete several lists   *)
(* as one command.                                                         *)
(*                                                                         *)
(* The server is one thread.  A command runs to its end, then the keys it  *)
(* made ready are handled; only then does the event loop look at other     *)
(* clients and at timeouts.  The model takes one step for each operation   *)
(* of a script and for each blocked client looked at.  A list that becomes *)
(* empty is deleted, so an empty sequence is a key that does not exist.    *)
(***************************************************************************)
EXTENDS SequencesExt

CONSTANTS
    Keys, Clients, Elements,
    MaxOps,   \* bound: list operations of one script
    None

Commands == [src : Keys, dst : Keys]

ASSUME BoundAssumption == MaxOps \in Nat
ASSUME NoneAssumption == None \notin Commands

VARIABLES
    list,      \* the list at each key, head first
    blocking,  \* db->blocking_keys: who waits on each key, in order
    want,      \* the command a blocked client waits to run again
    ready,     \* server.ready_keys: keys to handle, in order
    readySet,  \* db->ready_keys: the same keys, as a set
    running,   \* the ready list that handleClientsBlockedOnKeys took over
    turn,      \* clients of the first key of running still to be looked at
    ops,       \* operations the running script has left
    ahead,     \* history: clients that waited on the key before this one did
    overtook,  \* history: clients that took an element from under those ahead
    alive      \* history: elements pushed and not deleted

waiting == <<blocking, want>>
handling == <<ready, readySet, running, turn>>
history == <<ahead, overtook, alive>>
vars == <<list, waiting, handling, ops, history>>

Idle == ready = <<>> /\ running = <<>> /\ ops = 0

Init ==
    /\ list = [k \in Keys |-> <<>>]
    /\ blocking = [k \in Keys |-> <<>>] /\ want = [c \in Clients |-> None]
    /\ ready = <<>> /\ readySet = {} /\ running = <<>> /\ turn = <<>>
    /\ ops = 0 /\ ahead = [c \in Clients |-> {}] /\ overtook = {}
    /\ alive = {}
-----------------------------------------------------------------------------
(* Lists                                                                     *)

\* lmoveGenericCommand from the tail of s to the head of d, which may be s.
MovedTwice(ls, s, d) ==
    [ls EXCEPT ![s] = Front(ls[s]), ![d] = <<Last(ls[s])>> \o ls[d]]

Moved(ls, s, d) ==
    LET popped == [ls EXCEPT ![s] = Front(@)]
    IN  [popped EXCEPT ![d] = <<Last(ls[s])>> \o @]

signalAlways(k, created) ==
    IF created /\ blocking[k] # <<>>
    THEN ready' = Append(ready, k) /\ readySet' = readySet \cup {k}
    ELSE UNCHANGED <<ready, readySet>>

\* dbAdd creates the key: it is signalled, once, when someone waits on it.
signalKeyAsReady(k, created) ==
    IF created /\ blocking[k] # <<>> /\ k \notin readySet
    THEN ready' = Append(ready, k) /\ readySet' = readySet \cup {k}
    ELSE UNCHANGED <<ready, readySet>>

lmoveSilently(s, d) == list' = Moved(list, s, d) /\ UNCHANGED <<ready, readySet>>

\* A popped list is still there while its element goes back to it.
lmove(s, d) == list' = Moved(list, s, d) /\ signalKeyAsReady(d, list[d] = <<>>)

-----------------------------------------------------------------------------
(* Scripts and plain commands of clients that do not block                   *)

Script(n) == Idle /\ ops' = n /\ UNCHANGED <<list, waiting, handling, history>>

\* A script may return early.
Return == ops > 0 /\ ops' = 0 /\ UNCHANGED <<list, waiting, handling, history>>

Operation == ops > 0 /\ ops' = ops - 1 /\ UNCHANGED <<waiting, running, turn, ahead, overtook>>

lpush(k, e) ==
    /\ Operation
    /\ e \notin alive /\ alive' = alive \cup {e}
    /\ list' = [list EXCEPT ![k] = <<e>> \o @]
    /\ signalKeyAsReady(k, list[k] = <<>>)

rpoplpush(s, d) == Operation /\ list[s] # <<>> /\ lmove(s, d) /\ UNCHANGED alive

\* DEL does not wake clients of a list: they wait for one to appear.
del(k) ==
    /\ Operation /\ list[k] # <<>>
    /\ list' = [list EXCEPT ![k] = <<>>] /\ alive' = alive \ Range(list[k])
    /\ UNCHANGED <<ready, readySet>>
-----------------------------------------------------------------------------
(* Blocking commands                                                         *)

\* Client c takes an element: those still ahead of it have been overtaken.
Take(c, s, d, others) ==
    /\ lmove(s, d)
    /\ overtook' = overtook \cup (IF others = {} THEN {} ELSE {c})

\* The clients no longer wait for c.
Left(c) == [x \in Clients |-> IF x = c THEN {} ELSE ahead[x] \ {c}]

blockForKeysAtHead(c, s) == blocking' = [blocking EXCEPT ![s] = <<c>> \o @]

blockForKeys(c, s) == blocking' = [blocking EXCEPT ![s] = Append(@, c)]

brpoplpush(c, s, d) ==
    /\ Idle /\ want[c] = None
    /\ IF list[s] = <<>>
       THEN /\ blockForKeys(c, s)
            /\ want' = [want EXCEPT ![c] = [src |-> s, dst |-> d]]
            /\ ahead' = [ahead EXCEPT ![c] = Range(blocking[s])]
            /\ UNCHANGED <<list, ready, readySet, overtook>>
       ELSE Take(c, s, d, Range(blocking[s])) /\ UNCHANGED <<waiting, ahead>>
    /\ UNCHANGED <<running, turn, ops, alive>>

\* unblockClient, unblockClientWaitingData, releaseBlockedEntry
unblockClient(c) ==
    /\ blocking' = [blocking EXCEPT ![want[c].src] = RemoveFirst(@, c)]
    /\ want' = [want EXCEPT ![c] = None]

\* A blocked client times out or its connection closes.
unblockClientOnTimeout(c) ==
    /\ Idle /\ want[c] # None
    /\ unblockClient(c) /\ ahead' = Left(c)
    /\ UNCHANGED <<list, handling, ops, overtook, alive>>
-----------------------------------------------------------------------------
(* handleClientsBlockedOnKeys                                                *)

\* It takes over the ready list, and starts on the first key.
TakeOver ==
    /\ ops = 0 /\ running = <<>> /\ ready # <<>>
    /\ running' = ready /\ ready' = <<>>
    /\ readySet' = readySet \ {Head(ready)}
    /\ turn' = blocking[Head(ready)]
    /\ UNCHANGED <<list, waiting, ops, history>>

\* The next client runs its command again if the list is there.
handleClientsBlockedOnKey ==
    LET c == Head(turn) IN
    /\ running # <<>> /\ turn # <<>>
    /\ turn' = Tail(turn)
    /\ IF list[Head(running)] # <<>>
       THEN /\ unblockClient(c) /\ ahead' = Left(c)
            /\ Take(c, want[c].src, want[c].dst, ahead[c])
       ELSE UNCHANGED <<list, waiting, ready, readySet, ahead, overtook>>
    /\ UNCHANGED <<running, ops, alive>>

NextKeyWhenNobodyWaits ==
    LET rest == Tail(running) IN
    /\ running # <<>> /\ turn = <<>>
    /\ IF blocking[Head(running)] # <<>>
       THEN turn' = blocking[Head(running)] /\ UNCHANGED <<running, readySet>>
       ELSE /\ running' = rest
            /\ IF rest = <<>> THEN UNCHANGED <<readySet, turn>>
               ELSE readySet' = readySet \ {Head(rest)} /\ turn' = blocking[Head(rest)]
    /\ UNCHANGED <<list, waiting, ready, ops, history>>

\* Every client of the key has been looked at: on to the next ready key.
NextKey ==
    LET rest == Tail(running) IN
    /\ running # <<>> /\ turn = <<>>
    /\ running' = rest
    /\ IF rest = <<>> THEN UNCHANGED <<readySet, turn>>
       ELSE readySet' = readySet \ {Head(rest)} /\ turn' = blocking[Head(rest)]
    /\ UNCHANGED <<list, waiting, ready, ops, history>>

Handle == TakeOver \/ handleClientsBlockedOnKey \/ NextKey

Next ==
    \/ Handle
    \/ \E n \in 1 .. MaxOps : Script(n)
    \/ Return
    \/ \E k \in Keys : del(k) \/ \E e \in Elements : lpush(k, e)
    \/ \E s, d \in Keys : rpoplpush(s, d) \/ \E c \in Clients : brpoplpush(c, s, d)
    \/ \E c \in Clients : unblockClientOnTimeout(c)

Spec == Init /\ [][Next]_vars

\* The server's thread goes on with the command it is in.
FairSpec == Spec /\ WF_vars(Handle)
-----------------------------------------------------------------------------

Typed ==
    /\ list \in [Keys -> Seq(Elements)]
    /\ blocking \in [Keys -> Seq(Clients)] /\ want \in [Clients -> Commands \cup {None}]
    /\ ready \in Seq(Keys) /\ running \in Seq(Keys) /\ turn \in Seq(Clients)
    /\ ops \in 0 .. MaxOps
    /\ ahead \in [Clients -> SUBSET Clients] /\ overtook \subseteq Clients
    /\ alive \subseteq Elements

\* Every variable is in its type; a client is queued once on the key it waits
\* for and nowhere else, and a key waits to be handled once.
TypeOK ==
    /\ Typed
    /\ \A k \in Keys :
        /\ Range(blocking[k]) = {c \in Clients : want[c] # None /\ want[c].src = k}
        /\ IsInjective(blocking[k])
    /\ IsInjective(ready)
    /\ readySet = Range(ready) \cup (IF running = <<>> THEN {} ELSE Range(Tail(running)))

\* No wakeup is lost: when the server turns to its event loop, nobody waits on
\* a list that has elements, although only the first push of a list signals.
NoLostWakeup == Idle => \A k \in Keys : list[k] # <<>> => blocking[k] = <<>>

\* Whoever takes an element takes it after everybody who waited on that list
\* before: not one who comes later, nor one handled out of turn.
FirstComeFirstServed == overtook = {}

\* Moves neither lose nor copy an element, a list moved onto itself included.
OneCopy ==
    /\ alive = UNION {Range(list[k]) : k \in Keys}
    /\ \A k \in Keys :
        /\ IsInjective(list[k])
        /\ \A j \in Keys \ {k} : Range(list[k]) \cap Range(list[j]) = {}

\* Handling comes to an end, moves that make other keys ready included.
HandlingEnds == (running # <<>>) ~> Idle
=============================================================================
