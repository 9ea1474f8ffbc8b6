----------------------------- MODULE RedisStore -----------------------------
(***************************************************************************)
(* The keyspace of the Redis server the program runs beside (under         *)
(* redis-7.2.4): SET with and without EX, DEL and GET, the two ways a key  *)
(* expires, and RDB persistence under the default configuration (save      *)
(* points, stop-writes-on-bgsave-error, no append-only file).              *)
(*                                                                         *)
(* Commands and cron run on one thread, a command at a time.  The forked   *)
(* child of a background save and the clock run beside it.  A save point's *)
(* seconds and the retry delay only say when serverCron saves: here it may *)
(* at any time there is a change to save.                                  *)
(***************************************************************************)
EXTENDS Naturals

CONSTANTS
    Keys, Values,
    Ttls,        \* lifetimes of SET ... EX, None for a SET without
    MaxNow,      \* bound: the clock
    MaxWrites,   \* bound: changes of the keyspace
    MaxCrashes,  \* bound: crashes
    None

ASSUME TtlsAssumption == Ttls \subseteq Nat \cup {None}
ASSUME BoundAssumption == MaxNow \in Nat /\ MaxWrites \in Nat /\ MaxCrashes \in Nat

\* A key as clients see it, the keyspace as a file holds it, a saving child.
Entries == [val : Values, till : Nat \cup {None}]
Images == [dict : [Keys -> Values \cup {None}], expires : [Keys -> Nat \cup {None}],
           ver : 0 .. MaxWrites]
Children == [image : Images, before : 1 .. MaxWrites,
             pc : {"saving", "renamed", "ok", "failed", "killed"}]

ASSUME NoneAssumption == None \notin Values \cup Nat \cup Entries \cup Images \cup Children

VARIABLES
    now,
    up,
    dict,        \* db->dict: the value of each key, expired ones included
    expires,     \* db->expires: the last instant of each key
    dirty,       \* server.dirty: changes since the last save
    status,      \* server.lastbgsave_status
    child,       \* the saving child: its copy of the keyspace and where it is
    rdb,         \* the dump file
    reply,       \* the answer to the last command
    ver,         \* history: changes made to the keyspace in memory
    orphan,      \* a child that outlived its server
    overwritten, \* history: an orphan replaced the file under a running server
    clean,       \* history: the server was shut down and left no child behind
    crashes

server == <<dict, expires, dirty, status, ver>>
history == <<overwritten, clean, crashes>>
vars == <<now, up, server, child, rdb, reply, orphan, history>>

NoKeys == [k \in Keys |-> None]
Image == [dict |-> dict, expires |-> expires, ver |-> ver]
Blank == [dict |-> NoKeys, expires |-> NoKeys, ver |-> 0]

Init ==
    /\ now = 0 /\ up = TRUE
    /\ dict = NoKeys /\ expires = NoKeys /\ dirty = 0 /\ status = "ok" /\ ver = 0
    /\ child = None /\ rdb = Blank /\ reply = None
    /\ orphan = None /\ overwritten = FALSE /\ clean = FALSE /\ crashes = 0

-----------------------------------------------------------------------------
(* Expiry                                                                    *)

keyIsExpired(k) == expires[k] # None /\ now > expires[k]

dbGenericDelete(k) ==
    /\ dict' = [dict EXCEPT ![k] = None]
    /\ expires' = [expires EXCEPT ![k] = None]

Tick ==
    /\ now < MaxNow /\ now' = now + 1
    /\ UNCHANGED <<up, server, child, rdb, reply, orphan, history>>

\* The background cycle deletes a key it samples; server.dirty does not count it.
activeExpireCycle(k) ==
    /\ up /\ keyIsExpired(k)
    /\ dbGenericDelete(k)
    /\ UNCHANGED <<now, up, dirty, status, ver, child, rdb, reply, orphan, history>>

-----------------------------------------------------------------------------
(* Commands                                                                  *)

writeCommandsDeniedByDiskError == status = "err"

Changed == ver < MaxWrites /\ dirty' = dirty + 1 /\ ver' = ver + 1

setKeyKeepTtl(k, v) ==
    /\ dict' = [dict EXCEPT ![k] = v]
    /\ UNCHANGED expires

setKey(k, v) ==
    /\ dict' = [dict EXCEPT ![k] = v]
    /\ expires' = [expires EXCEPT ![k] = None]

setExpire(k, v, ttl) ==
    /\ dict' = [dict EXCEPT ![k] = v]
    /\ expires' = [expires EXCEPT ![k] = now + ttl]

setCommand(k, v, ttl) ==
    /\ up /\ ~writeCommandsDeniedByDiskError
    /\ IF ttl = None THEN setKey(k, v) ELSE setExpire(k, v, ttl)
    /\ Changed /\ reply' = "OK"
    /\ UNCHANGED <<now, up, status, child, rdb, orphan, history>>

\* DEL expires the key first: one that has run out counts as not there.
delCommand(k) ==
    /\ up /\ ~writeCommandsDeniedByDiskError
    /\ dbGenericDelete(k)
    /\ IF dict[k] = None \/ keyIsExpired(k)
       THEN reply' = "absent" /\ UNCHANGED <<dirty, ver>>
       ELSE reply' = "deleted" /\ Changed
    /\ UNCHANGED <<now, up, status, child, rdb, orphan, history>>

getCommand(k) ==
    /\ up
    /\ IF keyIsExpired(k)
       THEN dbGenericDelete(k) /\ reply' = None
       ELSE reply' = dict[k] /\ UNCHANGED <<dict, expires>>
    /\ UNCHANGED <<now, up, dirty, status, ver, child, rdb, orphan, history>>

\* A write command that finds the last background save failed.
Refused ==
    /\ up /\ writeCommandsDeniedByDiskError /\ reply' = "MISCONF"
    /\ UNCHANGED <<now, up, server, child, rdb, orphan, history>>
-----------------------------------------------------------------------------
(* Background save                                                           *)

AtSavePointLate == up /\ child = None /\ dirty > 1

\* serverCron: no child is running and there are changes to save.
AtSavePoint == up /\ child = None /\ dirty >= 1

rdbSaveBackground ==
    /\ AtSavePoint
    /\ child' = [image |-> Image, before |-> dirty, pc |-> "saving"]
    /\ UNCHANGED <<now, up, server, rdb, reply, orphan, history>>

ForkFails ==
    /\ AtSavePoint
    /\ status' = "err"
    /\ UNCHANGED <<now, up, dict, expires, dirty, ver, child, rdb, reply, orphan, history>>

\* In the child: the temporary file is complete and takes the dump's name.
rdbSave ==
    /\ child # None /\ child.pc = "saving"
    /\ rdb' = child.image /\ child' = [child EXCEPT !.pc = "renamed"]
    /\ overwritten' = FALSE
    /\ UNCHANGED <<now, up, server, reply, orphan, clean, crashes>>

ChildExits ==
    /\ child # None /\ child.pc = "renamed"
    /\ child' = [child EXCEPT !.pc = "ok"]
    /\ UNCHANGED <<now, up, server, rdb, reply, orphan, history>>

\* A write fails before the rename, or the directory's fsync after it.
ChildFails ==
    /\ child # None /\ child.pc \in {"saving", "renamed"}
    /\ child' = [child EXCEPT !.pc = "failed"]
    /\ UNCHANGED <<now, up, server, rdb, reply, orphan, history>>

dirtyAfterSaveZero == IF child.pc = "ok" THEN 0 ELSE dirty

\* What the child did not see stays dirty.
dirtyAfterSave == IF child.pc = "ok" THEN dirty - child.before ELSE dirty

statusAfterSaveSticks == IF child.pc = "failed" THEN "err" ELSE status

statusAfterSave ==
    CASE child.pc = "ok" -> "ok" [] child.pc = "failed" -> "err" [] OTHER -> status

\* checkChildrenDone
backgroundSaveDoneHandler ==
    /\ up /\ child # None /\ child.pc \in {"ok", "failed", "killed"}
    /\ child' = None
    /\ dirty' = dirtyAfterSave /\ status' = statusAfterSave
    /\ UNCHANGED <<now, up, dict, expires, ver, rdb, reply, orphan, history>>
-----------------------------------------------------------------------------
(* Stopping and starting                                                     *)

Forget ==
    /\ up' = FALSE /\ dict' = NoKeys /\ expires' = NoKeys
    /\ dirty' = 0 /\ status' = "ok" /\ ver' = 0 /\ child' = None

killRDBChild ==
    IF child # None /\ child.pc \in {"saving", "renamed"}
    THEN [child EXCEPT !.pc = "killed"] ELSE child

Surviving == IF child # None /\ child.pc = "saving" THEN child.image ELSE None

finishShutdownLeavingChild ==
    /\ up /\ Forget /\ rdb' = Image
    /\ orphan' = IF orphan = None THEN Surviving ELSE orphan
    /\ clean' = (orphan = None) /\ overwritten' = FALSE
    /\ UNCHANGED <<now, reply, crashes>>

\* SIGTERM: the child is killed, then the server saves and exits.  If that
\* save fails, before or after its rename, the server carries on.
finishShutdown ==
    /\ up
    /\ \/ /\ Forget /\ rdb' = Image
          /\ clean' = (orphan = None) /\ overwritten' = FALSE
       \/ /\ \/ UNCHANGED <<rdb, overwritten>>
             \/ rdb' = Image /\ overwritten' = FALSE
          /\ child' = killRDBChild
          /\ UNCHANGED <<up, server, clean>>
    /\ UNCHANGED <<now, reply, orphan, crashes>>

\* The process or its host dies; with the process alone, its child lives on.
Crash ==
    /\ up /\ crashes < MaxCrashes /\ crashes' = crashes + 1
    /\ Forget
    /\ \/ UNCHANGED orphan
       \/ orphan = None /\ Surviving # None /\ orphan' = Surviving
    /\ UNCHANGED <<now, rdb, reply, overwritten, clean>>

OrphanSaves ==
    /\ orphan # None /\ orphan' = None
    /\ rdb' = orphan /\ overwritten' = up
    /\ UNCHANGED <<now, up, server, child, reply, clean, crashes>>

OrphanDies ==
    /\ orphan # None /\ orphan' = None
    /\ UNCHANGED <<now, up, server, child, rdb, reply, history>>

\* A start loads the dump without the keys that ran out in the meantime.
rdbLoad ==
    LET kept(k) == rdb.expires[k] = None \/ now <= rdb.expires[k] IN
    /\ ~up /\ up' = TRUE
    /\ dict' = [k \in Keys |-> IF kept(k) THEN rdb.dict[k] ELSE None]
    /\ expires' = [k \in Keys |-> IF kept(k) THEN rdb.expires[k] ELSE None]
    /\ ver' = rdb.ver /\ dirty' = 0 /\ status' = "ok"
    /\ overwritten' = FALSE /\ clean' = FALSE
    /\ UNCHANGED <<now, child, rdb, reply, orphan, crashes>>

Next ==
    \/ Tick \/ Refused
    \/ rdbSaveBackground \/ ForkFails \/ rdbSave \/ ChildExits \/ ChildFails
    \/ backgroundSaveDoneHandler
    \/ finishShutdown \/ Crash \/ OrphanSaves \/ OrphanDies \/ rdbLoad
    \/ \E k \in Keys : activeExpireCycle(k) \/ delCommand(k) \/ getCommand(k)
    \/ \E k \in Keys, v \in Values, ttl \in Ttls : setCommand(k, v, ttl)

Spec == Init /\ [][Next]_vars

(* serverCron runs as long as the server does, and time brings the save      *)
(* points and retries round.  A save that is tried again and again is        *)
(* assumed to succeed some day.                                              *)
FairSpec ==
    /\ Spec
    /\ WF_vars(rdbSaveBackground) /\ WF_vars(backgroundSaveDoneHandler)
    /\ SF_vars(rdbSave) /\ SF_vars(ChildExits)
-----------------------------------------------------------------------------

\* Every variable stays in its type, and no lifetime outlives its key.
TypeOK ==
    /\ now \in 0 .. MaxNow /\ up \in BOOLEAN
    /\ Image \in Images /\ rdb \in Images /\ orphan \in Images \cup {None}
    /\ child \in Children \cup {None}
    /\ \A k \in Keys : expires[k] # None => dict[k] # None
    /\ dirty \in 0 .. MaxWrites /\ status \in {"ok", "err"}
    /\ overwritten \in BOOLEAN /\ clean \in BOOLEAN /\ crashes \in 0 .. MaxCrashes

\* What a keyspace image shows: the keys in it that have not run out.
View(i) ==
    [k \in Keys |-> IF i.dict[k] # None /\ (i.expires[k] # None => now <= i.expires[k])
                    THEN [val |-> i.dict[k], till |-> i.expires[k]] ELSE None]

\* Changes that no save has covered, one that awaits its reaping included.
Unsaved == dirty - (IF child # None /\ child.pc = "ok" THEN child.before ELSE 0)

\* When the server counts nothing to save, a restart now would bring back what
\* it shows now: deletions by expiry, which it does not count, never matter.
\* Every variable is in its type, and no lifetime outlives its key.
CleanMeansSaved ==
    /\ TypeOK
    /\ up /\ ~overwritten /\ Unsaved = 0 => View(Image) = View(rdb)

\* After a shutdown that completed, no save child of the server that is gone
\* replaces the file that the shutdown wrote.
ShutdownSaveStands == [][~up /\ clean => rdb' = rdb]_vars

\* Every change is in the dump some day, unless the server stops or an orphan
\* puts an older file in its place: that one no save point repairs.
ChangesReachDisk ==
    \A n \in 1 .. MaxWrites : (up /\ ver >= n) ~> (~up \/ rdb.ver >= n \/ overwritten)

\* A server that refuses writes takes them again some day, or stops.
WritesResume == (up /\ status = "err") ~> (~up \/ status = "ok")

\* What the contract speaks of: the keyspace in memory and in the dump, and the
\* images on their way to it.
Memory == View(Image)
Dump == View(rdb)
Pending ==
    {View(i) : i \in {j \in {IF child # None /\ child.pc = "saving" THEN child.image ELSE None,
                              orphan} : j # None}}

\* The server keeps the promise the program counts on.
Contract == INSTANCE StoreContract WITH map <- Memory, saved <- Dump, images <- Pending

\* RedisStore implements StoreContract: a key is read until its deadline and
\* never after, whichever way it is deleted and however the server restarts.
ImplementsContract == Contract!Spec
=============================================================================
