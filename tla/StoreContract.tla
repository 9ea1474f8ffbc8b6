--------------------------- MODULE StoreContract ---------------------------
(***************************************************************************)
(* What the program counts on from its Redis server: a map whose entries   *)
(* vanish at their deadline, read and written one command at a time, that  *)
(* comes back from a stop as one of the images taken of the whole map.     *)
(* There is no lazy deletion, no save counter and no child process here;   *)
(* RedisStore is shown to implement this.                                  *)
(***************************************************************************)
EXTENDS Naturals

CONSTANTS
    Keys, Values,
    Ttls,       \* lifetimes a SET may ask for, None for none
    None

VARIABLES
    now,
    up,
    map,     \* what each key holds: a value and the last instant it is there
    images,  \* images of the map that are being written
    saved,   \* the image a start would load
    reply    \* the answer to the last command

vars == <<now, up, map, images, saved, reply>>

Till(t, ttl) == IF ttl = None THEN None ELSE t + ttl

\* A map at time t, without what has run out by then.
Live(m, t) ==
    [k \in Keys |-> IF m[k] # None /\ (m[k].till # None => t <= m[k].till)
                    THEN m[k] ELSE None]

Empty == [k \in Keys |-> None]

Init ==
    /\ now = 0 /\ up = TRUE /\ map = Empty
    /\ images = {} /\ saved = Empty /\ reply = None

Tick ==
    /\ now' = now + 1
    /\ map' = Live(map, now') /\ saved' = Live(saved, now')
    /\ images' = {Live(m, now') : m \in images}
    /\ UNCHANGED <<up, reply>>

Set(k, v, ttl) ==
    /\ up
    /\ map' = [map EXCEPT ![k] = [val |-> v, till |-> Till(now, ttl)]]
    /\ reply' = "OK"
    /\ UNCHANGED <<now, up, images, saved>>

Del(k) ==
    /\ up
    /\ map' = [map EXCEPT ![k] = None]
    /\ reply' = IF map[k] = None THEN "absent" ELSE "deleted"
    /\ UNCHANGED <<now, up, images, saved>>

Get(k) ==
    /\ up
    /\ reply' = IF map[k] = None THEN None ELSE map[k].val
    /\ UNCHANGED <<now, up, map, images, saved>>

\* A write may be turned away, and then does nothing.
Refuse ==
    /\ up /\ reply' = "MISCONF"
    /\ UNCHANGED <<now, up, map, images, saved>>

\* An image is taken of the whole map at one instant.
TakeImage ==
    /\ up /\ images' = images \cup {map}
    /\ UNCHANGED <<now, up, map, saved, reply>>

\* Images become the saved one in a single step, or are given up.
SaveImage ==
    /\ saved' \in images /\ images' \in {images, images \ {saved'}}
    /\ UNCHANGED <<now, up, map, reply>>

DropImage ==
    /\ \E m \in images : images' = images \ {m}
    /\ UNCHANGED <<now, up, map, saved, reply>>

\* A stop that was asked for saves the map and gives up its images; one that
\* fails on the way may have saved it, too.
Shutdown ==
    /\ up
    /\ \/ up' = FALSE /\ map' = Empty /\ saved' = map
       \/ UNCHANGED <<up, map>> /\ saved' \in {saved, map}
    /\ \E gone \in SUBSET images : images' = images \ gone
    /\ UNCHANGED <<now, reply>>

Crash ==
    /\ up /\ up' = FALSE /\ map' = Empty
    /\ \E gone \in SUBSET images : images' = images \ gone
    /\ UNCHANGED <<now, saved, reply>>

Restart ==
    /\ ~up /\ up' = TRUE /\ map' = saved
    /\ UNCHANGED <<now, images, saved, reply>>

Next ==
    \/ Tick \/ Refuse \/ TakeImage \/ SaveImage \/ DropImage
    \/ Shutdown \/ Crash \/ Restart
    \/ \E k \in Keys : Del(k) \/ Get(k)
    \/ \E k \in Keys, v \in Values, ttl \in Ttls : Set(k, v, ttl)

Spec == Init /\ [][Next]_vars
=============================================================================
