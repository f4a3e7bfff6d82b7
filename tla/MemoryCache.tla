---------------------------- MODULE MemoryCache ----------------------------
(***************************************************************************)
(* memory.MemoryCache, the cache a process can hold instead of Redis: one  *)
(* map of values with deadlines under one lock, so that every call is one  *)
(* step, and a goroutine that throws out what is past its deadline every   *)
(* minute.  now is the clock the calls read.                               *)
(*                                                                         *)
(* A value is a number, as Increment writes it in eight bytes, or not of  *)
(* that length (Text).  Bounds: MaxTime, the clock; MaxTTL; Half, half the *)
(* numbers a counter takes (2^63 in the code); By, what is added.          *)
(***************************************************************************)
EXTENDS Integers

CONSTANTS Keys, Patterns, Text, By, MaxTime, MaxTTL, Half, Yes, No, None

ASSUME MemoryCacheAssumption ==
    /\ Patterns \subseteq SUBSET Keys      \* the keys with a prefix
    /\ MaxTime \in Nat /\ MaxTTL \in Nat /\ Half \in Nat \ {0}
    /\ By \subseteq Int

VARIABLES store, now, reply

vars == <<store, now, reply>>

Numbers == (-Half)..(Half - 1)
Values == Numbers \cup {Text}
Zero == -1     \* the zero time: no deadline
Item == [value : Values, expiration : {Zero} \cup 0..(MaxTime + MaxTTL)]

ASSUME NoneAssumption == None \notin Item /\ None \notin Values /\ Text \notin Int

TypeOK ==
    /\ store \in [Keys -> Item \cup {None}]
    /\ now \in 0..MaxTime

Init ==
    /\ store = [k \in Keys |-> None] /\ now = 0 /\ reply = None

-----------------------------------------------------------------------------
(* The two ways the code looks at a deadline *)

After(item) == item.expiration # Zero /\ now > item.expiration        \* Get, Exists, cleanup
Before(item) == item.expiration = Zero \/ now < item.expiration       \* SetNX, GetMultiple

Expiration(ttl) == IF ttl > 0 THEN now + ttl ELSE Zero
Put(ks, v, ttl) ==
    store' = [k \in Keys |-> IF k \in ks THEN [value |-> v, expiration |-> Expiration(ttl)] ELSE store[k]]

Shown(k) == IF store[k] # None /\ ~After(store[k]) THEN store[k].value ELSE None

\* Get, GetJSON, Exists.
Get(k) == reply' = [j \in {k} |-> Shown(k)] /\ UNCHANGED <<store, now>>

GetMultiple(ks) ==
    /\ reply' = [k \in ks |-> IF store[k] # None /\ Before(store[k]) THEN store[k].value ELSE None]
    /\ UNCHANGED <<store, now>>

\* Set, SetJSON, SetMultiple.
Set(ks, v, ttl) == Put(ks, v, ttl) /\ reply' = None /\ UNCHANGED now

SetNX(k, v, ttl) ==
    /\ IF store[k] # None /\ Before(store[k])
       THEN reply' = [j \in {k} |-> No] /\ UNCHANGED store
       ELSE reply' = [j \in {k} |-> Yes] /\ Put({k}, v, ttl)
    /\ UNCHANGED now

\* The deadline moves whether or not it has passed.
Expire(k, ttl) ==
    /\ IF store[k] = None THEN UNCHANGED store
       ELSE store' = [store EXCEPT ![k].expiration = now + ttl]
    /\ reply' = None /\ UNCHANGED now

\* A mutant: the sum without its sign.
MutWrap(n) == n % (2 * Half)

\* int64 addition.
Wrap(n) == ((n + Half) % (2 * Half)) - Half

\* Neither the deadline nor its having passed is looked at; what is not a number
\* counts as 0; the counter has no deadline from here.
Increment(k, by) ==
    LET current == IF store[k] # None /\ store[k].value # Text THEN store[k].value ELSE 0
        sum == Wrap(current + by) IN
    /\ store' = [store EXCEPT ![k] = [value |-> sum, expiration |-> Zero]]
    /\ reply' = [j \in {k} |-> sum] /\ UNCHANGED now

\* Delete, DeletePattern with a prefix, Close.
Delete(ks) ==
    /\ store' = [k \in Keys |-> IF k \in ks THEN None ELSE store[k]]
    /\ reply' = None /\ UNCHANGED now

\* A mutant: what is due is thrown out too.
MutCleanup ==
    /\ store' = [k \in Keys |-> IF store[k] # None /\ ~Before(store[k]) THEN None ELSE store[k]]
    /\ UNCHANGED <<now, reply>>

Cleanup ==
    /\ store' = [k \in Keys |-> IF store[k] # None /\ After(store[k]) THEN None ELSE store[k]]
    /\ UNCHANGED <<now, reply>>

Tick == now < MaxTime /\ now' = now + 1 /\ UNCHANGED <<store, reply>>

Next ==
    \/ \E k \in Keys : Get(k)
    \/ \E k \in Keys, v \in Values, ttl \in 0..MaxTTL : SetNX(k, v, ttl)
    \/ \E k \in Keys, ttl \in 1..MaxTTL : Expire(k, ttl)
    \/ \E k \in Keys, by \in By : Increment(k, by)
    \/ \E ks \in SUBSET Keys : GetMultiple(ks)
    \/ \E ks \in SUBSET Keys, v \in Values, ttl \in 0..MaxTTL : Set(ks, v, ttl)
    \/ \E ks \in {{k} : k \in Keys} \cup Patterns \cup {Keys} : Delete(ks)
    \/ Cleanup
    \/ Tick

Spec == Init /\ [][Next]_vars

-----------------------------------------------------------------------------
(* Properties *)

Phase(k) ==
    IF store[k] = None THEN "absent"
    ELSE IF After(store[k]) THEN "lapsed"
    ELSE IF Before(store[k]) THEN "live"
    ELSE "due"

\* The key as ExpiringMap sees it.
phase == [k \in Keys |-> Phase(k)]
value == [k \in Keys |-> IF store[k] = None THEN None ELSE store[k].value]

Port == INSTANCE ExpiringMap WITH Revives <- TRUE

\* Deadlines compared in two ways, a cleaner nobody waits for, and calls that
\* forget the deadline come to what ExpiringMap says with Revives: Get, Exists,
\* GetMultiple and SetNX never see a value that lapsed and do not depend on the
\* cleaner, Expire and Increment alone can bring such a value back, as long as
\* it is not cleaned, deleted or overwritten, and nothing brings one back later.
KeepsItsPromises == Port!MapSpec

Strict == INSTANCE ExpiringMap WITH Revives <- FALSE

\* "Expire sets an expiration time on an existing key" (cache_repository.go:29),
\* and a key whose time has passed does not exist (Exists): no call does anything
\* with a value that lapsed.  Expire and Increment do until the cleaner has come.
LapsedIsGone == Strict!MapSpec
=============================================================================
