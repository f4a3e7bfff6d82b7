------------------------- MODULE MemoryCacheProofs -------------------------
(***************************************************************************)
(* Proofs about MemoryCache for every number of keys, any clock, deadlines *)
(* and width of the counters: the two ways of comparing deadlines and the  *)
(* cleaner come to the phases of ExpiringMap.                              *)
(***************************************************************************)
EXTENDS MemoryCache, TLAPS

-----------------------------------------------------------------------------
(* Counters                                                                 *)

\* Division leaves a remainder.
LEMMA Remainder ==
  ASSUME NEW a \in Int, NEW b \in Nat \ {0}
  PROVE  /\ a % b \in 0..(b - 1) /\ a \div b \in Int
         /\ a = b * (a \div b) + (a % b)
OBVIOUS

\* Multiples that are less than b apart are the same.
LEMMA Apart ==
  ASSUME NEW b \in Nat \ {0}, NEW j \in Int, b * j < b, -b < b * j
  PROVE  j = 0
OBVIOUS

\* What is a multiple leaves no remainder.
LEMMA Multiples ==
  ASSUME NEW b \in Nat \ {0}, NEW p \in Int, NEW q \in Int, p = b * q
  PROVE  p % b = 0
<1> DEFINE x == p \div b
           y == p % b
<1>1. x \in Int /\ y \in 0..(b - 1) /\ p = b * x + y
  BY Remainder
<1> HIDE DEF x, y
<1>2. b * (q - x) = b * q - b * x
  BY <1>1
<1>3. b * q \in Int /\ b * x \in Int
  BY <1>1
<1>4. b * (q - x) = y
  BY <1>1, <1>2, <1>3
<1>5. q - x = 0
  BY <1>1, <1>4, Apart
<1>6. y = 0
  BY <1>1, <1>4, <1>5
<1>7. QED
  BY <1>6 DEF y

\* int64 addition yields a counter that differs from the sum by whole turns.
LEMMA WrapTypes ==
  ASSUME NEW n \in Int
  PROVE  Wrap(n) \in Numbers /\ (n - Wrap(n)) % (2 * Half) = 0
<1> DEFINE b == 2 * Half
           a == n + Half
<1>1. b \in Nat \ {0} /\ a \in Int /\ Half \in Nat
  BY MemoryCacheAssumption
<1> HIDE DEF b, a
<1>2. /\ a % b \in 0..(b - 1) /\ a \div b \in Int
      /\ a = b * (a \div b) + (a % b)
  BY <1>1, Remainder
<1>3. Wrap(n) = (a % b) - Half
  BY DEF Wrap, a, b
<1>4. Wrap(n) \in Numbers
  BY <1>1, <1>2, <1>3 DEF Numbers, b
<1>5. n - Wrap(n) = b * (a \div b)
  BY <1>1, <1>2, <1>3 DEF a
<1>6. (n - Wrap(n)) % b = 0
  <2>1. n - Wrap(n) \in Int
    BY <1>4, <1>1 DEF Numbers
  <2>2. QED
    BY <1>1, <1>2, <1>5, <2>1, Multiples
<1>7. QED
  BY <1>4, <1>5, <1>6 DEF b

\* There is no other.
LEMMA WrapOnly ==
  ASSUME NEW n \in Int, NEW m \in Numbers, (n - m) % (2 * Half) = 0
  PROVE  m = Wrap(n)
<1> DEFINE b == 2 * Half
           w == Wrap(n)
<1>1. b \in Nat \ {0} /\ Half \in Nat
  BY MemoryCacheAssumption
<1>2. w \in Numbers /\ (n - w) % b = 0 /\ (n - m) % b = 0
  BY WrapTypes
<1>3. m \in Int /\ w \in Int /\ m - w < b /\ -b < m - w
  BY <1>1, <1>2 DEF Numbers
<1> HIDE DEF b, w
<1>4. PICK x \in Int, y \in Int : n - w = b * x /\ n - m = b * y
  <2>1. ASSUME NEW a \in Int, a % b = 0 PROVE \E x \in Int : a = b * x
    <3>1. a \div b \in Int /\ a = b * (a \div b) + 0
      BY <1>1, <2>1, Remainder
    <3>2. b * (a \div b) + 0 = b * (a \div b)
      BY <1>1, <3>1
    <3>3. QED
      BY <3>1, <3>2
  <2>2. n - w \in Int /\ n - m \in Int
    BY <1>3
  <2>3. QED
    BY <1>2, <2>1, <2>2
<1>5. b * (x - y) = m - w
  <2>1. b * (x - y) = b * x - b * y
    BY <1>1
  <2>2. QED
    BY <1>3, <1>4, <2>1
<1>6. x - y = 0
  BY <1>1, <1>3, <1>5, Apart
<1>7. m - w = 0
  BY <1>1, <1>5, <1>6
<1>8. QED
  BY <1>3, <1>7 DEF w

-----------------------------------------------------------------------------
(* Items                                                                    *)

Deadlines == {Zero} \cup 0..(MaxTime + MaxTTL)

LEMMA ItemTypes ==
  /\ \A v \in Values, e \in Deadlines : [value |-> v, expiration |-> e] \in Item
  /\ \A item \in Item : /\ item.value \in Values /\ item.expiration \in Deadlines
                         /\ item # None /\ item.value # None
                         /\ item.expiration \in Int
BY NoneAssumption, MemoryCacheAssumption DEF Item, Deadlines, Zero

\* A deadline of a call from now on is not past.
LEMMA ExpirationTypes ==
  ASSUME now \in 0..MaxTime, NEW ttl \in 0..MaxTTL
  PROVE  /\ Expiration(ttl) \in Deadlines
         /\ now + ttl \in Deadlines
         /\ Expiration(ttl) = Zero \/ now < Expiration(ttl)
         /\ ttl > 0 => now < now + ttl
BY MemoryCacheAssumption DEF Expiration, Deadlines, Zero

\* The store after Put.
LEMMA PutTypes ==
  ASSUME TypeOK, NEW ks \in SUBSET Keys, NEW v \in Values, NEW ttl \in 0..MaxTTL, Put(ks, v, ttl)
  PROVE  /\ store' \in [Keys -> Item \cup {None}]
         /\ \A k \in ks : store'[k] = [value |-> v, expiration |-> Expiration(ttl)]
         /\ \A k \in Keys \ ks : store'[k] = store[k]
<1>1. [value |-> v, expiration |-> Expiration(ttl)] \in Item
  BY ItemTypes, ExpirationTypes DEF TypeOK
<1>2. QED
  BY <1>1 DEF Put, TypeOK

\* The store after Expire of a key that is there.
LEMMA ExpireTypes ==
  ASSUME TypeOK, NEW k \in Keys, NEW ttl \in 1..MaxTTL, store[k] # None,
         store' = [store EXCEPT ![k].expiration = now + ttl]
  PROVE  /\ store' \in [Keys -> Item \cup {None}]
         /\ store'[k] = [value |-> store[k].value, expiration |-> now + ttl]
         /\ \A j \in Keys \ {k} : store'[j] = store[j]
<1> DEFINE item == [store[k] EXCEPT !.expiration = now + ttl]
<1>1. store[k] \in Item
  BY DEF TypeOK
<1>2. item = [value |-> store[k].value, expiration |-> now + ttl]
  BY <1>1 DEF Item
<1>3. item \in Item
  <2>1. now + ttl \in Deadlines
    BY ExpirationTypes, MemoryCacheAssumption DEF TypeOK
  <2>2. QED
    BY <1>1, <1>2, <2>1, ItemTypes
<1>4. store' = [store EXCEPT ![k] = item]
  BY Zenon
<1> HIDE DEF item
<1>5. QED
  BY <1>2, <1>3, <1>4 DEF TypeOK

\* The counter after Increment.
LEMMA IncrementTypes ==
  ASSUME TypeOK, NEW k \in Keys, NEW by \in By, Increment(k, by)
  PROVE  LET n == IF store[k] # None /\ store[k].value # Text THEN store[k].value ELSE 0
             sum == Wrap(n + by) IN
         /\ n \in Numbers /\ n + by \in Int /\ sum \in Numbers
         /\ store' \in [Keys -> Item \cup {None}]
         /\ store'[k] = [value |-> sum, expiration |-> Zero]
         /\ \A j \in Keys \ {k} : store'[j] = store[j]
         /\ reply' = [j \in {k} |-> sum]
<1> DEFINE n == IF store[k] # None /\ store[k].value # Text THEN store[k].value ELSE 0
           sum == Wrap(n + by)
<1>1. n \in Numbers
  <2>1. 0 \in Numbers
    BY MemoryCacheAssumption DEF Numbers
  <2>2. store[k] # None => store[k].value \in Numbers \cup {Text}
    BY ItemTypes DEF TypeOK, Values
  <2>3. QED
    BY <2>1, <2>2
<1>2. n + by \in Int
  BY <1>1, MemoryCacheAssumption DEF Numbers
<1>3. sum \in Numbers
  BY <1>2, WrapTypes
<1>4. store' = [store EXCEPT ![k] = [value |-> sum, expiration |-> Zero]]
      /\ reply' = [j \in {k} |-> sum]
  BY DEF Increment
<1>5. [value |-> sum, expiration |-> Zero] \in Item
  BY <1>3, ItemTypes DEF Values, Deadlines
<1> HIDE DEF n, sum
<1>6. QED
  BY <1>1, <1>2, <1>3, <1>4, <1>5 DEF TypeOK, n, sum

-----------------------------------------------------------------------------
(* Types                                                                    *)

LEMMA TypeStep ==
  ASSUME TypeOK, [Next]_vars
  PROVE  TypeOK'
<1>1. CASE \/ UNCHANGED vars
           \/ \E k \in Keys : Get(k)
           \/ \E ks \in SUBSET Keys : GetMultiple(ks)
  BY <1>1 DEF vars, Get, GetMultiple, TypeOK
<1>2. ASSUME NEW k \in Keys, NEW v \in Values, NEW ttl \in 0..MaxTTL, SetNX(k, v, ttl)
      PROVE  TypeOK'
  <2>1. UNCHANGED <<store, now>> \/ (Put({k}, v, ttl) /\ now' = now)
    BY <1>2 DEF SetNX
  <2>2. QED
    BY <2>1, PutTypes DEF TypeOK
<1>3. ASSUME NEW k \in Keys, NEW ttl \in 1..MaxTTL, Expire(k, ttl)
      PROVE  TypeOK'
  <2>1. /\ now' = now
        /\ store' = store \/ (store[k] # None
                               /\ store' = [store EXCEPT ![k].expiration = now + ttl])
    BY <1>3, Zenon DEF Expire
  <2>2. QED
    BY <2>1, ExpireTypes DEF TypeOK
<1>4. ASSUME NEW k \in Keys, NEW by \in By, Increment(k, by)
      PROVE  TypeOK'
  BY <1>4, IncrementTypes DEF Increment, TypeOK
<1>5. ASSUME NEW ks \in SUBSET Keys, NEW v \in Values, NEW ttl \in 0..MaxTTL, Set(ks, v, ttl)
      PROVE  TypeOK'
  BY <1>5, PutTypes DEF Set, TypeOK
<1>6. ASSUME NEW ks, Delete(ks)
      PROVE  TypeOK'
  BY <1>6 DEF Delete, TypeOK
<1>7. CASE Cleanup
  BY <1>7 DEF Cleanup, TypeOK
<1>8. CASE Tick
  BY <1>8, MemoryCacheAssumption DEF Tick, TypeOK
<1>9. QED
  BY <1>1, <1>2, <1>3, <1>4, <1>5, <1>6, <1>7, <1>8 DEF Next

\* The map of memory.MemoryCache holds items with numbers or texts, and
\* deadlines on the clock, whatever is added to a counter.
THEOREM TypeCorrect == Spec => []TypeOK
<1>1. Init => TypeOK
  BY MemoryCacheAssumption DEF Init, TypeOK
<1>2. QED
  BY <1>1, TypeStep, PTL DEF Spec

-----------------------------------------------------------------------------
(* Phases                                                                   *)

\* What the phase of a key says of its item.
LEMMA PhaseFacts ==
  ASSUME TypeOK, NEW k \in Keys
  PROVE  /\ phase[k] \in {"absent", "live", "due", "lapsed"}
         /\ phase[k] = "absent" <=> store[k] = None
         /\ phase[k] = "live" <=> store[k] # None /\ Before(store[k])
         /\ phase[k] = "lapsed" <=> store[k] # None /\ After(store[k])
         /\ store[k] = None => value[k] = None
         /\ store[k] # None => value[k] = store[k].value /\ value[k] # None
<1>1. CASE store[k] = None
  BY <1>1 DEF phase, value, Phase
<1>2. CASE store[k] # None
  <2>1. store[k].expiration \in Int /\ store[k].value # None /\ now \in Int
    BY <1>2, ItemTypes DEF TypeOK
  <2>2. QED
    BY <1>2, <2>1 DEF phase, value, Phase, Before, After
<1>3. QED
  BY <1>1, <1>2

\* What the calls show is what the phases show.
LEMMA SameShown ==
  ASSUME TypeOK, NEW k \in Keys
  PROVE  /\ Port!Shown(k) = Shown(k)
         /\ Port!Taken(k) = IF store[k] # None /\ Before(store[k]) THEN store[k].value ELSE None
BY PhaseFacts DEF Port!Shown, Port!Taken, Shown

\* A key whose item did not change keeps its phase.
LEMMA SamePhase ==
  ASSUME NEW k \in Keys, store'[k] = store[k], now' = now
  PROVE  phase'[k] = phase[k] /\ value'[k] = value[k]
BY DEF phase, value, Phase, Before, After

LEMMA Staying ==
  ASSUME UNCHANGED <<store, now>>
  PROVE  Port!Stay
BY DEF Port!Stay, phase, value, Phase, Before, After

\* Keys that get an item whose deadline is to come.
LEMMA BecomesLive ==
  ASSUME TypeOK, TypeOK', now' = now, NEW ks \in SUBSET Keys, NEW vs,
         \A k \in ks : /\ store'[k] # None /\ store'[k].value = vs[k]
                       /\ store'[k].expiration = Zero \/ now < store'[k].expiration,
         \A k \in Keys \ ks : store'[k] = store[k]
  PROVE  Port!Becomes(ks, "live", vs)
<1>1. ASSUME NEW k \in ks PROVE phase'[k] = "live" /\ value'[k] = vs[k]
  <2>1. store'[k].expiration \in Int /\ now \in Int /\ k \in Keys
    BY ItemTypes DEF TypeOK
  <2>2. Before(store[k])' /\ ~After(store[k])'
    BY <2>1 DEF Before, After, Zero
  <2>3. QED
    BY <2>1, <2>2 DEF phase, value, Phase
<1>2. \A k \in Keys \ ks : phase'[k] = phase[k] /\ value'[k] = value[k]
  BY SamePhase
<1>3. /\ phase' = [k \in Keys |-> phase'[k]]
      /\ value' = [k \in Keys |-> value'[k]]
  BY DEF phase, value
<1>4. QED
  BY <1>1, <1>2, <1>3 DEF Port!Becomes

-----------------------------------------------------------------------------
(* The calls                                                                *)

LEMMA ReadStep ==
  ASSUME TypeOK, NEW k \in Keys, Get(k)
  PROVE  Port!Read(k)
<1>1. Port!Stay
  BY Staying DEF Get
<1>2. reply' = [j \in {k} |-> Port!Shown(k)]
  BY SameShown DEF Get
<1>3. QED
  BY <1>1, <1>2 DEF Port!Read

LEMMA ReadManyStep ==
  ASSUME TypeOK, NEW ks \in SUBSET Keys, GetMultiple(ks)
  PROVE  Port!ReadMany(ks)
<1>1. Port!Stay
  BY Staying DEF GetMultiple
<1>2. \A k \in ks : Port!Taken(k) = IF store[k] # None /\ Before(store[k])
                                   THEN store[k].value ELSE None
  BY SameShown
<1>3. reply' = [k \in ks |-> Port!Taken(k)]
  BY <1>2 DEF GetMultiple
<1>4. QED
  BY <1>1, <1>3 DEF Port!ReadMany

\* A value that is put is live.
LEMMA Puts ==
  ASSUME TypeOK, TypeOK', now' = now, NEW ks \in SUBSET Keys, NEW v \in Values,
         NEW ttl \in 0..MaxTTL, Put(ks, v, ttl)
  PROVE  Port!Becomes(ks, "live", [k \in ks |-> v])
<1>1. ASSUME NEW k \in ks
      PROVE  /\ store'[k] # None /\ store'[k].value = v
             /\ store'[k].expiration = Zero \/ now < store'[k].expiration
  <2>1. store'[k] = [value |-> v, expiration |-> Expiration(ttl)]
    BY PutTypes
  <2>2. [value |-> v, expiration |-> Expiration(ttl)] \in Item
    BY ItemTypes, ExpirationTypes DEF TypeOK
  <2>3. QED
    BY <2>1, <2>2, ItemTypes, ExpirationTypes DEF TypeOK
<1>2. \A k \in Keys \ ks : store'[k] = store[k]
  BY PutTypes
<1>3. \A k \in ks : [j \in ks |-> v][k] = v
  OBVIOUS
<1> DEFINE vs == [k \in ks |-> v]
<1>4. \A k \in ks : vs[k] = v
  OBVIOUS
<1> HIDE DEF vs
<1>5. Port!Becomes(ks, "live", vs)
  BY <1>1, <1>2, <1>4, BecomesLive
<1>6. QED
  BY <1>5 DEF vs

LEMMA PutStep ==
  ASSUME TypeOK, TypeOK', NEW ks \in SUBSET Keys, NEW v \in Values,
         NEW ttl \in 0..MaxTTL, Set(ks, v, ttl)
  PROVE  Port!Put(ks, v)
BY Puts DEF Set, Port!Put

LEMMA PutIfFreeStep ==
  ASSUME TypeOK, TypeOK', NEW k \in Keys, NEW v \in Values, NEW ttl \in 0..MaxTTL,
         SetNX(k, v, ttl)
  PROVE  Port!PutIfFree(k, v)
<1>1. CASE store[k] # None /\ Before(store[k])
  <2>1. Port!Taken(k) # None
    BY <1>1, SameShown, ItemTypes DEF TypeOK
  <2>2. Port!Stay /\ reply' = [j \in {k} |-> No]
    BY <1>1, Staying DEF SetNX
  <2>3. QED
    BY <2>1, <2>2 DEF Port!PutIfFree
<1>2. CASE ~(store[k] # None /\ Before(store[k]))
  <2>1. Port!Taken(k) = None
    BY <1>2, SameShown
  <2>2. Put({k}, v, ttl) /\ now' = now /\ reply' = [j \in {k} |-> Yes]
    BY <1>2 DEF SetNX
  <2>3. Port!Becomes({k}, "live", [j \in {k} |-> v])
    BY <2>2, Puts
  <2>4. QED
    BY <2>1, <2>2, <2>3 DEF Port!PutIfFree
<1>3. QED
  BY <1>1, <1>2

\* An extension makes a key live that is there, lapsed or not.
LEMMA ExtendStep ==
  ASSUME TypeOK, TypeOK', NEW k \in Keys, NEW ttl \in 1..MaxTTL, Expire(k, ttl)
  PROVE  Port!Extend(k)
<1>1. reply' = None /\ now' = now
  BY Zenon DEF Expire
<1>2. CASE store[k] = None
  <2>1. Port!Stay
    BY <1>1, <1>2, Staying, Zenon DEF Expire
  <2>2. phase[k] = "absent"
    BY <1>2, PhaseFacts
  <2>3. QED
    BY <1>1, <2>1, <2>2 DEF Port!Extend, Port!Present
<1>3. CASE store[k] # None
  <2>1. store' = [store EXCEPT ![k].expiration = now + ttl]
    BY <1>3, Zenon DEF Expire
  <2>2. /\ store'[k] = [value |-> store[k].value, expiration |-> now + ttl]
        /\ \A j \in Keys \ {k} : store'[j] = store[j]
    BY <1>3, <2>1, ExpireTypes
  <2>3. now < now + ttl
    BY ExpirationTypes DEF TypeOK
  <2>4. store'[k] # None
    <3>1. now + ttl \in Deadlines /\ store[k].value \in Values
      BY <1>3, ExpirationTypes, ItemTypes DEF TypeOK
    <3>2. QED
      BY <2>2, <3>1, ItemTypes
  <2>5. store'[k].value = value[k] /\ phase[k] # "absent"
    BY <1>3, <2>2, PhaseFacts
  <2>6. Port!Becomes({k}, "live", value)
    BY <1>1, <2>2, <2>3, <2>4, <2>5, BecomesLive
  <2>7. QED
    BY <1>1, <2>5, <2>6, PhaseFacts DEF Port!Extend, Port!Present
<1>4. QED
  BY <1>2, <1>3

\* A counter is the only number of its width that differs from the sum by turns.
LEMMA AddStep ==
  ASSUME TypeOK, TypeOK', NEW k \in Keys, NEW by \in By, Increment(k, by)
  PROVE  Port!Add(k, by)
<1> DEFINE n == IF store[k] # None /\ store[k].value # Text THEN store[k].value ELSE 0
           sum == Wrap(n + by)
           m == IF Port!Present(k) /\ value[k] # Text THEN value[k] ELSE 0
<1>1. n = m
  BY PhaseFacts DEF Port!Present
<1>2. /\ n + by \in Int /\ sum \in Numbers
      /\ store'[k] = [value |-> sum, expiration |-> Zero]
      /\ \A j \in Keys \ {k} : store'[j] = store[j]
      /\ reply' = [j \in {k} |-> sum] /\ now' = now
  BY IncrementTypes DEF Increment
<1>3. sum = CHOOSE x \in Numbers : (m + by - x) % (2 * Half) = 0
  <2> DEFINE Turn(x) == (m + by - x) % (2 * Half) = 0
             w == CHOOSE x \in Numbers : Turn(x)
  <2>0. m \in Int /\ by \in Int /\ Half \in Int /\ Numbers \subseteq Int
    <3>1. n \in Numbers
      BY IncrementTypes
    <3>2. QED
      BY <1>1, <3>1, MemoryCacheAssumption DEF Numbers
  <2>1. m + by \in Int /\ sum = Wrap(m + by)
    BY <1>1, <1>2
  <2> HIDE DEF sum, m, n
  <2>2. PICK z \in Int : z = m + by /\ sum = Wrap(z)
    BY <2>1
  <2>3. Turn(sum)
    <3>1. (z - sum) % (2 * Half) = 0
      BY <2>2, WrapTypes
    <3>2. QED
      BY <1>2, <2>0, <2>2, <3>1
  <2>4. ASSUME NEW x \in Numbers, Turn(x) PROVE x = sum
    <3>1. (z - x) % (2 * Half) = 0
      BY <2>0, <2>2, <2>4
    <3>2. QED
      BY <2>2, <3>1, WrapOnly
  <2> HIDE DEF Turn
  <2>5. w \in Numbers /\ Turn(w)
    BY <1>2, <2>3, Zenon
  <2>6. w = sum
    BY <2>4, <2>5
  <2>7. QED
    BY <2>6 DEF Turn
<1>4. store'[k] # None /\ store'[k].value = sum /\ store'[k].expiration = Zero
  <2>1. [value |-> sum, expiration |-> Zero] \in Item
    BY <1>2, ItemTypes DEF Values, Deadlines
  <2>2. QED
    BY <1>2, <2>1, ItemTypes
<1>5. Port!Becomes({k}, "live", [j \in {k} |-> sum])
  <2> DEFINE vs == [j \in {k} |-> sum]
  <2>1. vs[k] = sum
    OBVIOUS
  <2> HIDE DEF vs, sum
  <2>2. Port!Becomes({k}, "live", vs)
    BY <1>2, <1>4, <2>1, BecomesLive
  <2>3. QED
    BY <2>2 DEF vs
<1> HIDE DEF sum
<1>6. QED
  BY <1>2, <1>3, <1>5 DEF Port!Add, Port!Numbers, Numbers, m

LEMMA RemoveStep ==
  ASSUME NEW ks \in SUBSET Keys, Delete(ks)
  PROVE  Port!Remove(ks)
<1>1. \A k \in ks : store'[k] = None
  BY DEF Delete
<1>2. \A k \in Keys \ ks : phase'[k] = phase[k] /\ value'[k] = value[k]
  <2>1. ASSUME NEW k \in Keys \ ks PROVE store'[k] = store[k] /\ now' = now
    BY DEF Delete
  <2>2. QED
    BY <2>1, SamePhase
<1>3. \A k \in ks : phase'[k] = "absent" /\ value'[k] = None
  BY <1>1 DEF phase, value, Phase
<1>4. /\ phase' = [k \in Keys |-> phase'[k]]
      /\ value' = [k \in Keys |-> value'[k]]
  BY DEF phase, value
<1>5. Port!Becomes(ks, "absent", [k \in ks |-> None])
  BY <1>2, <1>3, <1>4 DEF Port!Becomes
<1>6. QED
  BY <1>5 DEF Delete, Port!Remove

\* One key when the clock ticks, or when the cleaner passes.
LEMMA TickKey ==
  ASSUME TypeOK, TypeOK', Tick, NEW k \in Keys
  PROVE  /\ phase'[k] \in Port!Order[phase[k]] \cup {phase[k]}
         /\ value'[k] = IF phase'[k] = "absent" THEN None ELSE value[k]
<1>1. store' = store /\ now' = now + 1 /\ now \in Int
  BY MemoryCacheAssumption DEF Tick, TypeOK
<1>2. CASE store[k] = None
  BY <1>1, <1>2 DEF phase, value, Phase, Port!Order
<1>3. CASE store[k] # None
  <2>1. store[k].expiration \in Int
    BY <1>3, ItemTypes DEF TypeOK
  <2>2. /\ After(store[k])' <=> store[k].expiration # Zero /\ now + 1 > store[k].expiration
        /\ Before(store[k])' <=> store[k].expiration = Zero \/ now + 1 < store[k].expiration
    BY <1>1 DEF After, Before
  <2>3. After(store[k]) => After(store[k])'
    BY <1>1, <2>1, <2>2 DEF After
  <2>4. ~Before(store[k]) => After(store[k])'
    BY <1>1, <2>1, <2>2 DEF Before
  <2>5. Before(store[k]) => ~After(store[k])'
    BY <1>1, <2>1, <2>2 DEF Before
  <2>6. store'[k] = store[k] /\ value'[k] = value[k]
    BY <1>1 DEF value
  <2>7. phase[k] # "absent" /\ phase'[k] # "absent"
    BY <1>1, <1>3 DEF phase, Phase
  <2>8. /\ phase[k] = IF After(store[k]) THEN "lapsed"
                      ELSE IF Before(store[k]) THEN "live" ELSE "due"
        /\ phase'[k] = IF After(store[k])' THEN "lapsed"
                       ELSE IF Before(store[k])' THEN "live" ELSE "due"
    BY <1>3, <2>6 DEF phase, Phase, After, Before
  <2>9. QED
    BY <2>3, <2>4, <2>5, <2>6, <2>7, <2>8 DEF Port!Order
<1>4. QED
  BY <1>2, <1>3

LEMMA CleanupKey ==
  ASSUME TypeOK, Cleanup, NEW k \in Keys
  PROVE  /\ phase'[k] \in Port!Order[phase[k]] \cup {phase[k]}
         /\ value'[k] = IF phase'[k] = "absent" THEN None ELSE value[k]
<1>1. CASE store[k] # None /\ After(store[k])
  <2>1. store'[k] = None
    BY <1>1 DEF Cleanup
  <2>2. phase[k] = "lapsed" /\ phase'[k] = "absent" /\ value'[k] = None
    BY <1>1, <2>1 DEF phase, value, Phase
  <2>3. QED
    BY <2>2 DEF Port!Order
<1>2. CASE ~(store[k] # None /\ After(store[k]))
  <2>1. store'[k] = store[k] /\ now' = now
    BY <1>2 DEF Cleanup
  <2>2. phase[k] = "absent" => value[k] = None
    BY PhaseFacts
  <2>3. QED
    BY <2>1, <2>2, SamePhase
<1>3. QED
  BY <1>1, <1>2

LEMMA AgeStep ==
  ASSUME TypeOK, TypeOK', Tick \/ Cleanup
  PROVE  Port!Age
<1>1. \A k \in Keys : /\ phase'[k] \in Port!Order[phase[k]] \cup {phase[k]}
                      /\ value'[k] = IF phase'[k] = "absent" THEN None ELSE value[k]
  BY TickKey, CleanupKey
<1>2. DOMAIN phase' = Keys /\ DOMAIN value' = Keys
  BY DEF phase, value
<1>3. UNCHANGED reply
  BY DEF Tick, Cleanup
<1>4. QED
  BY <1>1, <1>2, <1>3 DEF Port!Age

-----------------------------------------------------------------------------
(* The refinement                                                           *)

LEMMA PortStep ==
  ASSUME TypeOK, TypeOK', [Next]_vars
  PROVE  [Port!MapNext]_<<phase, value, reply>>
<1> USE DEF Port!MapNext
<1>1. CASE UNCHANGED vars
  <2>1. UNCHANGED <<store, now, reply>>
    BY <1>1 DEF vars
  <2>2. UNCHANGED <<phase, value>>
    BY <2>1, Staying DEF Port!Stay
  <2>3. QED
    BY <2>1, <2>2
<1>2. ASSUME NEW k \in Keys, Get(k) PROVE Port!MapNext
  BY <1>2, ReadStep
<1>3. ASSUME NEW k \in Keys, NEW v \in Values, NEW ttl \in 0..MaxTTL, SetNX(k, v, ttl)
      PROVE  Port!MapNext
  BY <1>3, PutIfFreeStep DEF Port!Values, Port!Numbers, Values, Numbers
<1>4. ASSUME NEW k \in Keys, NEW ttl \in 1..MaxTTL, Expire(k, ttl) PROVE Port!MapNext
  BY <1>4, ExtendStep
<1>5. ASSUME NEW k \in Keys, NEW by \in By, Increment(k, by) PROVE Port!MapNext
  BY <1>5, AddStep
<1>6. ASSUME NEW ks \in SUBSET Keys, GetMultiple(ks) PROVE Port!MapNext
  BY <1>6, ReadManyStep
<1>7. ASSUME NEW ks \in SUBSET Keys, NEW v \in Values, NEW ttl \in 0..MaxTTL, Set(ks, v, ttl)
      PROVE  Port!MapNext
  BY <1>7, PutStep DEF Port!Values, Port!Numbers, Values, Numbers
<1>8. ASSUME NEW ks \in {{k} : k \in Keys} \cup Patterns \cup {Keys}, Delete(ks)
      PROVE  Port!MapNext
  <2>1. ks \in SUBSET Keys
    BY MemoryCacheAssumption
  <2>2. QED
    BY <1>8, <2>1, RemoveStep
<1>9. CASE Tick \/ Cleanup
  BY <1>9, AgeStep
<1> HIDE DEF Port!MapNext
<1>10. QED
  BY <1>1, <1>2, <1>3, <1>4, <1>5, <1>6, <1>7, <1>8, <1>9 DEF Next

\* The in-memory cache is an ExpiringMap that revives, for every number of keys,
\* any clock and counters of any width: reads and SetNX never see a value that
\* lapsed and do not depend on the cleaner, none but Expire and Increment brings
\* one back, they only until it is cleaned, deleted or overwritten, and counters
\* go round.
THEOREM ImplementsExpiringMap == Spec => KeepsItsPromises
<1>1. Init => Port!MapInit
  BY DEF Init, Port!MapInit, phase, value, Phase
<1>2. TypeOK /\ TypeOK' /\ [Next]_vars => [Port!MapNext]_<<phase, value, reply>>
  BY PortStep
<1>3. QED
  BY <1>1, <1>2, TypeCorrect, PTL DEF Spec, KeepsItsPromises, Port!MapSpec, Port!mapVars
=============================================================================
