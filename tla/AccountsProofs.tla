--------------------------- MODULE AccountsProofs ---------------------------
(***************************************************************************)
(* Proofs about Accounts for every number of requests, users, addresses    *)
(* and roles: an account is what the requests asked for unless one wrote   *)
(* over a newer picture of it or gave up between its statements.  An       *)
(* entity nobody wrote over is the stored account; while several requests  *)
(* write one account, all but one of them are stale.                       *)
(***************************************************************************)
EXTENDS Accounts, SequenceTheorems, TLAPS

-----------------------------------------------------------------------------
(* Requests and entities *)

LEMMA NoRequestType == /\ NoRequest \in Request /\ NoRequest.user = None /\ NoRequest.op = None
                         /\ NoRequest.rm = {} /\ NoRequest.add = {}
  BY DEF NoRequest, Fresh, Request

LEMMA KeyTypes ==
  /\ ListKey \in Keys
  /\ \A u \in Users : IdKey(u) \in Keys
  /\ \A e \in Emails : EmailKey(e) \in Keys
  BY DEF Keys

\* A request marked stale is otherwise as it was.
LEMMA Staled ==
  ASSUME NEW q \in Request
  PROVE  LET x == [q EXCEPT !.stale = TRUE] IN
         /\ x \in Request /\ x.stale
         /\ x.op = q.op /\ x.user = q.user /\ x.email = q.email /\ x.pass = q.pass
         /\ x.role = q.role /\ x.ent = q.ent /\ x.page = q.page
         /\ x.rm = q.rm /\ x.add = q.add /\ x.drops = q.drops
  BY DEF Request

\* The statements and deletions to come do not matter for what a request saves.
LEMMA EntitySame ==
  ASSUME NEW q, NEW p, p.op = q.op, p.email = q.email, p.pass = q.pass, p.role = q.role,
         p.ent = q.ent \/ q.op \in Creations
  PROVE  Entity(p) = Entity(q)
  BY DEF Entity, Creations

LEMMA EntityType ==
  ASSUME NEW q \in Request, q.op \in Writes \ {"deleteUser"},
         q.op \in Loads => q.ent # None,
         q.op \in Creations => q.email \in Emails /\ q.pass \in Passwords,
         q.op \in RoleChanges => q.role \in Roles,
         q.op = "changePassword" => q.pass \in Passwords
  PROVE  Entity(q) \in Account
<1>1. q.op \in Loads => q.ent \in Account
  BY DEF Request
<1>2. CASE q.op = "register"
  BY <1>2, AccountsAssumption DEF Entity, Creations, Account
<1>3. CASE q.op = "createUser"
  BY <1>3 DEF Entity, Creations, Account
<1>4. CASE q.op = "updateUser"
  <2>1. q.ent \in Account /\ q.email \in Emails \cup {None}
    BY <1>1, <1>4 DEF Loads, Writes, Creations, Request
  <2>2. Entity(q) = IF q.email = None THEN q.ent ELSE [q.ent EXCEPT !.email = q.email]
    BY <1>4 DEF Entity
  <2>3. QED
    BY <2>1, <2>2 DEF Account
<1>5. CASE q.op = "assignRole"
  <2>1. q.ent \in Account /\ q.role \in Roles
    BY <1>1, <1>5 DEF Loads, Writes, Creations, RoleChanges
  <2>2. Entity(q) = [q.ent EXCEPT !.roles = q.ent.roles \cup {q.role}]
    BY <1>5 DEF Entity
  <2>3. QED
    BY <2>1, <2>2 DEF Account
<1>6. CASE q.op = "removeRole"
  <2>1. q.ent \in Account
    BY <1>1, <1>6 DEF Loads, Writes, Creations, RoleChanges
  <2>2. Entity(q) = [q.ent EXCEPT !.roles = q.ent.roles \ {q.role}]
    BY <1>6 DEF Entity
  <2>3. QED
    BY <2>1, <2>2 DEF Account
<1>7. CASE q.op = "changePassword"
  <2>1. q.ent \in Account /\ q.pass \in Passwords
    BY <1>1, <1>7 DEF Loads, Writes, Creations
  <2>2. Entity(q) = [q.ent EXCEPT !.pass = q.pass]
    BY <1>7 DEF Entity
  <2>3. QED
    BY <2>1, <2>2 DEF Account
<1>8. QED
  BY <1>2, <1>3, <1>4, <1>5, <1>6, <1>7 DEF Writes, Creations, RoleChanges

LEMMA Concatenation ==
  ASSUME NEW S, NEW s \in Seq(S), NEW t \in Seq(S)
  PROVE  s \o t \in Seq(S) /\ Len(s \o t) = Len(s) + Len(t) /\ Len(s) \in Nat /\ Len(t) \in Nat
  BY ConcatProperties, LenProperties

LEMMA KeySequences ==
  ASSUME NEW s \in Seq(Keys), NEW t \in Seq(Keys)
  PROVE  s \o t \in Seq(Keys) /\ Len(s \o t) = Len(s) + Len(t) /\ Len(s) \in Nat /\ Len(t) \in Nat
  BY Concatenation

\* The keys a write deletes are keys, and one at least where it deletes any.
LEMMA InvalidateType ==
  ASSUME NEW u \in Users, NEW old \in Emails \cup {None}, NEW new \in Emails \cup {None}
  PROVE  LET drops == InvalidateUserCaches(u, old, new) IN
         drops \in Seq(Keys) /\ drops # <<>>
<1> DEFINE a == <<IdKey(u)>>
           b == IF old # None THEN <<EmailKey(old)>> ELSE <<>>
           c == IF new \notin {None, old} THEN <<EmailKey(new)>> ELSE <<>>
           d == <<ListKey>>
<1>1. a \in Seq(Keys) /\ d \in Seq(Keys) /\ Len(a) = 1 /\ Len(d) = 1
  BY KeyTypes
<1>2. b \in Seq(Keys) /\ c \in Seq(Keys)
  BY KeyTypes
<1>3. InvalidateUserCaches(u, old, new) = a \o b \o c \o d
  BY DEF InvalidateUserCaches
<1> HIDE DEF a, b, c, d
<1>4. a \o b \in Seq(Keys)
  BY <1>1, <1>2, KeySequences
<1>5. a \o b \o c \in Seq(Keys)
  BY <1>2, <1>4, KeySequences
<1>6. /\ (a \o b \o c) \o d \in Seq(Keys)
      /\ Len((a \o b \o c) \o d) = Len(a \o b \o c) + 1
      /\ Len(a \o b \o c) \in Nat
  BY <1>1, <1>5, KeySequences
<1>7. (a \o b \o c) \o d # <<>>
  <2>1. Len((a \o b \o c) \o d) # 0
    BY <1>6
  <2>2. Len(<<>>) = 0
    OBVIOUS
  <2>3. QED
    BY <2>1, <2>2
<1>8. QED
  BY <1>3, <1>6, <1>7

LEMMA DropsType ==
  ASSUME NEW q \in Request, NEW u \in Users, q.op \in Writes,
         q.op \in Loads => q.ent # None,
         q.op \in Creations => q.email \in Emails,
         q.op \in Writes \ {"deleteUser"} => Entity(q) \in Account
  PROVE  Drops(q, u) \in Seq(Keys) /\ (q.op = "deleteUser" => Drops(q, u) # <<>>)
<1>1. q.op \in Loads => q.ent.email \in Emails
  BY DEF Request, Account
<1>2. CASE q.op \in {"register", "changePassword"}
  BY <1>2 DEF Drops
<1>3. CASE q.op = "createUser"
  BY <1>3, InvalidateType DEF Drops, Creations
<1>4. CASE q.op = "deleteUser"
  BY <1>1, <1>4, InvalidateType DEF Drops, Loads, Writes, Creations
<1>5. CASE q.op \in RoleChanges \cup {"updateUser"}
  <2>1. q.ent.email \in Emails /\ Entity(q).email \in Emails
    BY <1>1, <1>5 DEF Loads, Writes, Creations, RoleChanges, Account
  <2>2. Drops(q, u) = InvalidateUserCaches(u, q.ent.email, Entity(q).email)
    BY <1>5 DEF Drops, RoleChanges
  <2>3. QED
    BY <1>5, <2>1, <2>2, InvalidateType DEF RoleChanges
<1>6. QED
  BY <1>2, <1>3, <1>4, <1>5 DEF Writes, Creations, RoleChanges

-----------------------------------------------------------------------------
(* A step that writes neither rows nor roles *)

LEMMA CallType ==
  ASSUME faults \in 0..MaxFaults, NEW ok \in BOOLEAN, Call(ok)
  PROVE  faults' \in 0..MaxFaults
  BY AccountsAssumption DEF Call

LEMMA GotoType ==
  ASSUME pc \in [Requests -> Steps], req \in [Requests -> Request],
         NEW r \in Requests, NEW step \in Steps, NEW q \in Request, Goto(r, step, q)
  PROVE  /\ pc' \in [Requests -> Steps] /\ req' \in [Requests -> Request]
         /\ pc'[r] = step /\ req'[r] = q
         /\ \A s \in Requests \ {r} : pc'[s] = pc[s] /\ req'[s] = req[s]
  BY DEF Goto

\* What a step leaves alone stays as it was: facts about an account and about a
\* request depend on their own part of the state.
LEMMA SameAccount ==
  ASSUME NEW u \in Users, row'[u] = row[u], roles'[u] = roles[u]
  PROVE  (u \in Stored)' = (u \in Stored) /\ StoredAccount(u)' = StoredAccount(u)
  BY DEF Stored, StoredAccount

LEMMA SameOnItsWay ==
  ASSUME NEW u \in Users, NEW step, NEW q,
         row'[u] = row[u], roles'[u] = roles[u], wanted'[u] = wanted[u]
  PROVE  OnItsWay(step, q, u)' = OnItsWay(step, q, u)
  BY DEF OnItsWay, Stored, Asked

LEMMA SameKnows ==
  ASSUME NEW step, NEW q, used \subseteq used', Knows(step, q)
  PROVE  Knows(step, q)'
  BY DEF Knows, Asks

LEMMA SamePicture ==
  ASSUME NEW step, NEW q \in Request, Knows(step, q), Picture(step, q), used \subseteq Users,
         \A u \in Users : q.user = u => row'[u] = row[u] /\ roles'[u] = roles[u]
  PROVE  Picture(step, q)'
<1> SUFFICES ASSUME q.op \in Loads, ~q.stale PROVE Picture(step, q)'
  BY DEF Picture
<1>1. q.user \in Users
  BY DEF Knows, Asks
<1>2. (q.user \in Stored)' = (q.user \in Stored) /\ StoredAccount(q.user)' = StoredAccount(q.user)
  BY <1>1, SameAccount
<1>3. row'[q.user] = row[q.user]
  BY <1>1
<1>4. QED
  BY <1>2, <1>3 DEF Picture

\* A step of a request that has no write under way and begins none.
LEMMA Frame ==
  ASSUME IInv, NEW r \in Requests, NEW step \in Steps \ Syncs, NEW q \in Request,
         Goto(r, step, q), pc[r] \notin Syncs,
         UNCHANGED <<row, roles, used, wanted, broken>>,
         Knows(step, q), Picture(step, q),
         DOMAIN cache' = Keys, excused' \subseteq Keys,
         ops' \in 0..MaxOps, faults' \in 0..MaxFaults
  PROVE  IInv'
<1>1. /\ pc' \in [Requests -> Steps] /\ req' \in [Requests -> Request]
      /\ pc'[r] = step /\ req'[r] = q
      /\ \A s \in Requests \ {r} : pc'[s] = pc[s] /\ req'[s] = req[s]
  BY GotoType DEF IInv, TypeOK
<1>2. TypeOK'
  BY <1>1 DEF IInv, TypeOK
<1>3. ASSUME NEW s \in Requests PROVE (Knows(pc[s], req[s]) /\ Picture(pc[s], req[s]))'
  <2>1. Knows(pc'[s], req'[s]) /\ Picture(pc'[s], req'[s])
    BY <1>1 DEF IInv
  <2>2. req'[s] \in Request
    BY <1>1
  <2>3. QED
    BY <2>1, <2>2, SameKnows, SamePicture DEF IInv, TypeOK
<1>4. ASSUME NEW u \in Users PROVE AccountInv(u)'
  <2>1. AccountInv(u)
    BY DEF IInv
  <2>2. Syncing(u)' = Syncing(u) /\ r \notin Syncing(u)
    BY <1>1 DEF Syncing
  <2>3. StoredAccount(u)' = StoredAccount(u) /\ (u \in Stored)' = (u \in Stored)
    BY SameAccount
  <2>4. \A s \in Syncing(u) : pc'[s] = pc[s] /\ req'[s] = req[s]
    BY <1>1, <2>2 DEF Syncing
  <2>5. (\A s, t \in Syncing(u) : s = t \/ req[s].stale \/ req[t].stale)'
    BY <2>1, <2>2, <2>4 DEF AccountInv
  <2>6. ASSUME u \notin broken, NEW s \in Requests, Syncing(u)' = {s}, ~req'[s].stale
        PROVE  OnItsWay(pc[s], req[s], u)'
    <3>1. s \in Syncing(u) /\ Syncing(u) = {s} /\ pc'[s] = pc[s] /\ req'[s] = req[s]
      BY <2>2, <2>4, <2>6
    <3>2. OnItsWay(pc[s], req[s], u)
      BY <2>1, <2>6, <3>1 DEF AccountInv
    <3>3. QED
      BY <3>1, <3>2, SameOnItsWay
  <2>7. QED
    BY <2>1, <2>2, <2>3, <2>5, <2>6 DEF AccountInv
<1>5. QED
  BY <1>2, <1>3, <1>4 DEF IInv

-----------------------------------------------------------------------------
(* A step that writes account u *)

\* What is left to show of account u once the step of r is taken, and the other
\* requests that write u are known to be stale or as they were.
AfterWrite(r, step, q, u) ==
    /\ q.user = u \/ q = NoRequest
    /\ u \notin broken' /\ Syncing(u) \subseteq {r} =>
          IF step \in Syncs
          THEN ~q.stale => OnItsWay(step, q, u)'
          ELSE StoredAccount(u)' = wanted'[u]

\* The accounts other than u are as they were, and so are the requests that
\* write them.
LEMMA OtherAccounts ==
  ASSUME IInv, NEW r \in Requests, NEW u \in Users, NEW v \in Users \ {u},
         NEW step \in Steps, NEW q \in Request,
         req[r].user \in {u, None}, q.user \in {u, None},
         pc'[r] = step, req'[r] = q,
         \A s \in Requests \ {r} : /\ pc'[s] = pc[s]
                                   /\ req'[s].user = req[s].user
                                   /\ req[s].user = v => req'[s] = req[s],
         row'[v] = row[v], roles'[v] = roles[v], wanted'[v] = wanted[v],
         used \subseteq used', v \in broken <=> v \in broken'
  PROVE  AccountInv(v)'
<1>1. AccountInv(v) /\ v # None
  BY AccountsAssumption DEF IInv
<1>2. Syncing(v)' = Syncing(v) /\ r \notin Syncing(v)
  BY <1>1 DEF Syncing
<1>3. StoredAccount(v)' = StoredAccount(v) /\ (v \in Stored)' = (v \in Stored)
  BY SameAccount
<1>4. \A s \in Syncing(v) : pc'[s] = pc[s] /\ req'[s] = req[s]
  BY <1>2 DEF Syncing
<1>5. (\A s, t \in Syncing(v) : s = t \/ req[s].stale \/ req[t].stale)'
  BY <1>1, <1>2, <1>4 DEF AccountInv
<1>6. ASSUME v \notin broken, NEW s \in Requests, Syncing(v)' = {s}, ~req'[s].stale
      PROVE  OnItsWay(pc[s], req[s], v)'
  <2>1. s \in Syncing(v) /\ Syncing(v) = {s} /\ pc'[s] = pc[s] /\ req'[s] = req[s]
    BY <1>2, <1>4, <1>6
  <2>2. OnItsWay(pc[s], req[s], v)
    BY <1>1, <1>6, <2>1 DEF AccountInv
  <2>3. QED
    BY <2>1, <2>2, SameOnItsWay
<1>7. QED
  BY <1>1, <1>2, <1>3, <1>5, <1>6 DEF AccountInv

\* The other requests after r wrote u: as they were, but stale where they hold a
\* picture of u they have still to write.
LEMMA WritingOthers ==
  ASSUME TypeOK, NEW r \in Requests, NEW u \in Users, NEW step \in Steps, NEW q \in Request,
         Writing(r, u, step, q)
  PROVE  /\ pc' \in [Requests -> Steps] /\ req' \in [Requests -> Request]
         /\ pc'[r] = step /\ req'[r] = q
         /\ \A s \in Requests \ {r} :
               /\ pc'[s] = pc[s]
               /\ req'[s] \in {req[s], [req[s] EXCEPT !.stale = TRUE]}
               /\ req[s].user # u => req'[s] = req[s]
               /\ req[s].user = u /\ req[s].op \in Writes /\ req[s].ent # None /\ pc[s] # "drop"
                     => req'[s].stale
<1>1. \A s \in Requests : req[s] \in Request /\ [req[s] EXCEPT !.stale = TRUE] \in Request
  BY Staled DEF TypeOK
<1>2. \A s \in Requests : [req[s] EXCEPT !.stale = TRUE].stale
  BY Staled DEF TypeOK
<1>3. pc' \in [Requests -> Steps] /\ pc'[r] = step /\ \A s \in Requests \ {r} : pc'[s] = pc[s]
  BY DEF Writing, TypeOK
<1>4. \A s \in Requests : req'[s] =
        IF s = r THEN q
        ELSE IF req[s].user = u /\ req[s].op \in Writes /\ req[s].ent # None /\ pc[s] # "drop"
             THEN [req[s] EXCEPT !.stale = TRUE]
        ELSE req[s]
  BY DEF Writing
<1>5. req' \in [Requests -> Request]
  <2>1. \A s \in Requests : req'[s] \in Request
    BY <1>1, <1>4
  <2>2. req' = [s \in Requests |-> req'[s]]
    BY DEF Writing
  <2>3. QED
    BY <2>1, <2>2
<1>6. QED
  BY <1>2, <1>3, <1>4, <1>5

\* Being marked stale changes nothing of what a request knows.
LEMMA StaleKnows ==
  ASSUME NEW step, NEW q \in Request, q.user # None, Knows(step, q)
  PROVE  Knows(step, [q EXCEPT !.stale = TRUE])
<1> DEFINE x == [q EXCEPT !.stale = TRUE]
<1>1. /\ x.op = q.op /\ x.user = q.user /\ x.email = q.email /\ x.pass = q.pass
      /\ x.role = q.role /\ x.ent = q.ent /\ x.drops = q.drops /\ x.rm = q.rm /\ x.add = q.add
  BY Staled
<1>2. step # "idle"
  BY NoRequestType DEF Knows, Asks
<1> HIDE DEF x
<1>3. QED
  BY <1>1, <1>2 DEF Knows, Asks, x

LEMMA WriteStep ==
  ASSUME IInv, NEW r \in Requests, NEW u \in Users,
         NEW step \in {"idle", "drop", "syncRead", "syncWrite"}, NEW q \in Request,
         Writing(r, u, step, q), req[r].user = u, u \in used, used' = used,
         \A v \in Users \ {u} : /\ row'[v] = row[v] /\ roles'[v] = roles[v]
                                /\ wanted'[v] = wanted[v] /\ (v \in broken <=> v \in broken'),
         Knows(step, q), AfterWrite(r, step, q, u), TypeOK'
  PROVE  IInv'
<1>1. /\ pc' \in [Requests -> Steps] /\ req' \in [Requests -> Request]
      /\ pc'[r] = step /\ req'[r] = q
      /\ \A s \in Requests \ {r} :
            /\ pc'[s] = pc[s]
            /\ req'[s] \in {req[s], [req[s] EXCEPT !.stale = TRUE]}
            /\ req[s].user # u => req'[s] = req[s]
            /\ req[s].user = u /\ req[s].op \in Writes /\ req[s].ent # None /\ pc[s] # "drop"
                  => req'[s].stale
  BY WritingOthers DEF IInv, Steps
<1>2. \A s \in Requests : req[s] \in Request /\ Knows(pc[s], req[s]) /\ Picture(pc[s], req[s])
  BY DEF IInv, TypeOK
<1>3. used \subseteq Users /\ u # None
  BY AccountsAssumption DEF IInv, TypeOK
<1>4. \A s \in Requests \ {r} : req'[s].user = req[s].user /\ req'[s].op = req[s].op
                                /\ req'[s].ent = req[s].ent
  <2> SUFFICES ASSUME NEW s \in Requests \ {r}
               PROVE  req'[s].user = req[s].user /\ req'[s].op = req[s].op
                      /\ req'[s].ent = req[s].ent
    OBVIOUS
  <2>1. CASE req'[s] = [req[s] EXCEPT !.stale = TRUE]
    BY <1>2, <2>1, Staled
  <2>2. QED
    BY <1>1, <2>1
<1>5. ASSUME NEW s \in Requests PROVE Knows(pc'[s], req'[s])
  <2>1. CASE s = r
    BY <1>1, <2>1
  <2>2. CASE s # r
    BY <1>1, <1>2, <1>3, <2>2, StaleKnows
  <2>3. QED
    BY <2>1, <2>2
<1>6. ASSUME NEW s \in Requests PROVE Picture(pc[s], req[s])'
  <2>1. CASE s = r
    BY <1>1, <2>1 DEF Picture, Syncs
  <2>2. CASE s # r /\ req[s].user # u
    BY <1>1, <1>2, <1>3, <2>2, SamePicture
  <2>3. CASE s # r /\ req[s].user = u
    <3>1. SUFFICES ASSUME req'[s].op \in Loads, ~req'[s].stale,
                          pc'[s] \in {"findRoles", "checkEmail", "findRole", "updateRow",
                                     "deleteRow"}
                   PROVE  FALSE
      BY DEF Picture
    <3>2. req[s].op \in Writes /\ pc[s] # "drop" /\ req[s].op \in Loads
      BY <1>1, <1>4, <2>3, <3>1 DEF Loads
    <3>3. req[s].ent # None
      BY <1>1, <1>2, <2>3, <3>1, <3>2 DEF Knows, Asks
    <3>4. QED
      BY <1>1, <2>3, <3>1, <3>2, <3>3
  <2>4. QED
    BY <2>1, <2>2, <2>3
<1>7. ASSUME NEW v \in Users \ {u} PROVE AccountInv(v)'
  <2>1. \A s \in Requests \ {r} : req[s].user = v => req'[s] = req[s]
    BY <1>1
  <2>2. q.user \in {u, None}
    BY NoRequestType DEF AfterWrite
  <2>3. step \in Steps
    BY DEF Steps
  <2>4. QED
    BY <1>1, <1>4, <2>1, <2>2, <2>3, OtherAccounts
<1>8. AccountInv(u)'
  <2>1. \A s \in Requests \ {r} : s \in Syncing(u)' <=> s \in Syncing(u)
    BY <1>1, <1>4 DEF Syncing
  <2>2. \A s \in Syncing(u)' : s # r => req'[s].stale
    <3> SUFFICES ASSUME NEW s \in Syncing(u)', s # r PROVE req'[s].stale
      OBVIOUS
    <3>1. s \in Requests /\ req[s].user = u /\ pc[s] \in Syncs
      BY <2>1 DEF Syncing
    <3>2. req[s].op \in Writes /\ req[s].ent # None /\ pc[s] # "drop"
      BY <1>2, <3>1 DEF Knows, Asks, Syncs
    <3>3. QED
      BY <1>1, <3>1, <3>2
  <2>3. r \in Syncing(u)' <=> step \in Syncs
    BY <1>1, NoRequestType DEF Syncing, AfterWrite, Knows, Asks
  <2>4. Syncing(u)' \subseteq {r} => Syncing(u) \subseteq {r}
    BY <2>1 DEF Syncing
  <2>5. ASSUME u \notin broken', Syncing(u)' = {}
        PROVE  StoredAccount(u)' = wanted'[u]
    BY <2>3, <2>4, <2>5 DEF AfterWrite
  <2>6. ASSUME u \notin broken', NEW s \in Requests, Syncing(u)' = {s}, ~req'[s].stale
        PROVE  OnItsWay(pc[s], req[s], u)'
    <3>1. s = r
      BY <2>2, <2>6
    <3>2. OnItsWay(step, q, u)'
      BY <1>1, <2>3, <2>4, <2>6, <3>1 DEF AfterWrite
    <3>3. QED
      BY <1>1, <3>1, <3>2
  <2>7. u \in used'
    OBVIOUS
  <2>8. QED
    BY <2>2, <2>5, <2>6, <2>7 DEF AccountInv
<1>9. QED
  <2>1. \A s \in Requests : Knows(pc[s], req[s])'
    BY <1>5, SameKnows
  <2>2. QED
    BY <1>6, <1>7, <1>8, <2>1 DEF IInv

\* A step of syncUserRoles that writes nothing: the comparison, and every failure.
LEMMA SyncStep ==
  ASSUME IInv, NEW r \in Requests, NEW u \in Users,
         NEW step \in {"idle", "drop", "syncWrite"}, NEW q \in Request,
         Goto(r, step, q), req[r].user = u, pc[r] \in Syncs,
         UNCHANGED <<row, roles, used>>,
         \A v \in Users \ {u} : wanted'[v] = wanted[v] /\ (v \in broken <=> v \in broken'),
         step \in Syncs => (q.stale <=> req[r].stale),
         step \notin Syncs /\ req[r].stale => u \in broken',
         Knows(step, q), AfterWrite(r, step, q, u), TypeOK'
  PROVE  IInv'
<1>1. /\ pc' \in [Requests -> Steps] /\ req' \in [Requests -> Request]
      /\ pc'[r] = step /\ req'[r] = q
      /\ \A s \in Requests \ {r} : pc'[s] = pc[s] /\ req'[s] = req[s]
  BY GotoType DEF IInv, TypeOK, Steps
<1>2. \A s \in Requests : req[s] \in Request /\ Knows(pc[s], req[s]) /\ Picture(pc[s], req[s])
  BY DEF IInv, TypeOK
<1>3. used \subseteq Users /\ u # None
  BY AccountsAssumption DEF IInv, TypeOK
<1>4. ASSUME NEW s \in Requests PROVE (Knows(pc[s], req[s]) /\ Picture(pc[s], req[s]))'
  <2>1. Knows(pc'[s], req'[s])
    BY <1>1, <1>2
  <2>2. Picture(pc'[s], req'[s])
    BY <1>1, <1>2 DEF Picture, Syncs
  <2>3. QED
    BY <1>1, <1>3, <2>1, <2>2, SameKnows, SamePicture
<1>5. ASSUME NEW v \in Users \ {u} PROVE AccountInv(v)'
  <2>1. q.user \in {u, None}
    BY NoRequestType DEF AfterWrite
  <2>2. step \in Steps
    BY DEF Steps
  <2>3. QED
    BY <1>1, <2>1, <2>2, OtherAccounts
<1>6. AccountInv(u)'
  <2>1. \A s \in Requests \ {r} : s \in Syncing(u)' <=> s \in Syncing(u)
    BY <1>1 DEF Syncing
  <2>2. r \in Syncing(u)
    BY DEF Syncing
  <2>3. r \in Syncing(u)' <=> step \in Syncs
    BY <1>1, NoRequestType DEF Syncing, AfterWrite, Knows, Asks
  <2>4. Syncing(u)' \subseteq {r} => Syncing(u) \subseteq {r}
    BY <2>1 DEF Syncing
  <2>5. \A s, t \in Syncing(u) : s = t \/ req[s].stale \/ req[t].stale
    BY DEF IInv, AccountInv
  <2>6. \A s \in Syncing(u)' : s \in Syncing(u) /\ (req'[s].stale <=> req[s].stale)
    BY <1>1, <2>1, <2>2, <2>3 DEF Syncing
  <2>7. ASSUME u \notin broken', Syncing(u)' = {}
        PROVE  StoredAccount(u)' = wanted'[u]
    BY <2>3, <2>4, <2>7 DEF AfterWrite
  <2>8. ASSUME u \notin broken', NEW s \in Requests, Syncing(u)' = {s}, ~req'[s].stale
        PROVE  OnItsWay(pc[s], req[s], u)'
    <3>1. s = r
      <4>1. SUFFICES ASSUME s # r PROVE FALSE
        OBVIOUS
      <4>2. req[r].stale
        BY <2>2, <2>5, <2>6, <2>8, <4>1
      <4>3. step \notin Syncs
        BY <2>3, <2>8, <4>1
      <4>4. QED
        BY <2>8, <4>2, <4>3
    <3>2. OnItsWay(step, q, u)'
      BY <1>1, <2>3, <2>4, <2>8, <3>1 DEF AfterWrite
    <3>3. QED
      BY <1>1, <3>1, <3>2
  <2>9. (u \in Stored => u \in used)'
    <3>1. u \in Stored => u \in used
      BY DEF IInv, AccountInv
    <3>2. QED
      BY <3>1, SameAccount
  <2>10. QED
    BY <2>5, <2>6, <2>7, <2>8, <2>9 DEF AccountInv
<1>7. QED
  BY <1>4, <1>5, <1>6 DEF IInv

-----------------------------------------------------------------------------
(* Requests that read, and checks before a write *)

LEMMA RequestFacts ==
  ASSUME IInv, NEW r \in Requests
  PROVE  /\ req[r] \in Request /\ Knows(pc[r], req[r]) /\ Picture(pc[r], req[r])
         /\ used \subseteq Users /\ faults \in 0..MaxFaults /\ ops \in 0..MaxOps
         /\ DOMAIN cache = Keys /\ excused \subseteq Keys
  BY DEF IInv, TypeOK

\* A request that ends before it has written anything.
LEMMA EndStep ==
  ASSUME IInv, NEW r \in Requests, End(r), pc[r] \notin Syncs,
         UNCHANGED <<row, roles, used, wanted, broken>>,
         DOMAIN cache' = Keys, excused' \subseteq Keys,
         ops' \in 0..MaxOps, faults' \in 0..MaxFaults
  PROVE  IInv'
<1>1. NoRequest \in Request /\ "idle" \in Steps \ Syncs
  BY NoRequestType DEF Steps, Syncs
<1>2. Knows("idle", NoRequest) /\ Picture("idle", NoRequest)
  <2>1. NoRequest.op = None /\ NoRequest.user = None /\ NoRequest.rm = {} /\ NoRequest.add = {}
    BY NoRequestType
  <2>2. None \notin Writes \cup Reads
    BY NoneAssumption
  <2>3. Knows("idle", NoRequest)
    BY <2>1, <2>2 DEF Knows, Asks, Syncs, Loads, Writes, Creations, RoleChanges, Reads
  <2>4. Picture("idle", NoRequest)
    BY <2>1 DEF Picture
  <2>5. QED
    BY <2>3, <2>4
<1>3. QED
  BY <1>1, <1>2, Frame DEF End

\* Where a request may be, with what it may hold.
LegalAt(step, q) == q \in Request /\ Knows(step, q) /\ Picture(step, q)

\* A new request knows what it was asked, and nothing else.
LEMMA FreshLegal ==
  ASSUME used \subseteq Users,
         NEW step \in {"checkEmail", "findRow", "lookup"},
         NEW op \in Writes \cup Reads, NEW user \in used \cup {None},
         NEW email \in Emails \cup {None}, NEW pass \in Passwords \cup {None},
         NEW role \in Roles \cup {None},
         op \in Creations <=> step = "checkEmail",
         op \in Reads <=> step = "lookup",
         op \in Loads \cup {"getUser"} => user # None,
         op \in Creations => email # None /\ pass # None,
         op \in RoleChanges => role # None,
         op = "changePassword" => pass # None,
         op = "getUserByEmail" => email # None
  PROVE  LegalAt(step, Fresh(op, user, email, pass, role))
<1> DEFINE q == Fresh(op, user, email, pass, role)
<1>1. q \in Request
  BY DEF Fresh, Request
<1>2. /\ q.op = op /\ q.user = user /\ q.email = email /\ q.pass = pass
      /\ q.role = role /\ q.ent = None /\ q.drops = <<>> /\ q.rm = {} /\ q.add = {}
  BY DEF Fresh
<1> HIDE DEF q
<1>3. Knows(step, q)
  BY <1>2 DEF Knows, Asks, Syncs, Loads, Writes, Creations, RoleChanges, Reads
<1>4. Picture(step, q)
  BY <1>2 DEF Picture, Loads
<1>5. QED
  BY <1>1, <1>3, <1>4 DEF LegalAt, q

LEMMA BeginStep ==
  ASSUME IInv, NEW r \in Requests, Begin(r)
  PROVE  IInv'
<1>1. used \subseteq Users /\ pc[r] \notin Syncs /\ DOMAIN cache' = Keys /\ excused' \subseteq Keys
      /\ ops' \in 0..MaxOps /\ faults' \in 0..MaxFaults
      /\ UNCHANGED <<row, roles, used, wanted, broken>>
  BY RequestFacts, AccountsAssumption DEF Begin, At, Syncs
<1>2. ASSUME NEW step \in {"checkEmail", "findRow", "lookup"}, NEW q, LegalAt(step, q), Goto(r, step, q)
      PROVE  IInv'
  <2>1. step \in Steps \ Syncs
    BY DEF Steps, Syncs
  <2>2. QED
    BY <1>1, <1>2, <2>1, Frame DEF LegalAt
<1>3. ASSUME NEW op \in Creations, NEW e \in Emails, NEW p \in Passwords
      PROVE  LegalAt("checkEmail", Fresh(op, None, e, p, None))
  BY <1>1, AccountsAssumption, FreshLegal DEF Loads, Writes, Creations, RoleChanges, Reads
<1>4. ASSUME NEW u \in used, NEW e \in Emails \cup {None}
      PROVE  LegalAt("findRow", Fresh("updateUser", u, e, None, None))
  BY <1>1, AccountsAssumption, FreshLegal DEF Loads, Writes, Creations, RoleChanges, Reads
<1>5. ASSUME NEW u \in used, NEW op \in RoleChanges, NEW o \in Roles
      PROVE  LegalAt("findRow", Fresh(op, u, None, None, o))
  BY <1>1, AccountsAssumption, FreshLegal DEF Loads, Writes, Creations, RoleChanges, Reads
<1>6. ASSUME NEW u \in used, NEW p \in Passwords
      PROVE  LegalAt("findRow", Fresh("changePassword", u, None, p, None))
  BY <1>1, AccountsAssumption, FreshLegal DEF Loads, Writes, Creations, RoleChanges, Reads
<1>7. ASSUME NEW u \in used
      PROVE  LegalAt("findRow", Fresh("deleteUser", u, None, None, None))
  BY <1>1, AccountsAssumption, FreshLegal DEF Loads, Writes, Creations, RoleChanges, Reads
<1>8. ASSUME NEW u \in used
      PROVE  LegalAt("lookup", Fresh("getUser", u, None, None, None))
  BY <1>1, AccountsAssumption, FreshLegal DEF Loads, Writes, Creations, RoleChanges, Reads
<1>9. ASSUME NEW e \in Emails
      PROVE  LegalAt("lookup", Fresh("getUserByEmail", None, e, None, None))
  BY <1>1, AccountsAssumption, FreshLegal DEF Loads, Writes, Creations, RoleChanges, Reads
<1>10. LegalAt("lookup", Fresh("listUsers", None, None, None, None))
  BY <1>1, AccountsAssumption, FreshLegal DEF Loads, Writes, Creations, RoleChanges, Reads
<1>11. QED
  <2>1. CASE \E op \in Creations, e \in Emails, p \in Passwords :
               Goto(r, "checkEmail", Fresh(op, None, e, p, None))
    BY <1>2, <1>3, <2>1
  <2>2. CASE \E u \in used, e \in Emails \cup {None} :
               Goto(r, "findRow", Fresh("updateUser", u, e, None, None))
    BY <1>2, <1>4, <2>2
  <2>3. CASE \E u \in used, op \in RoleChanges, o \in Roles :
               Goto(r, "findRow", Fresh(op, u, None, None, o))
    BY <1>2, <1>5, <2>3
  <2>4. CASE \E u \in used, p \in Passwords :
               Goto(r, "findRow", Fresh("changePassword", u, None, p, None))
    BY <1>2, <1>6, <2>4
  <2>5. CASE \E u \in used :
               Goto(r, "findRow", Fresh("deleteUser", u, None, None, None))
    BY <1>2, <1>7, <2>5
  <2>6. CASE \E u \in used :
               Goto(r, "lookup", Fresh("getUser", u, None, None, None))
    BY <1>2, <1>8, <2>6
  <2>7. CASE \E e \in Emails :
               Goto(r, "lookup", Fresh("getUserByEmail", None, e, None, None))
    BY <1>2, <1>9, <2>7
  <2>8. CASE Goto(r, "lookup", Fresh("listUsers", None, None, None, None))
    BY <1>2, <1>10, <2>8
  <2>9. QED
    BY <2>1, <2>2, <2>3, <2>4, <2>5, <2>6, <2>7, <2>8 DEF Begin

LEMMA LookupStep ==
  ASSUME IInv, NEW r \in Requests, Lookup(r)
  PROVE  IInv'
<1>1. /\ req[r] \in Request /\ Knows("lookup", req[r]) /\ pc[r] = "lookup" /\ pc[r] \notin Syncs
      /\ DOMAIN cache' = Keys /\ excused' \subseteq Keys /\ ops' \in 0..MaxOps
      /\ UNCHANGED <<row, roles, used, wanted, broken>>
  BY RequestFacts DEF Lookup, At, Syncs
<1>2. faults' \in 0..MaxFaults
  BY RequestFacts, CallType DEF Lookup
<1>3. CASE End(r)
  BY <1>1, <1>2, <1>3, EndStep
<1>4. CASE Goto(r, "findRow", req[r])
  <2>1. Knows("findRow", req[r]) /\ Picture("findRow", req[r])
    BY <1>1 DEF Knows, Asks, Picture, Syncs
  <2>2. "findRow" \in Steps \ Syncs
    BY DEF Steps, Syncs
  <2>3. QED
    BY <1>1, <1>2, <1>4, <2>1, <2>2, Frame
<1>5. QED
  BY <1>3, <1>4 DEF Lookup

\* The entity of a row whose roles are still to be read.
LEMMA LoadedRow ==
  ASSUME NEW q \in Request, NEW u \in Users, NEW x \in [email : Emails, pass : Passwords]
  PROVE  LET p == Loaded(q, u, x) IN
         /\ p \in Request /\ p.user = u /\ p.ent.email = x.email /\ p.ent.pass = x.pass /\ p.ent # None
         /\ p.op = q.op /\ p.email = q.email /\ p.pass = q.pass /\ p.role = q.role
         /\ p.stale = q.stale /\ p.drops = q.drops /\ p.rm = q.rm /\ p.add = q.add
<1> DEFINE a == [email |-> x.email, pass |-> x.pass, roles |-> {}]
           p == [q EXCEPT !.user = u, !.ent = a]
<1>1. a \in Account /\ a # None /\ a.email = x.email /\ a.pass = x.pass
  BY NoneAssumption DEF Account
<1> HIDE DEF a
<1>2. p \in Request
  BY <1>1 DEF Request
<1>3. /\ p.user = u /\ p.ent = a /\ p.op = q.op /\ p.email = q.email /\ p.pass = q.pass
      /\ p.role = q.role /\ p.stale = q.stale /\ p.drops = q.drops /\ p.rm = q.rm /\ p.add = q.add
  BY DEF Request
<1>4. QED
  BY <1>1, <1>2, <1>3 DEF a, Loaded

LEMMA StoredRow ==
  ASSUME IInv, NEW u \in Stored
  PROVE  /\ u \in Users /\ u \in used /\ row[u] \in [email : Emails, pass : Passwords]
         /\ StoredAccount(u) = [email |-> row[u].email, pass |-> row[u].pass, roles |-> roles[u]]
         /\ StoredAccount(u) \in Account /\ StoredAccount(u) # None
<1>1. u \in Users /\ u \in used /\ row[u] \in [email : Emails, pass : Passwords] /\ roles[u] \subseteq Roles
  BY DEF IInv, TypeOK, AccountInv, Stored
<1>2. QED
  BY <1>1, NoneAssumption DEF StoredAccount, Account

LEMMA FindRowStep ==
  ASSUME IInv, NEW r \in Requests, FindRow(r)
  PROVE  IInv'
<1>1. /\ req[r] \in Request /\ Knows("findRow", req[r]) /\ pc[r] = "findRow" /\ pc[r] \notin Syncs
      /\ DOMAIN cache' = Keys /\ excused' \subseteq Keys /\ ops' \in 0..MaxOps
      /\ UNCHANGED <<row, roles, used, wanted, broken>> /\ req[r].op # "listUsers"
  BY RequestFacts DEF FindRow, At, Syncs
<1>2. faults' \in 0..MaxFaults
  BY RequestFacts, CallType DEF FindRow
<1>3. CASE End(r)
  BY <1>1, <1>2, <1>3, EndStep
<1>4. ASSUME NEW u \in Found(r),
             Goto(r, "findRoles", Loaded(req[r], u, row[u]))
      PROVE  IInv'
  <2> DEFINE p == Loaded(req[r], u, row[u])
  <2>1. u \in Stored /\ (req[r].op # "getUserByEmail" => u = req[r].user)
    BY DEF Found, Owner
  <2>2. u \in Users /\ u \in used /\ row[u] \in [email : Emails, pass : Passwords]
    BY <2>1, StoredRow
  <2>3. /\ p \in Request /\ p.user = u /\ p.ent.email = row[u].email /\ p.ent.pass = row[u].pass
        /\ p.ent # None /\ p.op = req[r].op /\ p.email = req[r].email /\ p.pass = req[r].pass
        /\ p.role = req[r].role /\ p.stale = req[r].stale /\ p.rm = req[r].rm /\ p.add = req[r].add
    BY <1>1, <2>2, LoadedRow
  <2> HIDE DEF p
  <2>4. Knows("findRoles", p)
    BY <1>1, <2>2, <2>3, AccountsAssumption DEF Knows, Asks, Syncs, Reads
  <2>5. Picture("findRoles", p)
    BY <2>1, <2>3 DEF Picture
  <2>6. "findRoles" \in Steps \ Syncs /\ Goto(r, "findRoles", p)
    BY <1>4 DEF Steps, Syncs, p
  <2>7. QED
    BY <1>1, <1>2, <2>3, <2>4, <2>5, <2>6, Frame
<1>5. QED
  BY <1>3, <1>4 DEF FindRow

LEMMA FindAllStep ==
  ASSUME IInv, NEW r \in Requests, FindAll(r)
  PROVE  IInv'
<1>1. /\ req[r] \in Request /\ Knows("findRow", req[r]) /\ pc[r] = "findRow" /\ pc[r] \notin Syncs
      /\ DOMAIN cache' = Keys /\ excused' \subseteq Keys /\ ops' \in 0..MaxOps
      /\ UNCHANGED <<row, roles, used, wanted, broken>> /\ req[r].op = "listUsers"
  BY RequestFacts DEF FindAll, At, Syncs
<1>2. faults' \in 0..MaxFaults
  BY RequestFacts, CallType DEF FindAll
<1>3. CASE End(r)
  BY <1>1, <1>2, <1>3, EndStep
<1>4. CASE Goto(r, "store", [req[r] EXCEPT !.page = Page])
  <2> DEFINE p == [req[r] EXCEPT !.page = Page]
  <2>1. Page \subseteq [user : Users, email : Emails]
    <3>1. \A u \in Stored : u \in Users /\ row[u].email \in Emails
      BY StoredRow
    <3>2. QED
      BY <3>1 DEF Page, ListEntry
  <2>2. p \in Request
    BY <1>1, <2>1 DEF Request
  <2>3. /\ p.op = req[r].op /\ p.user = req[r].user /\ p.email = req[r].email
        /\ p.pass = req[r].pass /\ p.role = req[r].role /\ p.rm = req[r].rm /\ p.add = req[r].add
    BY <1>1 DEF Request
  <2> HIDE DEF p
  <2>4. Knows("store", p) /\ Picture("store", p)
    BY <1>1, <2>3 DEF Knows, Asks, Picture, Syncs, Reads
  <2>5. "store" \in Steps \ Syncs /\ Goto(r, "store", p)
    BY <1>4 DEF Steps, Syncs, p
  <2>6. QED
    BY <1>1, <1>2, <2>2, <2>4, <2>5, Frame
<1>5. QED
  BY <1>3, <1>4 DEF FindAll

LEMMA AccountEqual ==
  ASSUME NEW a \in Account, NEW b \in Account, a.email = b.email, a.pass = b.pass, a.roles = b.roles
  PROVE  a = b
  BY DEF Account

LEMMA LoadedRoles ==
  ASSUME NEW q \in Request, q.ent # None, NEW rs \in SUBSET Roles
  PROVE  LET p == [q EXCEPT !.ent.roles = rs] IN
         /\ p \in Request /\ p.ent \in Account /\ p.ent # None
         /\ p.ent.email = q.ent.email /\ p.ent.pass = q.ent.pass /\ p.ent.roles = rs
         /\ p.user = q.user /\ p.op = q.op /\ p.email = q.email /\ p.pass = q.pass
         /\ p.role = q.role /\ p.stale = q.stale /\ p.drops = q.drops /\ p.rm = q.rm /\ p.add = q.add
<1> DEFINE a == [q.ent EXCEPT !.roles = rs]
           p == [q EXCEPT !.ent.roles = rs]
<1>1. q.ent \in Account
  BY DEF Request
<1>2. a \in Account /\ a # None /\ a.email = q.ent.email /\ a.pass = q.ent.pass /\ a.roles = rs
  BY <1>1, NoneAssumption DEF Account
<1>3. p = [q EXCEPT !.ent = a]
  BY DEF Request
<1> HIDE DEF a, p
<1>4. p \in Request /\ p.ent = a
  BY <1>2, <1>3 DEF Request
<1>5. /\ p.user = q.user /\ p.op = q.op /\ p.email = q.email /\ p.pass = q.pass
      /\ p.role = q.role /\ p.stale = q.stale /\ p.drops = q.drops /\ p.rm = q.rm /\ p.add = q.add
  BY <1>3 DEF Request
<1>6. QED
  BY <1>2, <1>4, <1>5 DEF p

LEMMA FindRolesStep ==
  ASSUME IInv, NEW r \in Requests, FindRoles(r)
  PROVE  IInv'
<1>1. /\ req[r] \in Request /\ Knows("findRoles", req[r]) /\ Picture("findRoles", req[r])
      /\ pc[r] = "findRoles" /\ pc[r] \notin Syncs
      /\ DOMAIN cache' = Keys /\ excused' \subseteq Keys /\ ops' \in 0..MaxOps
      /\ UNCHANGED <<row, roles, used, wanted, broken>>
  BY RequestFacts DEF FindRoles, At, Syncs
<1>2. faults' \in 0..MaxFaults
  BY RequestFacts, CallType DEF FindRoles
<1>3. CASE End(r)
  BY <1>1, <1>2, <1>3, EndStep
<1> DEFINE u == req[r].user
           q == [req[r] EXCEPT !.ent.roles = roles[u]]
<1>4. CASE Goto(r, AfterFind(q), q)
  <2>1. u \in Users /\ u \in used /\ req[r].ent # None /\ roles[u] \subseteq Roles
    BY <1>1, RequestFacts DEF Knows, Asks, IInv, TypeOK
  <2>2. /\ q \in Request /\ q.ent \in Account /\ q.ent # None
        /\ q.ent.email = req[r].ent.email /\ q.ent.pass = req[r].ent.pass /\ q.ent.roles = roles[u]
        /\ q.user = u /\ q.op = req[r].op /\ q.email = req[r].email /\ q.pass = req[r].pass
        /\ q.role = req[r].role /\ q.stale = req[r].stale /\ q.rm = req[r].rm /\ q.add = req[r].add
    BY <1>1, <2>1, LoadedRoles
  <2>3. Goto(r, AfterFind(q), q)
    BY <1>4
  <2>4. q.op \in {"getUser", "getUserByEmail"} \cup Loads
    BY <1>1, <2>2 DEF Knows, Asks, Reads
  <2> HIDE DEF q
  <2> DEFINE step == AfterFind(q)
  <2>5. /\ step \in {"store", "findRole", "updateRow", "checkEmail", "deleteRow"}
        /\ q.op \in Reads => step = "store"
        /\ q.op \in Loads => step # "store"
        /\ step = "findRole" => q.op \in RoleChanges
        /\ step = "checkEmail" => q.op = "updateUser" /\ q.email # None
        /\ step = "updateRow" => q.op # "deleteUser"
        /\ step = "deleteRow" => q.op = "deleteUser"
    BY <2>4 DEF AfterFind, Loads, Writes, Creations, RoleChanges, Reads
  <2> HIDE DEF step, u
  <2>6. q.email \in Emails \cup {None}
    BY <2>2 DEF Request
  <2>7. Knows(step, q)
    BY <1>1, <2>1, <2>2, <2>4, <2>5, <2>6, AccountsAssumption DEF Knows, Asks, Syncs, Loads, Reads
  <2>8. ASSUME q.op \in Loads, ~q.stale PROVE q.ent = StoredAccount(u)
    <3>1. u \in Stored /\ q.ent.email = row[u].email /\ q.ent.pass = row[u].pass
      BY <1>1, <2>2, <2>8 DEF Picture, u
    <3>2. /\ StoredAccount(u) = [email |-> row[u].email, pass |-> row[u].pass, roles |-> roles[u]]
          /\ StoredAccount(u) \in Account
      BY <3>1, StoredRow
    <3>3. QED
      BY <2>2, <3>1, <3>2, AccountEqual
  <2>9. Picture(step, q)
    BY <2>2, <2>5, <2>8 DEF Picture
  <2>10. step \in Steps \ Syncs /\ Goto(r, step, q)
    BY <2>3, <2>5 DEF Steps, Syncs, step
  <2>11. QED
    BY <1>1, <1>2, <2>2, <2>7, <2>9, <2>10, Frame
<1>5. QED
  BY <1>3, <1>4 DEF FindRoles

LEMMA CheckEmailStep ==
  ASSUME IInv, NEW r \in Requests, CheckEmail(r)
  PROVE  IInv'
<1>1. /\ req[r] \in Request /\ Knows("checkEmail", req[r]) /\ Picture("checkEmail", req[r])
      /\ pc[r] = "checkEmail" /\ pc[r] \notin Syncs
      /\ DOMAIN cache' = Keys /\ excused' \subseteq Keys /\ ops' \in 0..MaxOps
      /\ UNCHANGED <<row, roles, used, wanted, broken>>
  BY RequestFacts DEF CheckEmail, At, Syncs
<1>2. faults' \in 0..MaxFaults
  BY RequestFacts, CallType DEF CheckEmail
<1>3. CASE End(r)
  BY <1>1, <1>2, <1>3, EndStep
<1>4. ASSUME NEW step \in {"findRole", "insertRow", "updateRow"}, Goto(r, step, req[r]),
             step = "findRole" => req[r].op = "register",
             step = "insertRow" => req[r].op = "createUser",
             step = "updateRow" => req[r].op \notin {"register", "createUser"}
      PROVE  IInv'
  <2>1. Knows(step, req[r]) /\ Picture(step, req[r])
    BY <1>1, <1>4 DEF Knows, Asks, Picture, Syncs, Loads, Writes, Creations, RoleChanges
  <2>2. step \in Steps \ Syncs
    BY DEF Steps, Syncs
  <2>3. QED
    BY <1>1, <1>2, <1>4, <2>1, <2>2, Frame
<1>5. CASE Goto(r, CASE req[r].op = "register" -> "findRole"
                     [] req[r].op = "createUser" -> "insertRow"
                     [] OTHER -> "updateRow", req[r])
  <2>1. CASE req[r].op = "register"
    BY <1>4, <1>5, <2>1
  <2>2. CASE req[r].op = "createUser"
    BY <1>4, <1>5, <2>2
  <2>3. CASE req[r].op \notin {"register", "createUser"}
    BY <1>4, <1>5, <2>3
  <2>4. QED
    BY <2>1, <2>2, <2>3
<1>6. QED
  BY <1>3, <1>5 DEF CheckEmail

LEMMA FindRoleStep ==
  ASSUME IInv, NEW r \in Requests, FindRole(r)
  PROVE  IInv'
<1>1. /\ req[r] \in Request /\ Knows("findRole", req[r]) /\ Picture("findRole", req[r])
      /\ pc[r] = "findRole" /\ pc[r] \notin Syncs
      /\ DOMAIN cache' = Keys /\ excused' \subseteq Keys /\ ops' \in 0..MaxOps
      /\ UNCHANGED <<row, roles, used, wanted, broken>>
  BY RequestFacts DEF FindRole, At, Syncs
<1>2. faults' \in 0..MaxFaults
  BY RequestFacts, CallType DEF FindRole
<1>3. CASE End(r)
  BY <1>1, <1>2, <1>3, EndStep
<1>4. CASE Goto(r, IF req[r].op = "register" THEN "insertRow" ELSE "updateRow", req[r])
  <2> DEFINE step == IF req[r].op = "register" THEN "insertRow" ELSE "updateRow"
  <2>1. Knows(step, req[r]) /\ Picture(step, req[r])
    BY <1>1 DEF Knows, Asks, Picture, Syncs, Loads, Writes, Creations, RoleChanges
  <2>2. step \in Steps \ Syncs
    BY DEF Steps, Syncs
  <2>3. QED
    BY <1>1, <1>2, <1>4, <2>1, <2>2, Frame
<1>5. QED
  BY <1>3, <1>4 DEF FindRole

-----------------------------------------------------------------------------
(* The cache *)

LEMMA SeqTail ==
  ASSUME NEW S, NEW s \in Seq(S), s # <<>>
  PROVE  Head(s) \in S /\ Tail(s) \in Seq(S)
  OBVIOUS

\* Where a request goes once its statements are done, and what it still holds.
LEMMA RestLegal ==
  ASSUME used \subseteq Users, NEW q \in Request, Asks(q), q.rm = {}, q.add = {}
  PROVE  /\ NextStep(q) \in {"drop", "idle"}
         /\ Rest(q) \in {q, NoRequest}
         /\ LegalAt(NextStep(q), Rest(q))
<1>2. CASE q.drops = <<>>
  <2>1. NextStep(q) = "idle" /\ Rest(q) = NoRequest
    BY <1>2 DEF NextStep, Rest
  <2>2. Knows("idle", NoRequest) /\ Picture("idle", NoRequest)
    BY NoRequestType, AccountsAssumption, NoneAssumption
       DEF Knows, Asks, Picture, Syncs, Loads, Writes, Creations, RoleChanges, Reads
  <2>3. QED
    BY <2>1, <2>2, NoRequestType DEF LegalAt
<1>3. CASE q.drops # <<>>
  <2>1. NextStep(q) = "drop" /\ Rest(q) = q
    BY <1>3 DEF NextStep, Rest
  <2>2. Knows("drop", q) /\ Picture("drop", q)
    BY <1>3 DEF Knows, Syncs, Picture
  <2>3. QED
    BY <2>1, <2>2 DEF LegalAt
<1>4. QED
  BY <1>2, <1>3

LEMMA DropStep ==
  ASSUME IInv, NEW r \in Requests, Drop(r)
  PROVE  IInv'
<1>1. /\ req[r] \in Request /\ Knows("drop", req[r]) /\ used \subseteq Users
      /\ pc[r] = "drop" /\ pc[r] \notin Syncs /\ ops' \in 0..MaxOps
      /\ UNCHANGED <<row, roles, used, wanted, broken>>
  BY RequestFacts DEF Drop, At, Syncs
<1>2. req[r].drops \in Seq(Keys) /\ req[r].drops # <<>> /\ req[r].rm = {} /\ req[r].add = {} /\ Asks(req[r])
  BY <1>1 DEF Request, Knows
<1> DEFINE k == Head(req[r].drops)
           q == [req[r] EXCEPT !.drops = Tail(@)]
<1>3. k \in Keys /\ Tail(req[r].drops) \in Seq(Keys)
  BY <1>2, SeqTail
<1>4. DOMAIN cache' = Keys /\ excused' \subseteq Keys /\ faults' \in 0..MaxFaults
  BY <1>3, RequestFacts, CallType DEF Drop
<1>5. /\ q \in Request /\ q.rm = {} /\ q.add = {} /\ q.op = req[r].op /\ q.user = req[r].user
      /\ q.email = req[r].email /\ q.pass = req[r].pass /\ q.role = req[r].role
  BY <1>1, <1>2, <1>3 DEF Request
<1>6. Goto(r, NextStep(q), Rest(q))
  BY DEF Drop
<1> HIDE DEF q
<1>7. Asks(q)
  BY <1>2, <1>5 DEF Asks
<1>8. NextStep(q) \in Steps \ Syncs /\ LegalAt(NextStep(q), Rest(q))
  BY <1>1, <1>5, <1>7, RestLegal DEF Steps, Syncs
<1>9. QED
  BY <1>1, <1>4, <1>6, <1>8, Frame DEF LegalAt

LEMMA StoreStep ==
  ASSUME IInv, NEW r \in Requests, Store(r)
  PROVE  IInv'
<1>1. /\ req[r] \in Request /\ Knows("store", req[r]) /\ used \subseteq Users
      /\ pc[r] = "store" /\ pc[r] \notin Syncs /\ ops' \in 0..MaxOps /\ End(r)
      /\ UNCHANGED <<row, roles, used, wanted, broken>>
  BY RequestFacts DEF Store, At, Syncs
<1>2. ReadKey(r) \in Keys
  <2>1. req[r].op = "getUser" => req[r].user \in Users
    BY <1>1 DEF Knows, Asks
  <2>2. req[r].op = "getUserByEmail" => req[r].email \in Emails
    BY <1>1 DEF Knows, Asks
  <2>3. CASE req[r].op = "getUser"
    BY <2>1, <2>3, KeyTypes DEF ReadKey
  <2>4. CASE req[r].op = "getUserByEmail"
    BY <2>2, <2>4, KeyTypes DEF ReadKey
  <2>5. CASE req[r].op \notin {"getUser", "getUserByEmail"}
    BY <2>5, KeyTypes DEF ReadKey
  <2>6. QED
    BY <2>3, <2>4, <2>5
<1>3. DOMAIN cache' = Keys /\ excused' \subseteq Keys /\ faults' \in 0..MaxFaults
  BY <1>2, RequestFacts, CallType DEF Store
<1>4. QED
  BY <1>1, <1>3, EndStep

LEMMA ExpireStep ==
  ASSUME IInv, NEW k \in Keys, Expire(k)
  PROVE  IInv'
<1>1. TypeOK'
  BY DEF IInv, TypeOK, Expire
<1>2. UNCHANGED <<row, roles, used, pc, req, wanted, broken>>
  BY DEF Expire
<1>3. ASSUME NEW r \in Requests PROVE (Knows(pc[r], req[r]) /\ Picture(pc[r], req[r]))'
  BY <1>2 DEF IInv, Knows, Asks, Picture, Stored, StoredAccount
<1>4. ASSUME NEW u \in Users PROVE AccountInv(u)'
  BY <1>2 DEF IInv, AccountInv, Syncing, OnItsWay, Asked, Stored, StoredAccount
<1>5. QED
  BY <1>1, <1>3, <1>4 DEF IInv

-----------------------------------------------------------------------------
(* The writes *)

\* What a request saves is an account, and what it deletes are keys.
LEMMA SaveType ==
  ASSUME NEW q \in Request, NEW u \in Users, Asks(q), q.op \in Writes,
         q.op \in Loads => q.ent # None
  PROVE  /\ q.op # "deleteUser" => Entity(q) \in Account /\ Entity(q) # None
         /\ Drops(q, u) \in Seq(Keys) /\ (q.op = "deleteUser" => Drops(q, u) # <<>>)
<1>1. q.op # "deleteUser" => Entity(q) \in Account
  BY EntityType DEF Asks
<1>2. q.op \in Creations => q.email \in Emails
  BY DEF Asks
<1>3. Drops(q, u) \in Seq(Keys) /\ (q.op = "deleteUser" => Drops(q, u) # <<>>)
  BY <1>1, <1>2, DropsType
<1>4. QED
  BY <1>1, <1>3, NoneAssumption

\* Rows stay rows.
LEMMA RowType ==
  ASSUME row \in [Users -> [email : Emails, pass : Passwords] \cup {None}], NEW u \in Users,
         NEW a \in Account, row' = [row EXCEPT ![u] = [email |-> a.email, pass |-> a.pass]]
  PROVE  /\ row' \in [Users -> [email : Emails, pass : Passwords] \cup {None}]
         /\ row'[u] # None /\ row'[u].email = a.email /\ row'[u].pass = a.pass
         /\ \A v \in Users \ {u} : row'[v] = row[v]
<1>1. [email |-> a.email, pass |-> a.pass] \in [email : Emails, pass : Passwords]
  BY DEF Account
<1>2. QED
  BY <1>1, NoneAssumption

\* Unannounced keys are keys.
LEMMA UnannouncedType ==
  ASSUME NEW q, NEW u \in Users, q.op = "register" => q.email \in Emails
  PROVE  Unannounced(q, u) \subseteq Keys
  BY KeyTypes DEF Unannounced

LEMMA InsertRowStep ==
  ASSUME IInv, NEW r \in Requests, InsertRow(r)
  PROVE  IInv'
<1>1. /\ req[r] \in Request /\ Knows("insertRow", req[r]) /\ used \subseteq Users
      /\ pc[r] = "insertRow" /\ pc[r] \notin Syncs /\ ops' \in 0..MaxOps
      /\ DOMAIN cache' = Keys /\ excused \subseteq Keys
      /\ UNCHANGED <<roles, wanted, broken>>
  BY RequestFacts DEF InsertRow, At, Syncs
<1>2. faults' \in 0..MaxFaults
  BY RequestFacts, CallType DEF InsertRow
<1>3. CASE End(r) /\ UNCHANGED <<row, used, excused>>
  BY <1>1, <1>2, <1>3, EndStep
<1>4. ASSUME NEW u \in Users \ used,
             LET q == [req[r] EXCEPT !.user = u, !.ent = Entity(req[r])] IN
             /\ row' = [row EXCEPT ![u] = [email |-> q.email, pass |-> q.pass]]
             /\ used' = used \cup {u}
             /\ Goto(r, "syncRead", [q EXCEPT !.drops = Drops(q, u)])
             /\ excused' = excused \cup Unannounced(q, u)
      PROVE  IInv'
  <2> DEFINE a == Entity(req[r])
             q == [req[r] EXCEPT !.user = u, !.ent = a]
             d == Drops(q, u)
             p == [q EXCEPT !.drops = d]
  <2>1. req[r].op \in Creations /\ Asks(req[r]) /\ req[r].rm = {} /\ req[r].add = {}
    BY <1>1 DEF Knows, Syncs
  <2>2. /\ a \in Account /\ a # None
        /\ a.email = req[r].email /\ a.pass = req[r].pass
    <3>1. a \in Account /\ a # None
      BY <1>1, <2>1, SaveType DEF Writes, Loads, Creations
    <3>2. a.email = req[r].email /\ a.pass = req[r].pass
      BY <2>1 DEF Entity, Creations
    <3>3. QED
      BY <3>1, <3>2
  <2>3. /\ row' = [row EXCEPT ![u] = [email |-> q.email, pass |-> q.pass]]
        /\ used' = used \cup {u} /\ Goto(r, "syncRead", p)
        /\ excused' = excused \cup Unannounced(q, u)
    BY <1>4
  <2> HIDE DEF a
  <2>4. /\ q \in Request /\ q.user = u /\ q.ent = a /\ q.op = req[r].op /\ q.email = req[r].email
        /\ q.pass = req[r].pass /\ q.role = req[r].role /\ q.rm = {} /\ q.add = {}
        /\ q.stale = req[r].stale
    BY <1>1, <2>1, <2>2 DEF Request
  <2> HIDE DEF q
  <2>6. d \in Seq(Keys)
    <3>1. q.op \in Writes /\ q.op # "deleteUser" /\ q.ent # None /\ q.email \in Emails
      BY <2>1, <2>2, <2>4 DEF Writes, Creations, Asks
    <3>2. Entity(q) = a
      BY <2>1, <2>4, EntitySame DEF a
    <3>3. QED
      BY <2>2, <2>4, <3>1, <3>2, DropsType
  <2> HIDE DEF d
  <2>7. /\ p \in Request /\ p.user = u /\ p.ent = a /\ p.op = req[r].op /\ p.email = req[r].email
        /\ p.pass = req[r].pass /\ p.role = req[r].role /\ p.rm = {} /\ p.add = {}
    BY <2>4, <2>6 DEF Request
  <2> HIDE DEF p
  <2>8. row' \in [Users -> [email : Emails, pass : Passwords] \cup {None}]
        /\ row'[u] # None /\ row'[u].email = a.email /\ row'[u].pass = a.pass
        /\ \A v \in Users \ {u} : row'[v] = row[v]
    <3>1. row' = [row EXCEPT ![u] = [email |-> a.email, pass |-> a.pass]]
      BY <2>2, <2>3, <2>4
    <3>2. QED
      BY <2>2, <3>1, RowType DEF IInv, TypeOK
  <2>9. /\ pc' \in [Requests -> Steps] /\ req' \in [Requests -> Request]
        /\ pc'[r] = "syncRead" /\ req'[r] = p
        /\ \A s \in Requests \ {r} : pc'[s] = pc[s] /\ req'[s] = req[s]
    BY <2>3, <2>7, GotoType DEF IInv, TypeOK, Steps
  <2>10. TypeOK'
    <3>1. excused' \subseteq Keys
      BY <1>1, <2>1, <2>3, <2>4, UnannouncedType DEF Asks
    <3>2. used' \subseteq Users
      BY <1>1, <2>3
    <3>3. QED
      BY <1>1, <1>2, <2>8, <2>9, <3>1, <3>2 DEF IInv, TypeOK
  <2>11. u # None /\ \A s \in Requests : req[s].user # u
    BY <1>1, AccountsAssumption DEF IInv, Knows, Asks
  <2>12. ASSUME NEW s \in Requests PROVE (Knows(pc[s], req[s]) /\ Picture(pc[s], req[s]))'
    <3>1. CASE s = r
      <4>1. Knows(pc[r], req[r])'
        BY <2>1, <2>2, <2>3, <2>7, <2>9, <2>11
           DEF Knows, Asks, Syncs, Creations, Writes, Loads, RoleChanges
      <4>2. Picture(pc[r], req[r])'
        BY <2>9 DEF Picture
      <4>3. QED
        BY <3>1, <4>1, <4>2
    <3>2. CASE s # r
      <4>1. req[s] \in Request /\ Knows(pc[s], req[s]) /\ Picture(pc[s], req[s])
        BY RequestFacts
      <4>2. \A v \in Users : req[s].user = v => row'[v] = row[v] /\ roles'[v] = roles[v]
        BY <1>1, <2>8, <2>11
      <4>3. QED
        BY <1>1, <2>3, <2>9, <3>2, <4>1, <4>2, SameKnows, SamePicture
    <3>3. QED
      BY <3>1, <3>2
  <2>13. ASSUME NEW v \in Users \ {u} PROVE AccountInv(v)'
    <3>1. AccountInv(v) /\ v # None
      BY AccountsAssumption DEF IInv
    <3>2. r \notin Syncing(v) /\ r \notin Syncing(v)'
      BY <1>1, <2>7, <2>9 DEF Syncing
    <3>3. Syncing(v)' = Syncing(v) /\ \A s \in Syncing(v) : pc'[s] = pc[s] /\ req'[s] = req[s]
      BY <2>9, <3>2 DEF Syncing
    <3>4. row'[v] = row[v] /\ roles'[v] = roles[v] /\ wanted'[v] = wanted[v]
      BY <1>1, <2>8
    <3>5. (u \in Stored => u \in used)' /\ StoredAccount(v)' = StoredAccount(v)
          /\ (v \in Stored)' = (v \in Stored) /\ used \subseteq used'
      BY <2>3, <3>4, SameAccount
    <3>6. ASSUME v \notin broken, NEW s \in Requests, Syncing(v)' = {s}, ~req'[s].stale
          PROVE  OnItsWay(pc[s], req[s], v)'
      <4>1. s \in Syncing(v) /\ Syncing(v) = {s} /\ pc'[s] = pc[s] /\ req'[s] = req[s]
        BY <3>3, <3>6
      <4>2. OnItsWay(pc[s], req[s], v)
        BY <3>1, <3>6, <4>1 DEF AccountInv
      <4>3. QED
        BY <3>4, <4>1, <4>2, SameOnItsWay
    <3>7. \A s, t \in Syncing(v)' : s = t \/ req'[s].stale \/ req'[t].stale
      BY <3>1, <3>3 DEF AccountInv
    <3>8. QED
      BY <1>1, <3>1, <3>3, <3>4, <3>5, <3>6, <3>7 DEF AccountInv
  <2>14. AccountInv(u)'
    <3>1. Syncing(u)' = {r}
      BY <2>7, <2>9, <2>11 DEF Syncing, Syncs
    <3>2. OnItsWay(pc[r], req[r], u)'
      <4>1. Entity(p) = a
        BY <2>1, <2>7, EntitySame DEF a
      <4>2. Asked(req[r], u)' = a
        BY <2>1, <2>7, <2>9, <4>1 DEF Asked
      <4>3. QED
        BY <2>7, <2>8, <2>9, <4>2 DEF OnItsWay, Stored
    <3>3. u \in used'
      BY <2>3
    <3>4. QED
      BY <3>1, <3>2, <3>3 DEF AccountInv
  <2>15. QED
    BY <2>10, <2>12, <2>13, <2>14 DEF IInv
<1>5. QED
  BY <1>3, <1>4 DEF InsertRow

\* A request that loaded the account asked for asks for what it saves.
LEMMA AskedIsSaved ==
  ASSUME NEW q \in Request, NEW p \in Request, NEW u \in Users,
         p.op = q.op, p.email = q.email, p.pass = q.pass, p.role = q.role,
         q.op \in Loads \ {"deleteUser"}, wanted[u] = q.ent, wanted[u] # None
  PROVE  Asked(p, u) = Entity(q)
<1> DEFINE x == [p EXCEPT !.ent = wanted[u]]
<1>1. x.op = q.op /\ x.email = q.email /\ x.pass = q.pass /\ x.role = q.role /\ x.ent = q.ent
  BY DEF Request
<1>2. Asked(p, u) = Entity(x)
  BY DEF Asked, Loads
<1> HIDE DEF x
<1>3. QED
  BY <1>1, <1>2, EntitySame

LEMMA UpdateRowStep ==
  ASSUME IInv, NEW r \in Requests, UpdateRow(r)
  PROVE  IInv'
<1>1. /\ req[r] \in Request /\ Knows("updateRow", req[r]) /\ Picture("updateRow", req[r])
      /\ used \subseteq Users /\ pc[r] = "updateRow" /\ pc[r] \notin Syncs /\ ops' \in 0..MaxOps
      /\ DOMAIN cache' = Keys /\ excused \subseteq Keys
      /\ UNCHANGED <<roles, used, wanted, broken>>
  BY RequestFacts DEF UpdateRow, At, Syncs
<1>2. faults' \in 0..MaxFaults
  BY RequestFacts, CallType DEF UpdateRow
<1>3. CASE End(r) /\ UNCHANGED <<row, excused>>
  BY <1>1, <1>2, <1>3, EndStep
<1>4. CASE LET v == req[r].user
               x == [req[r] EXCEPT !.ent = Entity(req[r]), !.drops = Drops(req[r], v)] IN
           /\ v \in Stored
           /\ row' = [row EXCEPT ![v] = [email |-> x.ent.email, pass |-> x.ent.pass]]
           /\ Writing(r, v, "syncRead", x)
           /\ excused' = excused \cup Unannounced(req[r], v)
  <2>1. /\ req[r].op \in Loads \ {"deleteUser"} /\ Asks(req[r]) /\ req[r].ent # None
        /\ req[r].rm = {} /\ req[r].add = {} /\ req[r].user \in used
    BY <1>1 DEF Knows, Asks, Syncs, Loads
  <2>2. PICK u \in Users : u = req[r].user
    BY <1>1, <2>1
  <2>3. PICK a \in Account : a = Entity(req[r])
    BY <1>1, <2>1, <2>2, SaveType DEF Loads
  <2>4. PICK d \in Seq(Keys) : d = Drops(req[r], u)
    BY <1>1, <2>1, <2>2, SaveType DEF Loads
  <2>5. PICK q \in Request : q = [req[r] EXCEPT !.ent = a, !.drops = d]
    <3>1. [req[r] EXCEPT !.ent = a, !.drops = d] \in Request
      BY <1>1 DEF Request
    <3>2. QED
      BY <3>1
  <2>6. /\ q.user = u /\ q.ent = a /\ q.op = req[r].op /\ q.email = req[r].email
        /\ q.pass = req[r].pass /\ q.role = req[r].role /\ q.rm = {} /\ q.add = {}
        /\ q.stale = req[r].stale
    BY <1>1, <2>1, <2>2, <2>5 DEF Request
  <2>7. /\ u \in Stored /\ Writing(r, u, "syncRead", q)
        /\ row' = [row EXCEPT ![u] = [email |-> a.email, pass |-> a.pass]]
        /\ excused' = excused \cup Unannounced(req[r], u)
    BY <1>4, <2>2, <2>3, <2>4, <2>5, <2>6
  <2>8. /\ row' \in [Users -> [email : Emails, pass : Passwords] \cup {None}]
        /\ row'[u] # None /\ row'[u].email = a.email /\ row'[u].pass = a.pass
        /\ \A v \in Users \ {u} : row'[v] = row[v]
    BY <2>7, RowType DEF IInv, TypeOK
  <2>9. TypeOK'
    <3>1. excused' \subseteq Keys
      BY <1>1, <2>1, <2>2, <2>7, UnannouncedType DEF Asks, Loads, Creations
    <3>2. pc' \in [Requests -> Steps] /\ req' \in [Requests -> Request]
      BY <2>7, WritingOthers DEF IInv, Steps
    <3>3. QED
      BY <1>1, <1>2, <2>8, <3>1, <3>2 DEF IInv, TypeOK
  <2>10. Knows("syncRead", q)
    BY <2>1, <2>2, <2>6, NoneAssumption, AccountsAssumption DEF Knows, Asks, Syncs, Loads
  <2>11. AfterWrite(r, "syncRead", q, u)
    <3>1. SUFFICES ASSUME u \notin broken, Syncing(u) \subseteq {r}, ~q.stale
                   PROVE  OnItsWay("syncRead", q, u)'
      BY <1>1, <2>6 DEF AfterWrite, Syncs
    <3>2. Syncing(u) = {}
      BY <1>1, <3>1 DEF Syncing
    <3>3. wanted[u] = req[r].ent /\ wanted[u] # None
      BY <1>1, <2>1, <2>2, <2>6, <3>1, <3>2 DEF IInv, AccountInv, Picture
    <3>4. Asked(q, u) = a
      BY <1>1, <2>1, <2>3, <2>6, <3>3, AskedIsSaved
    <3>5. Asked(q, u)' = a
      BY <1>1, <3>4 DEF Asked
    <3>6. QED
      BY <2>6, <2>8, <3>5 DEF OnItsWay, Stored
  <2>12. QED
    BY <1>1, <2>1, <2>2, <2>7, <2>8, <2>9, <2>10, <2>11, WriteStep
<1>5. QED
  BY <1>3, <1>4 DEF UpdateRow

LEMMA DeleteRowStep ==
  ASSUME IInv, NEW r \in Requests, DeleteRow(r)
  PROVE  IInv'
<1>1. /\ req[r] \in Request /\ Knows("deleteRow", req[r])
      /\ used \subseteq Users /\ pc[r] = "deleteRow" /\ pc[r] \notin Syncs /\ ops' \in 0..MaxOps
      /\ DOMAIN cache' = Keys /\ excused \subseteq Keys
      /\ UNCHANGED <<used, broken>>
  BY RequestFacts DEF DeleteRow, At, Syncs
<1>2. faults' \in 0..MaxFaults
  BY RequestFacts, CallType DEF DeleteRow
<1>3. CASE End(r) /\ UNCHANGED <<row, roles, wanted, excused>>
  BY <1>1, <1>2, <1>3, EndStep
<1>4. CASE LET v == req[r].user IN
           /\ row' = [row EXCEPT ![v] = None] /\ roles' = [roles EXCEPT ![v] = {}]
           /\ Writing(r, v, "drop", [req[r] EXCEPT !.drops = Drops(req[r], v)])
           /\ wanted' = [wanted EXCEPT ![v] = None]
           /\ excused' = excused \cup Unannounced(req[r], v)
  <2>1. /\ req[r].op = "deleteUser" /\ req[r].op \in Loads /\ req[r].op \in Writes
        /\ Asks(req[r]) /\ req[r].ent # None
        /\ req[r].rm = {} /\ req[r].add = {} /\ req[r].user \in used
    BY <1>1 DEF Knows, Asks, Syncs, Loads, Writes, Creations
  <2>2. PICK u \in Users : u = req[r].user
    BY <1>1, <2>1
  <2>3. PICK d \in Seq(Keys) : d = Drops(req[r], u) /\ d # <<>>
    BY <1>1, <2>1, <2>2, SaveType
  <2>4. PICK q \in Request : q = [req[r] EXCEPT !.drops = d]
    <3>1. [req[r] EXCEPT !.drops = d] \in Request
      BY <1>1 DEF Request
    <3>2. QED
      BY <3>1
  <2>5. /\ q.user = u /\ q.drops = d /\ q.op = req[r].op /\ q.email = req[r].email
        /\ q.pass = req[r].pass /\ q.role = req[r].role /\ q.rm = {} /\ q.add = {}
    BY <1>1, <2>1, <2>2, <2>4 DEF Request
  <2>6. /\ row' = [row EXCEPT ![u] = None] /\ roles' = [roles EXCEPT ![u] = {}]
        /\ Writing(r, u, "drop", q) /\ wanted' = [wanted EXCEPT ![u] = None]
        /\ excused' = excused \cup Unannounced(req[r], u)
    BY <1>4, <2>2, <2>3, <2>4
  <2>7. /\ row'[u] = None /\ wanted'[u] = None
        /\ \A v \in Users \ {u} : row'[v] = row[v] /\ roles'[v] = roles[v] /\ wanted'[v] = wanted[v]
    BY <2>6 DEF IInv, TypeOK
  <2>8. TypeOK'
    <3>1. excused' \subseteq Keys
      BY <1>1, <2>1, <2>6, UnannouncedType
    <3>2. pc' \in [Requests -> Steps] /\ req' \in [Requests -> Request]
      BY <2>6, WritingOthers DEF IInv, Steps
    <3>3. QED
      BY <1>1, <1>2, <2>6, <3>1, <3>2 DEF IInv, TypeOK
  <2>9. Knows("drop", q)
    BY <2>1, <2>2, <2>3, <2>5 DEF Knows, Asks, Syncs
  <2>10. AfterWrite(r, "drop", q, u)
    BY <2>5, <2>7 DEF AfterWrite, Syncs, StoredAccount, Stored
  <2>11. QED
    BY <1>1, <2>1, <2>2, <2>6, <2>7, <2>8, <2>9, <2>10, WriteStep
<1>5. QED
  BY <1>3, <1>4 DEF DeleteRow

-----------------------------------------------------------------------------
(* syncUserRoles *)

\* Two requests that were asked the same.
SameAsk(p, q) ==
    p.op = q.op /\ p.user = q.user /\ p.email = q.email /\ p.pass = q.pass /\ p.role = q.role

LEMMA AskedSame ==
  ASSUME NEW p \in Request, NEW q \in Request, SameAsk(p, q), NEW u \in Users
  PROVE  Asked(p, u) = Asked(q, u)
<1> DEFINE x == [p EXCEPT !.ent = wanted[u]]
           y == [q EXCEPT !.ent = wanted[u]]
<1>1. /\ x.op = p.op /\ x.email = p.email /\ x.pass = p.pass /\ x.role = p.role /\ x.ent = wanted[u]
      /\ y.op = q.op /\ y.email = q.email /\ y.pass = q.pass /\ y.role = q.role /\ y.ent = wanted[u]
  BY DEF Request
<1>2. /\ Asked(p, u) = IF p.op \in Creations THEN Entity(p)
                       ELSE IF wanted[u] = None \/ p.op = "deleteUser" THEN None ELSE Entity(x)
      /\ Asked(q, u) = IF q.op \in Creations THEN Entity(q)
                       ELSE IF wanted[u] = None \/ q.op = "deleteUser" THEN None ELSE Entity(y)
  BY DEF Asked
<1> HIDE DEF x, y
<1>3. Entity(x) = Entity(y)
  BY <1>1, EntitySame DEF SameAsk
<1>4. q.op \in Creations => Entity(p) = Entity(q)
  BY EntitySame DEF SameAsk
<1>5. QED
  BY <1>2, <1>3, <1>4 DEF SameAsk

LEMMA AskedType ==
  ASSUME NEW q \in Request, NEW u \in Users, Asks(q), q.op \in Writes, wanted[u] \in Account \cup {None}
  PROVE  Asked(q, u) \in Account \cup {None}
<1>1. CASE q.op \in Creations
  BY <1>1, EntityType DEF Asks, Asked, Loads, Creations
<1>2. CASE q.op \notin Creations /\ wanted[u] # None /\ q.op # "deleteUser"
  <2> DEFINE x == [q EXCEPT !.ent = wanted[u]]
  <2>1. /\ x \in Request /\ x.op = q.op /\ x.email = q.email /\ x.pass = q.pass /\ x.role = q.role
        /\ x.ent = wanted[u]
    BY <1>2 DEF Request
  <2>2. Asked(q, u) = Entity(x)
    BY <1>2 DEF Asked
  <2> HIDE DEF x
  <2>3. Entity(x) \in Account
    BY <1>2, <2>1, EntityType DEF Asks
  <2>4. QED
    BY <2>2, <2>3
<1>3. CASE q.op \notin Creations /\ (wanted[u] = None \/ q.op = "deleteUser")
  BY <1>3 DEF Asked
<1>4. QED
  BY <1>1, <1>2, <1>3

\* What a request knows while it syncs the roles of u.
LEMMA SyncFacts ==
  ASSUME IInv, NEW r \in Requests, pc[r] \in Syncs
  PROVE  /\ req[r] \in Request /\ Asks(req[r]) /\ req[r].op \in Writes \ {"deleteUser"}
         /\ req[r].user \in used /\ req[r].user \in Users
         /\ req[r].ent \in Account /\ req[r].ent # None /\ Knows("syncWrite", req[r])
         /\ roles[req[r].user] \subseteq Roles /\ wanted[req[r].user] \in Account \cup {None}
         /\ KeysIn(req[r].drops) \subseteq Keys
<1>1. req[r] \in Request /\ Knows(pc[r], req[r])
  BY RequestFacts
<1>2. /\ Asks(req[r]) /\ req[r].op \in Writes \ {"deleteUser"} /\ req[r].ent # None
      /\ req[r].user \in used
  BY <1>1 DEF Knows, Asks
<1>3. req[r].user \in Users /\ req[r].ent \in Account
  BY <1>1, <1>2, RequestFacts DEF Request
<1>4. Knows("syncWrite", req[r])
  BY <1>1, <1>2, <1>3, AccountsAssumption DEF Knows, Syncs
<1>5. KeysIn(req[r].drops) \subseteq Keys
  <2>1. req[r].drops \in Seq(Keys)
    BY <1>1 DEF Request
  <2>2. QED
    BY <2>1 DEF KeysIn
<1>6. QED
  BY <1>1, <1>2, <1>3, <1>4, <1>5 DEF IInv, TypeOK

LEMMA SyncFailsStep ==
  ASSUME IInv, NEW r \in Requests, pc[r] \in Syncs, SyncFails(r),
         UNCHANGED <<row, cache, used, ops>>, faults' \in 0..MaxFaults
  PROVE  IInv'
<1>1. PICK u \in Users : u = req[r].user
  BY SyncFacts
<1>2. Goto(r, "idle", NoRequest) /\ broken' = broken \cup {u} /\ UNCHANGED <<roles, wanted>>
      /\ excused' \subseteq Keys
  BY <1>1, SyncFacts DEF SyncFails, End, IInv, TypeOK
<1>3. NoRequest \in Request /\ "idle" \in Steps /\ "idle" \notin Syncs
  BY NoRequestType DEF Steps, Syncs
<1>4. TypeOK'
  <2>1. pc' \in [Requests -> Steps] /\ req' \in [Requests -> Request]
    BY <1>2, <1>3, GotoType DEF IInv, TypeOK
  <2>2. QED
    BY <1>2, <2>1 DEF IInv, TypeOK
<1>5. Knows("idle", NoRequest)
  BY NoRequestType, AccountsAssumption, NoneAssumption
     DEF Knows, Asks, Syncs, Loads, Writes, Creations, RoleChanges, Reads
<1>6. AfterWrite(r, "idle", NoRequest, u)
  BY <1>2 DEF AfterWrite
<1>7. QED
  BY <1>1, <1>2, <1>3, <1>4, <1>5, <1>6, SyncStep

\* q is r's request with other statements to come.
LEMMA StillOnItsWay ==
  ASSUME IInv, NEW r \in Requests, pc[r] \in Syncs, NEW u \in Users, req[r].user = u,
         u \notin broken, Syncing(u) \subseteq {r}, ~req[r].stale
  PROVE  OnItsWay(pc[r], req[r], u)
<1>1. Syncing(u) = {r}
  BY DEF Syncing
<1>2. QED
  BY <1>1 DEF IInv, AccountInv

\* The last statement was made.
LEMMA DoneAfter ==
  ASSUME IInv, NEW r \in Requests, pc[r] \in Syncs, NEW u \in Users, req[r].user = u,
         NEW q \in Request, SameAsk(q, req[r]), q.ent = req[r].ent, q.stale = req[r].stale,
         q.rm = {}, q.add = {}, Written(r, q), row' = row,
         OnItsWay(pc[r], req[r], u) => roles'[u] = req[r].ent.roles,
         NEW step, NEW x, step = NextStep(q), x = Rest(q)
  PROVE  /\ step \in {"drop", "idle"} /\ x \in Request /\ Knows(step, x) /\ AfterWrite(r, step, x, u)
         /\ wanted' \in [Users -> Account \cup {None}] /\ broken' \subseteq Users
         /\ \A v \in Users \ {u} : wanted'[v] = wanted[v] /\ (v \in broken <=> v \in broken')
         /\ req[r].stale => u \in broken'
<1>1. q.user = u /\ q.op = req[r].op /\ Asks(q) /\ q.op \in Writes
  BY SyncFacts DEF Asks, SameAsk
<1>2. step \in {"drop", "idle"} /\ x \in {q, NoRequest} /\ x \in Request /\ Knows(step, x)
  BY <1>1, RestLegal, RequestFacts DEF LegalAt
<1>3. wanted[u] \in Account \cup {None} /\ req[r].ent \in Account /\ req[r] \in Request
  BY SyncFacts
<1>4. Asked(q, u) \in Account \cup {None} /\ Asked(q, u) = Asked(req[r], u)
  BY <1>1, <1>3, AskedType, AskedSame
<1>5. /\ wanted' = [wanted EXCEPT ![u] = Asked(q, u)]
      /\ broken' = IF req[r].stale THEN broken \cup {u} ELSE broken
  BY <1>1 DEF Written
<1>6. AfterWrite(r, step, x, u)
  <2>1. SUFFICES ASSUME u \notin broken', Syncing(u) \subseteq {r}
                 PROVE  StoredAccount(u)' = wanted'[u]
    BY <1>1, <1>2 DEF AfterWrite, Syncs
  <2>2. OnItsWay(pc[r], req[r], u)
    BY <1>5, <2>1, StillOnItsWay
  <2>3. /\ u \in Stored /\ row[u].email = req[r].ent.email /\ row[u].pass = req[r].ent.pass
        /\ req[r].ent = Asked(req[r], u)
    BY <2>2 DEF OnItsWay
  <2>4. StoredAccount(u)' = [email |-> row[u].email, pass |-> row[u].pass, roles |-> req[r].ent.roles]
    BY <2>2, <2>3 DEF StoredAccount, Stored
  <2>5. StoredAccount(u)' = req[r].ent
    BY <1>3, <2>3, <2>4 DEF Account
  <2>6. wanted'[u] = Asked(q, u)
    BY <1>5 DEF IInv, TypeOK
  <2>7. QED
    BY <1>4, <2>3, <2>5, <2>6
<1>7. QED
  BY <1>2, <1>4, <1>5, <1>6 DEF IInv, TypeOK

\* A statement was made, and others are to come.
LEMMA MoreAfter ==
  ASSUME IInv, NEW r \in Requests, pc[r] \in Syncs, NEW u \in Users, req[r].user = u,
         NEW q \in Request, SameAsk(q, req[r]), q.ent = req[r].ent, q.stale = req[r].stale,
         UNCHANGED <<row, wanted, broken>>,
         OnItsWay(pc[r], req[r], u) =>
            /\ q.rm \cap q.ent.roles = {} /\ q.add \subseteq q.ent.roles
            /\ roles'[u] = (q.ent.roles \cup q.rm) \ q.add
  PROVE  Knows("syncWrite", q) /\ AfterWrite(r, "syncWrite", q, u)
<1>1. q.user = u /\ q.op = req[r].op /\ Asks(q) /\ req[r] \in Request
  BY SyncFacts DEF Asks, SameAsk
<1>2. Knows("syncWrite", q)
  BY <1>1, SyncFacts DEF Knows, SameAsk
<1>3. AfterWrite(r, "syncWrite", q, u)
  <2>1. SUFFICES ASSUME u \notin broken, Syncing(u) \subseteq {r}, ~q.stale
                 PROVE  OnItsWay("syncWrite", q, u)'
    BY <1>1 DEF AfterWrite, Syncs
  <2>2. OnItsWay(pc[r], req[r], u)
    BY <2>1, StillOnItsWay
  <2>3. Asked(q, u)' = Asked(req[r], u)
    <3>1. Asked(q, u)' = Asked(q, u)
      BY DEF Asked
    <3>2. QED
      BY <1>1, <3>1, AskedSame
  <2>4. QED
    BY <2>2, <2>3 DEF OnItsWay, Stored
<1>4. QED
  BY <1>2, <1>3

LEMMA SyncReadStep ==
  ASSUME IInv, NEW r \in Requests, SyncRead(r)
  PROVE  IInv'
<1>1. /\ pc[r] = "syncRead" /\ pc[r] \in Syncs /\ UNCHANGED <<row, cache, used, ops>>
  BY DEF SyncRead, At, Syncs
<1>2. faults' \in 0..MaxFaults
  BY RequestFacts, CallType DEF SyncRead
<1>3. CASE SyncFails(r)
  BY <1>1, <1>2, <1>3, SyncFailsStep
<1>4. CASE LET had == roles[req[r].user]
               y == [req[r] EXCEPT !.rm = had \ req[r].ent.roles, !.add = req[r].ent.roles \ had] IN
           /\ Goto(r, NextStep(y), Rest(y))
           /\ IF y.rm \cup y.add = {} THEN Written(r, y) ELSE UNCHANGED <<wanted, broken>>
           /\ UNCHANGED <<roles, excused>>
  <2>1. PICK u \in Users : u = req[r].user
    BY <1>1, SyncFacts
  <2>2. /\ req[r] \in Request /\ req[r].ent \in Account /\ roles[u] \subseteq Roles
        /\ req[r].ent.roles \subseteq Roles
    BY <1>1, <2>1, SyncFacts DEF Account
  <2>3. PICK rm \in SUBSET Roles : rm = roles[u] \ req[r].ent.roles
    BY <2>2
  <2>4. PICK add \in SUBSET Roles : add = req[r].ent.roles \ roles[u]
    BY <2>2
  <2>5. PICK q \in Request : q = [req[r] EXCEPT !.rm = rm, !.add = add]
    <3>1. [req[r] EXCEPT !.rm = rm, !.add = add] \in Request
      BY <2>2 DEF Request
    <3>2. QED
      BY <3>1
  <2>6. /\ SameAsk(q, req[r]) /\ q.ent = req[r].ent /\ q.stale = req[r].stale
        /\ q.rm = rm /\ q.add = add /\ q.user = u
    BY <2>1, <2>2, <2>5 DEF Request, SameAsk
  <2>7. /\ Goto(r, NextStep(q), Rest(q))
        /\ IF q.rm \cup q.add = {} THEN Written(r, q) ELSE UNCHANGED <<wanted, broken>>
        /\ UNCHANGED <<roles, excused>>
    BY <1>4, <2>1, <2>3, <2>4, <2>5
  <2>8. CASE q.rm \cup q.add = {}
    <3>1. q.rm = {} /\ q.add = {} /\ Written(r, q)
      BY <2>7, <2>8
    <3>2. roles'[u] = req[r].ent.roles
      BY <2>2, <2>3, <2>4, <2>6, <2>7, <3>1
    <3>3. PICK step : step = NextStep(q)
      OBVIOUS
    <3>4. PICK x : x = Rest(q)
      OBVIOUS
    <3>5. /\ step \in {"drop", "idle"} /\ x \in Request /\ Knows(step, x) /\ AfterWrite(r, step, x, u)
          /\ wanted' \in [Users -> Account \cup {None}] /\ broken' \subseteq Users
          /\ \A v \in Users \ {u} : wanted'[v] = wanted[v] /\ (v \in broken <=> v \in broken')
          /\ req[r].stale => u \in broken'
      BY <1>1, <2>1, <2>6, <3>1, <3>2, <3>3, <3>4, DoneAfter
    <3>6. Goto(r, step, x) /\ step \in Steps /\ step \notin Syncs
      BY <2>7, <3>3, <3>4, <3>5 DEF Steps, Syncs
    <3>7. TypeOK'
      <4>1. pc' \in [Requests -> Steps] /\ req' \in [Requests -> Request]
        BY <3>5, <3>6, GotoType DEF IInv, TypeOK
      <4>2. QED
        BY <1>1, <1>2, <2>7, <3>5, <4>1 DEF IInv, TypeOK
    <3>8. QED
      BY <1>1, <2>1, <2>7, <3>5, <3>6, <3>7, SyncStep
  <2>9. CASE q.rm \cup q.add # {}
    <3>1. NextStep(q) = "syncWrite" /\ Rest(q) = q /\ UNCHANGED <<wanted, broken>>
      BY <2>7, <2>9 DEF NextStep, Rest
    <3>2. Goto(r, "syncWrite", q) /\ "syncWrite" \in Steps
      BY <2>7, <3>1 DEF Steps
    <3>3. /\ q.rm \cap q.ent.roles = {} /\ q.add \subseteq q.ent.roles
          /\ roles'[u] = (q.ent.roles \cup q.rm) \ q.add
      BY <2>2, <2>3, <2>4, <2>6, <2>7
    <3>4. Knows("syncWrite", q) /\ AfterWrite(r, "syncWrite", q, u)
      BY <1>1, <2>1, <2>6, <3>1, <3>3, MoreAfter
    <3>5. TypeOK'
      <4>1. pc' \in [Requests -> Steps] /\ req' \in [Requests -> Request]
        BY <3>2, GotoType DEF IInv, TypeOK
      <4>2. QED
        BY <1>1, <1>2, <2>7, <3>1, <4>1 DEF IInv, TypeOK
    <3>6. \A v \in Users \ {u} : wanted'[v] = wanted[v] /\ (v \in broken <=> v \in broken')
      BY <3>1
    <3>7. "syncWrite" \in Syncs
      BY DEF Syncs
    <3>8. QED
      BY <1>1, <2>1, <2>6, <2>7, <3>2, <3>4, <3>5, <3>6, <3>7, SyncStep
  <2>10. QED
    BY <2>8, <2>9
<1>5. QED
  BY <1>3, <1>4 DEF SyncRead

LEMMA SyncWriteStep ==
  ASSUME IInv, NEW r \in Requests, SyncWrite(r)
  PROVE  IInv'
<1>1. /\ pc[r] = "syncWrite" /\ pc[r] \in Syncs /\ UNCHANGED <<row, cache, used, ops>>
      /\ DOMAIN cache = Keys
  BY RequestFacts DEF SyncWrite, At, Syncs
<1>2. faults' \in 0..MaxFaults
  BY RequestFacts, CallType DEF SyncWrite
<1>3. CASE SyncFails(r)
  BY <1>1, <1>2, <1>3, SyncFailsStep
<1>4. PICK u \in Users : u = req[r].user
  BY <1>1, SyncFacts
<1>5. /\ req[r] \in Request /\ req[r].ent \in Account /\ roles[u] \subseteq Roles /\ u \in used
      /\ req[r].ent.roles \subseteq Roles /\ req[r].rm \subseteq Roles /\ req[r].add \subseteq Roles
      /\ Asks(req[r]) /\ excused \subseteq Keys
  BY <1>1, <1>4, SyncFacts, RequestFacts DEF Account, Request
<1>6. ASSUME NEW q \in Request, SameAsk(q, req[r]), q.ent = req[r].ent, q.stale = req[r].stale,
             NEW rs \in SUBSET Roles, roles' = [roles EXCEPT ![u] = rs],
             OnItsWay("syncWrite", req[r], u) =>
                /\ q.rm \cap q.ent.roles = {} /\ q.add \subseteq q.ent.roles
                /\ rs = (q.ent.roles \cup q.rm) \ q.add,
             Writing(r, u, NextStep(q), Rest(q)),
             excused' = excused \cup Unannounced(req[r], u),
             IF q.rm \cup q.add = {} THEN Written(r, q) ELSE UNCHANGED <<wanted, broken>>
      PROVE  IInv'
  <2>1. roles' \in [Users -> SUBSET Roles] /\ roles'[u] = rs
        /\ \A v \in Users \ {u} : row'[v] = row[v] /\ roles'[v] = roles[v]
    BY <1>1, <1>6 DEF IInv, TypeOK
  <2>2. excused' \subseteq Keys
    BY <1>5, <1>6, UnannouncedType DEF Asks, Creations
  <2>3. ASSUME NEW step \in {"idle", "drop", "syncWrite"}, NEW x \in Request,
               Writing(r, u, step, x), Knows(step, x), AfterWrite(r, step, x, u),
               wanted' \in [Users -> Account \cup {None}], broken' \subseteq Users,
               \A v \in Users \ {u} : wanted'[v] = wanted[v] /\ (v \in broken <=> v \in broken')
        PROVE  IInv'
    <3>1. step \in Steps
      BY DEF Steps
    <3>2. pc' \in [Requests -> Steps] /\ req' \in [Requests -> Request]
      BY <2>3, <3>1, WritingOthers DEF IInv
    <3>3. TypeOK'
      BY <1>1, <1>2, <2>1, <2>2, <2>3, <3>2 DEF IInv, TypeOK
    <3>4. step \in {"idle", "drop", "syncRead", "syncWrite"}
      OBVIOUS
    <3>5. QED
      BY <1>1, <1>4, <1>5, <2>1, <2>3, <3>3, <3>4, WriteStep
  <2>4. CASE q.rm \cup q.add = {}
    <3>1. q.rm = {} /\ q.add = {} /\ Written(r, q)
      BY <1>6, <2>4
    <3>2. OnItsWay(pc[r], req[r], u) => roles'[u] = req[r].ent.roles
      BY <1>1, <1>6, <2>1, <3>1
    <3>3. PICK step : step = NextStep(q)
      OBVIOUS
    <3>4. PICK x : x = Rest(q)
      OBVIOUS
    <3>5. /\ step \in {"drop", "idle"} /\ x \in Request /\ Knows(step, x) /\ AfterWrite(r, step, x, u)
          /\ wanted' \in [Users -> Account \cup {None}] /\ broken' \subseteq Users
          /\ \A v \in Users \ {u} : wanted'[v] = wanted[v] /\ (v \in broken <=> v \in broken')
      BY <1>1, <1>4, <1>6, <3>1, <3>2, <3>3, <3>4, DoneAfter
    <3>6. QED
      BY <1>6, <2>3, <3>3, <3>4, <3>5
  <2>5. CASE q.rm \cup q.add # {}
    <3>1. NextStep(q) = "syncWrite" /\ Rest(q) = q /\ UNCHANGED <<wanted, broken>>
      BY <1>6, <2>5 DEF NextStep, Rest
    <3>2. Knows("syncWrite", q) /\ AfterWrite(r, "syncWrite", q, u)
      BY <1>1, <1>4, <1>6, <2>1, <3>1, MoreAfter
    <3>3. wanted' \in [Users -> Account \cup {None}] /\ broken' \subseteq Users
      BY <3>1 DEF IInv, TypeOK
    <3>4. Writing(r, u, "syncWrite", q)
      BY <1>6, <3>1
    <3>5. QED
      BY <2>3, <3>1, <3>2, <3>3, <3>4
  <2>6. QED
    BY <2>4, <2>5
<1>7. ASSUME NEW o \in req[r].rm,
             LET y == [req[r] EXCEPT !.rm = @ \ {o}] IN
             /\ roles' = [roles EXCEPT ![req[r].user] = roles[req[r].user] \ {o}]
             /\ Writing(r, req[r].user, NextStep(y), Rest(y))
             /\ excused' = excused \cup Unannounced(req[r], req[r].user)
             /\ IF y.rm \cup y.add = {} THEN Written(r, y) ELSE UNCHANGED <<wanted, broken>>
      PROVE  IInv'
  <2>1. PICK q \in Request : q = [req[r] EXCEPT !.rm = req[r].rm \ {o}]
    <3>1. [req[r] EXCEPT !.rm = req[r].rm \ {o}] \in Request
      BY <1>5 DEF Request
    <3>2. QED
      BY <3>1
  <2>2. /\ SameAsk(q, req[r]) /\ q.ent = req[r].ent /\ q.stale = req[r].stale
        /\ q.rm = req[r].rm \ {o} /\ q.add = req[r].add
    BY <1>5, <2>1 DEF Request, SameAsk
  <2>3. PICK rs \in SUBSET Roles : rs = roles[u] \ {o}
    BY <1>5
  <2>4. OnItsWay("syncWrite", req[r], u) =>
          /\ q.rm \cap q.ent.roles = {} /\ q.add \subseteq q.ent.roles
          /\ rs = (q.ent.roles \cup q.rm) \ q.add
    BY <2>2, <2>3 DEF OnItsWay
  <2>5. /\ roles' = [roles EXCEPT ![u] = rs] /\ Writing(r, u, NextStep(q), Rest(q))
        /\ excused' = excused \cup Unannounced(req[r], u)
        /\ IF q.rm \cup q.add = {} THEN Written(r, q) ELSE UNCHANGED <<wanted, broken>>
    BY <1>4, <1>7, <2>1, <2>3
  <2>6. QED
    BY <1>6, <2>2, <2>4, <2>5
<1>8. ASSUME NEW o \in req[r].add, req[r].rm = {},
             LET y == [req[r] EXCEPT !.add = @ \ {o}] IN
             /\ roles' = [roles EXCEPT ![req[r].user] = roles[req[r].user] \cup {o}]
             /\ Writing(r, req[r].user, NextStep(y), Rest(y))
             /\ excused' = excused \cup Unannounced(req[r], req[r].user)
             /\ IF y.rm \cup y.add = {} THEN Written(r, y) ELSE UNCHANGED <<wanted, broken>>
      PROVE  IInv'
  <2>1. PICK q \in Request : q = [req[r] EXCEPT !.add = req[r].add \ {o}]
    <3>1. [req[r] EXCEPT !.add = req[r].add \ {o}] \in Request
      BY <1>5 DEF Request
    <3>2. QED
      BY <3>1
  <2>2. /\ SameAsk(q, req[r]) /\ q.ent = req[r].ent /\ q.stale = req[r].stale
        /\ q.rm = {} /\ q.add = req[r].add \ {o}
    BY <1>5, <1>8, <2>1 DEF Request, SameAsk
  <2>3. PICK rs \in SUBSET Roles : rs = roles[u] \cup {o}
    BY <1>5
  <2>4. OnItsWay("syncWrite", req[r], u) =>
          /\ q.rm \cap q.ent.roles = {} /\ q.add \subseteq q.ent.roles
          /\ rs = (q.ent.roles \cup q.rm) \ q.add
    BY <1>8, <2>2, <2>3 DEF OnItsWay
  <2>5. /\ roles' = [roles EXCEPT ![u] = rs] /\ Writing(r, u, NextStep(q), Rest(q))
        /\ excused' = excused \cup Unannounced(req[r], u)
        /\ IF q.rm \cup q.add = {} THEN Written(r, q) ELSE UNCHANGED <<wanted, broken>>
    BY <1>4, <1>8, <2>1, <2>3
  <2>6. QED
    BY <1>6, <2>2, <2>4, <2>5
<1>9. QED
  BY <1>3, <1>7, <1>8 DEF SyncWrite

-----------------------------------------------------------------------------
(* The theorems *)

LEMMA InitInv ==
  ASSUME Init
  PROVE  IInv
<1>1. PICK u \in Users, e \in Emails, p \in Passwords :
        LET account == [email |-> e, pass |-> p, roles |-> {DefaultRole}] IN
        /\ row = [v \in Users |-> IF v = u THEN [email |-> e, pass |-> p] ELSE None]
        /\ roles = [v \in Users |-> IF v = u THEN {DefaultRole} ELSE {}]
        /\ wanted = [v \in Users |-> IF v = u THEN account ELSE None]
        /\ cache = [k \in Keys |-> None]
        /\ used = {u}
        /\ pc = [r \in Requests |-> "idle"]
        /\ req = [r \in Requests |-> NoRequest]
        /\ ops = 0 /\ faults = 0
        /\ broken = {} /\ excused = {}
  BY DEF Init
<1>2. TypeOK
  <2>1. "idle" \in Steps
    BY DEF Steps
  <2>2. [email |-> e, pass |-> p, roles |-> {DefaultRole}] \in Account
    BY AccountsAssumption DEF Account
  <2>3. QED
    BY <1>1, <2>1, <2>2, NoRequestType, AccountsAssumption DEF TypeOK
<1>3. ASSUME NEW r \in Requests PROVE Knows(pc[r], req[r]) /\ Picture(pc[r], req[r])
  <2>1. pc[r] = "idle" /\ req[r] = NoRequest
    BY <1>1
  <2>2. Knows("idle", NoRequest) /\ Picture("idle", NoRequest)
    BY NoRequestType, AccountsAssumption, NoneAssumption
       DEF Knows, Asks, Picture, Syncs, Loads, Writes, Creations, RoleChanges, Reads
  <2>3. QED
    BY <2>1, <2>2
<1>4. ASSUME NEW v \in Users PROVE AccountInv(v)
  <2>1. Syncing(v) = {}
    BY <1>1 DEF Syncing, Syncs
  <2>2. StoredAccount(v) = wanted[v] /\ (v \in Stored => v \in used)
    BY <1>1, NoneAssumption DEF StoredAccount, Stored
  <2>3. QED
    BY <2>1, <2>2 DEF AccountInv
<1>5. QED
  BY <1>2, <1>3, <1>4 DEF IInv

LEMMA StutterInv ==
  ASSUME IInv, UNCHANGED vars
  PROVE  IInv'
<1>1. TypeOK'
  BY DEF IInv, TypeOK, vars
<1>2. ASSUME NEW r \in Requests PROVE (Knows(pc[r], req[r]) /\ Picture(pc[r], req[r]))'
  BY DEF IInv, Knows, Asks, Picture, Stored, StoredAccount, vars
<1>3. ASSUME NEW u \in Users PROVE AccountInv(u)'
  BY DEF IInv, AccountInv, Syncing, OnItsWay, Asked, Stored, StoredAccount, vars
<1>4. QED
  BY <1>1, <1>2, <1>3 DEF IInv

LEMMA StepInv ==
  ASSUME IInv, [Next]_vars
  PROVE  IInv'
<1>1. ASSUME NEW r \in Requests,
             \/ Begin(r) \/ Lookup(r) \/ FindRow(r) \/ FindAll(r) \/ FindRoles(r)
             \/ CheckEmail(r) \/ FindRole(r) \/ InsertRow(r) \/ UpdateRow(r) \/ DeleteRow(r)
             \/ SyncRead(r) \/ SyncWrite(r) \/ Drop(r) \/ Store(r)
      PROVE  IInv'
  BY <1>1, BeginStep, LookupStep, FindRowStep, FindAllStep, FindRolesStep, CheckEmailStep,
     FindRoleStep, InsertRowStep, UpdateRowStep, DeleteRowStep, SyncReadStep, SyncWriteStep,
     DropStep, StoreStep
<1>2. CASE \E k \in Keys : Expire(k)
  BY <1>2, ExpireStep
<1>3. CASE UNCHANGED vars
  BY <1>3, StutterInv
<1>4. QED
  BY <1>1, <1>2, <1>3 DEF Next

\* Every step keeps the inductive invariant: requests know what they need, an
\* entity nobody wrote over is the stored account, and of the requests that
\* write an account together all but one are stale.
THEOREM InvariantIInv == Spec => []IInv
<1>1. Init => IInv
  BY InitInv
<1>2. IInv /\ [Next]_vars => IInv'
  BY StepInv
<1>3. QED
  BY <1>1, <1>2, PTL DEF Spec

\* Rows, roles, keys and requests keep their types.
THEOREM TypeCorrect == Spec => []TypeOK
<1>1. IInv => TypeOK
  BY DEF IInv
<1>2. QED
  BY <1>1, InvariantIInv, PTL

\* The stored account is what the requests asked for, in the order they wrote,
\* unless one wrote over a newer picture or stopped between the row and its
\* roles: UserRepository.Update, syncUserRoles, and the use cases above them.
THEOREM AccountsAreAsAsked == Spec => []AccountsAsAsked
<1>1. IInv => AccountsAsAsked
  <2>1. SUFFICES ASSUME IInv, NEW u \in Users, u \notin broken,
                        ~ \E r \in Requests : req[r].user = u /\ pc[r] \in {"syncRead", "syncWrite"}
                 PROVE  StoredAccount(u) = wanted[u]
    BY DEF AccountsAsAsked
  <2>2. Syncing(u) = {}
    BY <2>1 DEF Syncing, Syncs
  <2>3. QED
    BY <2>1, <2>2 DEF IInv, AccountInv
<1>2. QED
  BY <1>1, InvariantIInv, PTL

-----------------------------------------------------------------------------
(***************************************************************************)
(* The cache of accounts: a key whose answer is not what the database      *)
(* would say now has its deletion under way, or met one of the holes that  *)
(* CachesCoherent names.  A write changes the answers of its account's id, *)
(* of its addresses before and after, and of the lists; unless somebody    *)
(* wrote over it, those are the keys it deletes.                           *)
(***************************************************************************)

-----------------------------------------------------------------------------
(* What the database answers for a key *)

\* The accounts a key is about.
About(k) == IF k[1] = "id" THEN {k[2]} \cap Stored ELSE Owner(k[2])

\* Keys of different kinds, users or addresses differ.
LEMMA KeyParts ==
  ASSUME NEW k \in Keys, k # ListKey
  PROVE  \/ \E v \in Users : k = IdKey(v) /\ About(k) = {v} \cap Stored
                             /\ About(k)' = ({v} \cap Stored)'
         \/ \E e \in Emails : k = EmailKey(e) /\ About(k) = Owner(e) /\ About(k)' = Owner(e)'
  BY DEF Keys, IdKey, EmailKey, ListKey, About

LEMMA KeysDiffer ==
  /\ \A u, v \in Users : IdKey(u) = IdKey(v) => u = v
  /\ \A e, f \in Emails : EmailKey(e) = EmailKey(f) => e = f
  /\ \A u \in Users, e \in Emails : IdKey(u) # EmailKey(e) /\ IdKey(u) # ListKey
                                    /\ EmailKey(e) # ListKey
  BY DEF IdKey, EmailKey, ListKey

\* An answer depends on the accounts it is about, on their addresses and roles.
LEMMA SameAnswer ==
  ASSUME NEW k \in Keys, k # ListKey, About(k)' = About(k),
         \A v \in About(k) : UserOutput(v, StoredAccount(v))' = UserOutput(v, StoredAccount(v))
  PROVE  Truth(k)' = Truth(k)
<1>1. PICK S : S = About(k)
  OBVIOUS
<1>2. PICK w : w = CHOOSE x \in S : TRUE
  OBVIOUS
<1>3. S # {} => w \in S
  BY <1>2
<1>4. Truth(k) = IF S = {} THEN None ELSE UserOutput(w, StoredAccount(w))
  BY <1>1, <1>2 DEF Truth, About
<1>5. Truth(k)' = IF S = {} THEN None ELSE UserOutput(w, StoredAccount(w))'
  <2>1. About(k)' = S
    BY <1>1
  <2>2. QED
    BY <1>2, <2>1 DEF Truth, About
<1>6. QED
  BY <1>1, <1>3, <1>4, <1>5

\* A write of account u changes no answer but those for its id, its addresses
\* before and after, and the lists.
LEMMA OtherAnswers ==
  ASSUME NEW u \in Users, \A v \in Users \ {u} : row'[v] = row[v] /\ roles'[v] = roles[v],
         NEW k \in Keys \ {IdKey(u), ListKey},
         u \in Stored => k # EmailKey(row[u].email),
         (u \in Stored)' => k # EmailKey(row'[u].email)
  PROVE  Truth(k)' = Truth(k)
<1>1. \A v \in Users \ {u} : /\ v \in Stored <=> (v \in Stored)'
                             /\ StoredAccount(v)' = StoredAccount(v)
  BY SameAccount
<1>2. \A v \in Users \ {u} : UserOutput(v, StoredAccount(v))' = UserOutput(v, StoredAccount(v))
  BY <1>1 DEF UserOutput
<1>3. ASSUME NEW v \in Users, k = IdKey(v), About(k) = {v} \cap Stored,
             About(k)' = ({v} \cap Stored)'
      PROVE  Truth(k)' = Truth(k)
  <2>1. v # u
    BY <1>3
  <2>2. About(k)' = About(k) /\ About(k) \subseteq Users \ {u}
    BY <1>1, <1>3, <2>1
  <2>3. QED
    BY <1>2, <2>2, SameAnswer
<1>4. ASSUME NEW e \in Emails, k = EmailKey(e), About(k) = Owner(e), About(k)' = Owner(e)'
      PROVE  Truth(k)' = Truth(k)
  <2>1. u \notin Owner(e) /\ u \notin Owner(e)'
    BY <1>4 DEF Owner
  <2>2. Owner(e)' = Owner(e) /\ Owner(e) \subseteq Users \ {u}
    <3>1. \A v \in Users \ {u} : v \in Owner(e)' <=> v \in Owner(e)
      BY <1>1 DEF Owner
    <3>2. Owner(e) \subseteq Users /\ Owner(e)' \subseteq Users
      BY DEF Owner, Stored
    <3>3. QED
      BY <2>1, <3>1, <3>2
  <2>3. QED
    BY <1>2, <1>4, <2>2, SameAnswer
<1>5. QED
  BY <1>3, <1>4, KeyParts

\* A write that changes neither address nor roles changes no answer.
LEMMA SameAnswers ==
  ASSUME NEW k \in Keys,
         \A v \in Users : /\ v \in Stored <=> (v \in Stored)'
                          /\ roles'[v] = roles[v]
                          /\ v \in Stored => row'[v].email = row[v].email
  PROVE  Truth(k)' = Truth(k)
<1>1. Stored' = Stored /\ Stored \subseteq Users
  BY DEF Stored
<1>2. \A e \in Emails : Owner(e)' = Owner(e) /\ Owner(e) \subseteq Stored
  BY <1>1 DEF Owner
<1>3. \A v \in Stored : UserOutput(v, StoredAccount(v))' = UserOutput(v, StoredAccount(v))
  BY <1>1 DEF UserOutput, StoredAccount
<1>4. CASE k = ListKey
  <2>1. Page' = Page
    BY <1>1 DEF Page, ListEntry
  <2>2. QED
    BY <1>4, <2>1 DEF Truth
<1>5. CASE k # ListKey
  <2>1. About(k)' = About(k) /\ About(k) \subseteq Stored
    BY <1>1, <1>2, <1>5, KeyParts
  <2>2. QED
    BY <1>3, <1>5, <2>1, SameAnswer
<1>6. QED
  BY <1>4, <1>5

-----------------------------------------------------------------------------
(* The keys of a sequence of deletions *)

LEMMA KeysInEnds ==
  /\ KeysIn(<<>>) = {}
  /\ \A x : KeysIn(<<x>>) = {x}
<1>1. KeysIn(<<>>) = {}
  BY DEF KeysIn
<1>2. ASSUME NEW x PROVE KeysIn(<<x>>) = {x}
  BY DEF KeysIn
<1>3. QED
  BY <1>1, <1>2

LEMMA KeysInConcat ==
  ASSUME NEW S, NEW s \in Seq(S), NEW t \in Seq(S)
  PROVE  KeysIn(s \o t) = KeysIn(s) \cup KeysIn(t)
<1>1. /\ s \o t \in Seq(S) /\ Len(s) \in Nat /\ Len(t) \in Nat
      /\ Len(s \o t) = Len(s) + Len(t)
      /\ \A i \in 1..(Len(s) + Len(t)) : (s \o t)[i] = IF i <= Len(s) THEN s[i] ELSE t[i - Len(s)]
  BY ConcatProperties, LenProperties
<1>2. ASSUME NEW x \in KeysIn(s \o t) PROVE x \in KeysIn(s) \cup KeysIn(t)
  <2>1. PICK i \in 1..(Len(s) + Len(t)) : x = (s \o t)[i]
    BY <1>1 DEF KeysIn
  <2>2. CASE i <= Len(s)
    BY <1>1, <2>1, <2>2 DEF KeysIn
  <2>3. CASE ~ (i <= Len(s))
    <3>1. i - Len(s) \in 1..Len(t) /\ x = t[i - Len(s)]
      BY <1>1, <2>1, <2>3
    <3>2. QED
      BY <3>1 DEF KeysIn
  <2>4. QED
    BY <2>2, <2>3
<1>3. ASSUME NEW x \in KeysIn(s) PROVE x \in KeysIn(s \o t)
  <2>1. PICK i \in 1..Len(s) : x = s[i]
    BY DEF KeysIn
  <2>2. i \in 1..(Len(s) + Len(t)) /\ (s \o t)[i] = x
    BY <1>1, <2>1
  <2>3. QED
    BY <1>1, <2>2 DEF KeysIn
<1>4. ASSUME NEW x \in KeysIn(t) PROVE x \in KeysIn(s \o t)
  <2>1. PICK i \in 1..Len(t) : x = t[i]
    BY DEF KeysIn
  <2>2. /\ i + Len(s) \in 1..(Len(s) + Len(t)) /\ ~ (i + Len(s) <= Len(s))
        /\ (i + Len(s)) - Len(s) = i
    BY <1>1, <2>1
  <2>3. (s \o t)[i + Len(s)] = x
    BY <1>1, <2>1, <2>2
  <2>4. QED
    BY <1>1, <2>2, <2>3 DEF KeysIn
<1>5. QED
  BY <1>2, <1>3, <1>4

LEMMA KeysInHead ==
  ASSUME NEW S, NEW s \in Seq(S), s # <<>>
  PROVE  KeysIn(s) \subseteq {Head(s)} \cup KeysIn(Tail(s))
<1>1. /\ Len(s) \in Nat \ {0} /\ Head(s) = s[1] /\ Len(Tail(s)) = Len(s) - 1
      /\ \A i \in 1..(Len(s) - 1) : Tail(s)[i] = s[i + 1]
  BY HeadTailProperties, EmptySeq, LenProperties
<1>2. ASSUME NEW i \in 1..Len(s), i # 1 PROVE s[i] \in KeysIn(Tail(s))
  <2>1. i - 1 \in 1..(Len(s) - 1) /\ (i - 1) + 1 = i
    BY <1>1, <1>2
  <2>2. QED
    BY <1>1, <2>1 DEF KeysIn
<1>3. QED
  BY <1>1, <1>2 DEF KeysIn

LEMMA KeysInBoth ==
  ASSUME NEW s \in Seq(Keys), NEW t \in Seq(Keys)
  PROVE  s \o t \in Seq(Keys) /\ KeysIn(s \o t) = KeysIn(s) \cup KeysIn(t)
<1>1. s \o t \in Seq(Keys)
  BY Concatenation
<1>2. KeysIn(s \o t) = KeysIn(s) \cup KeysIn(t)
  BY KeysInConcat
<1>3. QED
  BY <1>1, <1>2

\* invalidateUserCaches deletes what it says.
LEMMA InvalidateKeys ==
  ASSUME NEW u \in Users, NEW old \in Emails \cup {None}, NEW new \in Emails \cup {None}
  PROVE  KeysIn(InvalidateUserCaches(u, old, new)) =
            {IdKey(u), ListKey} \cup {EmailKey(e) : e \in {old, new} \ {None}}
<1> DEFINE a == <<IdKey(u)>>
           b == IF old # None THEN <<EmailKey(old)>> ELSE <<>>
           c == IF new \notin {None, old} THEN <<EmailKey(new)>> ELSE <<>>
           d == <<ListKey>>
<1>1. a \in Seq(Keys) /\ b \in Seq(Keys) /\ c \in Seq(Keys) /\ d \in Seq(Keys)
  BY KeyTypes
<1>2. InvalidateUserCaches(u, old, new) = a \o b \o c \o d
  BY DEF InvalidateUserCaches
<1>3. /\ KeysIn(a) = {IdKey(u)} /\ KeysIn(d) = {ListKey}
      /\ KeysIn(b) = IF old # None THEN {EmailKey(old)} ELSE {}
      /\ KeysIn(c) = IF new \notin {None, old} THEN {EmailKey(new)} ELSE {}
  BY KeysInEnds
<1> HIDE DEF a, b, c, d
<1>4. PICK ab \in Seq(Keys) : ab = a \o b /\ KeysIn(ab) = KeysIn(a) \cup KeysIn(b)
  BY <1>1, KeysInBoth
<1>5. PICK abc \in Seq(Keys) : abc = ab \o c /\ KeysIn(abc) = KeysIn(ab) \cup KeysIn(c)
  BY <1>1, KeysInBoth
<1>6. KeysIn(abc \o d) = KeysIn(abc) \cup KeysIn(d)
  BY <1>1, KeysInBoth
<1>7. InvalidateUserCaches(u, old, new) = abc \o d
  BY <1>2, <1>4, <1>5
<1>8. KeysIn(InvalidateUserCaches(u, old, new)) = KeysIn(a) \cup KeysIn(b) \cup KeysIn(c) \cup KeysIn(d)
  BY <1>4, <1>5, <1>6, <1>7
<1>9. QED
  BY <1>3, <1>8

\* The keys a write deletes.
LEMMA DropsKeys ==
  ASSUME NEW q \in Request, NEW u \in Users, Asks(q), q.op \in Writes,
         q.op \in Loads => q.ent # None
  PROVE  /\ q.op \in {"register", "changePassword"} => KeysIn(Drops(q, u)) = {}
         /\ q.op = "createUser" =>
              KeysIn(Drops(q, u)) = {IdKey(u), ListKey, EmailKey(q.email)}
         /\ q.op = "deleteUser" =>
              KeysIn(Drops(q, u)) = {IdKey(u), ListKey, EmailKey(q.ent.email)}
         /\ q.op \in RoleChanges \cup {"updateUser"} =>
              KeysIn(Drops(q, u)) = {IdKey(u), ListKey, EmailKey(q.ent.email),
                                     EmailKey(Entity(q).email)}
<1>1. q.op \in Loads => q.ent.email \in Emails
  BY DEF Request, Account
<1>2. None \notin Emails
  BY AccountsAssumption
<1>3. CASE q.op \in {"register", "changePassword"}
  BY <1>3, KeysInEnds DEF Drops, RoleChanges
<1>4. CASE q.op = "createUser"
  <2>1. q.email \in Emails
    BY <1>4 DEF Asks, Creations
  <2>2. KeysIn(InvalidateUserCaches(u, None, q.email)) =
           {IdKey(u), ListKey} \cup {EmailKey(e) : e \in {None, q.email} \ {None}}
    BY <2>1, InvalidateKeys
  <2>3. Drops(q, u) = InvalidateUserCaches(u, None, q.email)
    BY <1>4 DEF Drops
  <2>4. QED
    BY <1>2, <1>4, <2>1, <2>2, <2>3 DEF RoleChanges
<1>5. CASE q.op = "deleteUser"
  <2>1. q.ent.email \in Emails
    BY <1>1, <1>5 DEF Loads, Writes, Creations
  <2>2. KeysIn(InvalidateUserCaches(u, q.ent.email, None)) =
           {IdKey(u), ListKey} \cup {EmailKey(e) : e \in {q.ent.email, None} \ {None}}
    BY <2>1, InvalidateKeys
  <2>3. Drops(q, u) = InvalidateUserCaches(u, q.ent.email, None)
    BY <1>5 DEF Drops
  <2>4. QED
    BY <1>2, <1>5, <2>1, <2>2, <2>3 DEF RoleChanges
<1>6. CASE q.op \in RoleChanges \cup {"updateUser"}
  <2>1. q.op \in Loads /\ q.op # "deleteUser"
    BY <1>6 DEF RoleChanges, Loads, Writes, Creations
  <2>2. q.ent.email \in Emails /\ Entity(q).email \in Emails
    BY <1>1, <2>1, SaveType DEF Account
  <2>3. KeysIn(InvalidateUserCaches(u, q.ent.email, Entity(q).email)) =
           {IdKey(u), ListKey} \cup {EmailKey(e) : e \in {q.ent.email, Entity(q).email} \ {None}}
    BY <2>2, InvalidateKeys
  <2>4. Drops(q, u) = InvalidateUserCaches(u, q.ent.email, Entity(q).email)
    BY <1>6 DEF Drops, RoleChanges
  <2>5. QED
    BY <1>2, <1>6, <2>2, <2>3, <2>4 DEF RoleChanges
<1>7. QED
  BY <1>3, <1>4, <1>5, <1>6 DEF Writes, Creations

\* Whose address an account is saved with.
LEMMA SavedEmail ==
  ASSUME NEW q \in Request, Asks(q), q.op \in Loads \ {"deleteUser"}, q.ent # None
  PROVE  /\ q.op # "updateUser" => Entity(q).email = q.ent.email
         /\ q.op = "updateUser" => Entity(q).email = IF q.email = None THEN q.ent.email ELSE q.email
         /\ q.op = "changePassword" => Entity(q).roles = q.ent.roles
<1>1. q.ent \in Account
  BY DEF Request
<1>2. CASE q.op = "updateUser"
  BY <1>1, <1>2 DEF Entity, Account
<1>3. CASE q.op = "assignRole"
  BY <1>1, <1>3 DEF Entity, Account
<1>4. CASE q.op = "removeRole"
  BY <1>1, <1>4 DEF Entity, Account
<1>5. CASE q.op = "changePassword"
  BY <1>1, <1>5 DEF Entity, Account
<1>6. QED
  BY <1>2, <1>3, <1>4, <1>5 DEF Loads, Writes, Creations, RoleChanges

-----------------------------------------------------------------------------
(* The shape of every step *)

\* A key that is stale after the step is excused or about to be deleted: only
\* the request that moves can stop deleting it.
LEMMA CacheStep ==
  ASSUME CacheInv, NEW r \in Requests,
         \A s \in Requests \ {r} : Announces(pc[s], req[s])' /\ req'[s].drops = req[s].drops,
         Announces(pc[r], req[r])',
         \A k \in Keys :
            \/ cache'[k] = None
            \/ cache'[k] = Truth(k)'
            \/ k \in excused'
            \/ k \in KeysIn(req'[r].drops)
            \/ /\ cache'[k] = cache[k] /\ Truth(k)' = Truth(k)
               /\ k \in excused => k \in excused'
               /\ k \notin KeysIn(req[r].drops)
  PROVE  CacheInv'
<1>1. CachesCoherent'
  <2> SUFFICES ASSUME NEW k \in Keys
               PROVE  \/ cache'[k] \in {None, Truth(k)'}
                      \/ k \in excused'
                      \/ \E s \in Requests : k \in KeysIn(req'[s].drops)
    BY DEF CachesCoherent
  <2>1. CASE \/ cache'[k] = None \/ cache'[k] = Truth(k)'
             \/ k \in excused' \/ k \in KeysIn(req'[r].drops)
    BY <2>1
  <2>2. CASE /\ cache'[k] = cache[k] /\ Truth(k)' = Truth(k)
             /\ k \in excused => k \in excused'
             /\ k \notin KeysIn(req[r].drops)
    <3>1. \/ cache[k] \in {None, Truth(k)}
          \/ k \in excused
          \/ \E s \in Requests : k \in KeysIn(req[s].drops)
      BY DEF CacheInv, CachesCoherent
    <3>2. ASSUME NEW s \in Requests, k \in KeysIn(req[s].drops)
          PROVE  k \in KeysIn(req'[s].drops)
      BY <2>2, <3>2
    <3>3. QED
      BY <2>2, <3>1, <3>2
  <2>3. QED
    BY <2>1, <2>2
<1>2. QED
  BY <1>1 DEF CacheInv

\* A request whose account no one writes announces what it did.
LEMMA SameAnnounces ==
  ASSUME NEW step, NEW q, Announces(step, q),
         step \in Syncs => row'[q.user] = row[q.user] /\ roles'[q.user] = roles[q.user]
                           /\ q.user \in Users
  PROVE  Announces(step, q)'
  BY DEF Announces, Stored

\* Before its write, and once it has nothing to delete, a request announces nothing.
LEMMA NothingToAnnounce ==
  ASSUME NEW step, NEW q, step \notin Syncs, step # "drop" => q.drops = <<>>
  PROVE  Announces(step, q) /\ Announces(step, q)'
  BY DEF Announces

LEMMA NoDrops == NoRequest.drops = <<>>
  BY DEF NoRequest, Fresh

\* The other requests, when r moves and no row is written.
LEMMA OthersSame ==
  ASSUME IInv, CacheInv, NEW r \in Requests, UNCHANGED <<row, roles>>,
         \A s \in Requests \ {r} : pc'[s] = pc[s] /\ req'[s] = req[s]
  PROVE  \A s \in Requests \ {r} : Announces(pc[s], req[s])' /\ req'[s].drops = req[s].drops
<1> SUFFICES ASSUME NEW s \in Requests \ {r}
             PROVE  Announces(pc[s], req[s])' /\ req'[s].drops = req[s].drops
  OBVIOUS
<1>1. Announces(pc[s], req[s]) /\ pc'[s] = pc[s] /\ req'[s] = req[s]
  BY DEF CacheInv
<1>2. pc[s] \in Syncs => req[s].user \in Users
  BY SyncFacts
<1>3. QED
  BY <1>1, <1>2, SameAnnounces

\* No answer changes where no row is written.
LEMMA NothingWritten ==
  ASSUME UNCHANGED <<row, roles>>, NEW k \in Keys
  PROVE  Truth(k)' = Truth(k)
<1>1. Stored' = Stored
  BY DEF Stored
<1>2. QED
  BY <1>1, SameAnswers

\* A step of a request that has nothing to delete and writes no row.
LEMMA QuietCache ==
  ASSUME IInv, CacheInv, NEW r \in Requests, NEW step \in Steps, NEW q \in Request,
         Goto(r, step, q), pc[r] \notin Syncs \cup {"drop"},
         step \notin Syncs \cup {"drop"}, q.drops = <<>>,
         UNCHANGED <<row, roles>>,
         \A k \in Keys : \/ cache'[k] \in {None, Truth(k)}
                         \/ k \in excused'
                         \/ cache'[k] = cache[k] /\ (k \in excused => k \in excused')
  PROVE  CacheInv'
<1>1. /\ pc'[r] = step /\ req'[r] = q
      /\ \A s \in Requests \ {r} : pc'[s] = pc[s] /\ req'[s] = req[s]
  BY GotoType DEF IInv, TypeOK
<1>2. KeysIn(req[r].drops) = {}
  BY KeysInEnds DEF CacheInv, Announces
<1>3. Announces(pc[r], req[r])'
  BY <1>1, NothingToAnnounce
<1>4. \A s \in Requests \ {r} : Announces(pc[s], req[s])' /\ req'[s].drops = req[s].drops
  BY <1>1, OthersSame
<1>5. ASSUME NEW k \in Keys
      PROVE  \/ cache'[k] = None
             \/ cache'[k] = Truth(k)'
             \/ k \in excused'
             \/ k \in KeysIn(req'[r].drops)
             \/ /\ cache'[k] = cache[k] /\ Truth(k)' = Truth(k)
                /\ k \in excused => k \in excused'
                /\ k \notin KeysIn(req[r].drops)
  BY <1>2, NothingWritten
<1>6. QED
  BY <1>3, <1>4, <1>5, CacheStep

\* A request that goes on, or ends, and leaves the cache alone.
LEMMA QuietGoto ==
  ASSUME IInv, CacheInv, NEW r \in Requests, NEW step \in Steps \ (Syncs \cup {"drop"}),
         NEW q \in Request, Goto(r, step, q), pc[r] \notin Syncs \cup {"drop"}, q.drops = <<>>,
         UNCHANGED <<row, roles, cache, excused>>
  PROVE  CacheInv'
  BY QuietCache

LEMMA QuietEnd ==
  ASSUME IInv, CacheInv, NEW r \in Requests, End(r), pc[r] \notin Syncs \cup {"drop"},
         UNCHANGED <<row, roles, cache, excused>>
  PROVE  CacheInv'
<1>1. NoRequest \in Request /\ "idle" \in Steps \ (Syncs \cup {"drop"})
  BY NoRequestType DEF Steps, Syncs
<1>2. QED
  BY <1>1, NoDrops, QuietGoto DEF End

-----------------------------------------------------------------------------
(* Requests that read, and checks before a write *)

LEMMA BeginCache ==
  ASSUME IInv, CacheInv, NEW r \in Requests, Begin(r)
  PROVE  CacheInv'
<1>1. /\ used \subseteq Users /\ pc[r] \notin Syncs \cup {"drop"}
      /\ UNCHANGED <<row, roles, cache, excused>>
  BY RequestFacts DEF Begin, At, Syncs
<1>2. ASSUME NEW step \in {"checkEmail", "findRow", "lookup"}, NEW op \in Writes \cup Reads,
             NEW u \in Users \cup {None}, NEW e \in Emails \cup {None},
             NEW p \in Passwords \cup {None}, NEW o \in Roles \cup {None},
             Goto(r, step, Fresh(op, u, e, p, o))
      PROVE  CacheInv'
  <2>1. Fresh(op, u, e, p, o) \in Request /\ Fresh(op, u, e, p, o).drops = <<>>
    BY DEF Fresh, Request
  <2>2. step \in Steps \ (Syncs \cup {"drop"})
    BY DEF Steps, Syncs
  <2>3. QED
    BY <1>1, <1>2, <2>1, <2>2, QuietGoto
<1>3. /\ Creations \subseteq Writes /\ RoleChanges \subseteq Writes
      /\ {"updateUser", "changePassword", "deleteUser"} \subseteq Writes
      /\ {"getUser", "getUserByEmail", "listUsers"} \subseteq Reads
  BY DEF Writes, Reads
<1>4. CASE \E op \in Creations, e \in Emails, p \in Passwords :
             Goto(r, "checkEmail", Fresh(op, None, e, p, None))
  BY <1>2, <1>3, <1>4
<1>5. CASE \E u \in used, e \in Emails \cup {None} :
             Goto(r, "findRow", Fresh("updateUser", u, e, None, None))
  BY <1>1, <1>2, <1>3, <1>5
<1>6. CASE \E u \in used, op \in RoleChanges, o \in Roles :
             Goto(r, "findRow", Fresh(op, u, None, None, o))
  BY <1>1, <1>2, <1>3, <1>6
<1>7. CASE \E u \in used, p \in Passwords :
             Goto(r, "findRow", Fresh("changePassword", u, None, p, None))
  BY <1>1, <1>2, <1>3, <1>7
<1>8. CASE \E u \in used :
             Goto(r, "findRow", Fresh("deleteUser", u, None, None, None))
  BY <1>1, <1>2, <1>3, <1>8
<1>9. CASE \E u \in used :
             Goto(r, "lookup", Fresh("getUser", u, None, None, None))
  BY <1>1, <1>2, <1>3, <1>9
<1>10. CASE \E e \in Emails :
             Goto(r, "lookup", Fresh("getUserByEmail", None, e, None, None))
  BY <1>2, <1>3, <1>10
<1>11. CASE Goto(r, "lookup", Fresh("listUsers", None, None, None, None))
  BY <1>2, <1>3, <1>11
<1>12. QED
  BY <1>4, <1>5, <1>6, <1>7, <1>8, <1>9, <1>10, <1>11 DEF Begin

\* A request that has no statement of a write behind it has nothing to delete.
LEMMA NothingYet ==
  ASSUME IInv, CacheInv, NEW r \in Requests, pc[r] \notin Syncs \cup {"drop"}
  PROVE  req[r] \in Request /\ req[r].drops = <<>> /\ KeysIn(req[r].drops) = {}
  BY RequestFacts, KeysInEnds DEF CacheInv, Announces

LEMMA LookupCache ==
  ASSUME IInv, CacheInv, NEW r \in Requests, Lookup(r)
  PROVE  CacheInv'
<1>1. pc[r] \notin Syncs \cup {"drop"} /\ UNCHANGED <<row, roles, cache, excused>>
  BY DEF Lookup, At, Syncs
<1>2. req[r] \in Request /\ req[r].drops = <<>> /\ "findRow" \in Steps \ (Syncs \cup {"drop"})
  BY <1>1, NothingYet DEF Steps, Syncs
<1>3. End(r) \/ Goto(r, "findRow", req[r])
  BY DEF Lookup
<1>4. QED
  BY <1>1, <1>2, <1>3, QuietEnd, QuietGoto

LEMMA FindRowCache ==
  ASSUME IInv, CacheInv, NEW r \in Requests, FindRow(r)
  PROVE  CacheInv'
<1>1. pc[r] \notin Syncs \cup {"drop"} /\ UNCHANGED <<row, roles, cache, excused>>
  BY DEF FindRow, At, Syncs
<1>2. req[r] \in Request /\ req[r].drops = <<>> /\ "findRoles" \in Steps \ (Syncs \cup {"drop"})
  BY <1>1, NothingYet DEF Steps, Syncs
<1>3. CASE End(r)
  BY <1>1, <1>3, QuietEnd
<1>4. ASSUME NEW u \in Found(r), Goto(r, "findRoles", Loaded(req[r], u, row[u]))
      PROVE  CacheInv'
  <2>1. u \in Stored
    BY DEF Found, Owner
  <2>2. u \in Users /\ row[u] \in [email : Emails, pass : Passwords]
    BY <2>1, StoredRow
  <2>3. Loaded(req[r], u, row[u]) \in Request /\ Loaded(req[r], u, row[u]).drops = <<>>
    BY <1>2, <2>2, LoadedRow
  <2>4. QED
    BY <1>1, <1>2, <1>4, <2>3, QuietGoto
<1>5. QED
  BY <1>3, <1>4 DEF FindRow

LEMMA FindAllCache ==
  ASSUME IInv, CacheInv, NEW r \in Requests, FindAll(r)
  PROVE  CacheInv'
<1>1. pc[r] \notin Syncs \cup {"drop"} /\ UNCHANGED <<row, roles, cache, excused>>
  BY DEF FindAll, At, Syncs
<1>2. req[r] \in Request /\ req[r].drops = <<>> /\ "store" \in Steps \ (Syncs \cup {"drop"})
  BY <1>1, NothingYet DEF Steps, Syncs
<1>3. CASE End(r)
  BY <1>1, <1>3, QuietEnd
<1>4. CASE Goto(r, "store", [req[r] EXCEPT !.page = Page])
  <2>1. \A u \in Stored : u \in Users /\ row[u].email \in Emails
    BY StoredRow
  <2>2. Page \subseteq [user : Users, email : Emails]
    BY <2>1 DEF Page, ListEntry
  <2>3. [req[r] EXCEPT !.page = Page] \in Request /\ [req[r] EXCEPT !.page = Page].drops = <<>>
    BY <1>2, <2>2 DEF Request
  <2>4. QED
    BY <1>1, <1>2, <1>4, <2>3, QuietGoto
<1>5. QED
  BY <1>3, <1>4 DEF FindAll

LEMMA FindRolesCache ==
  ASSUME IInv, CacheInv, NEW r \in Requests, FindRoles(r)
  PROVE  CacheInv'
<1>1. pc[r] = "findRoles" /\ pc[r] \notin Syncs \cup {"drop"} /\ UNCHANGED <<row, roles, cache, excused>>
  BY DEF FindRoles, At, Syncs
<1>2. /\ req[r] \in Request /\ req[r].drops = <<>> /\ Knows("findRoles", req[r])
  BY <1>1, NothingYet, RequestFacts
<1>3. CASE End(r)
  BY <1>1, <1>3, QuietEnd
<1> DEFINE q == [req[r] EXCEPT !.ent.roles = roles[req[r].user]]
<1>4. CASE Goto(r, AfterFind(q), q)
  <2>1. req[r].ent # None /\ roles[req[r].user] \subseteq Roles
    BY <1>2, RequestFacts DEF Knows, Asks, IInv, TypeOK
  <2>2. q \in Request /\ q.op = req[r].op /\ q.drops = <<>>
    BY <1>2, <2>1, LoadedRoles
  <2>3. q.op \in {"getUser", "getUserByEmail"} \cup Loads
    BY <1>2, <2>2 DEF Knows, Reads
  <2> HIDE DEF q
  <2>4. AfterFind(q) \in {"store", "findRole", "updateRow", "checkEmail", "deleteRow"}
    BY <2>3 DEF AfterFind, Loads, Writes, Creations, RoleChanges, Reads
  <2>5. AfterFind(q) \in Steps \ (Syncs \cup {"drop"})
    BY <2>4 DEF Steps, Syncs
  <2>6. QED
    BY <1>1, <1>4, <2>2, <2>5, QuietGoto
<1>5. QED
  BY <1>3, <1>4 DEF FindRoles

LEMMA CheckEmailCache ==
  ASSUME IInv, CacheInv, NEW r \in Requests, CheckEmail(r)
  PROVE  CacheInv'
<1>1. pc[r] \notin Syncs \cup {"drop"} /\ UNCHANGED <<row, roles, cache, excused>>
  BY DEF CheckEmail, At, Syncs
<1>2. req[r] \in Request /\ req[r].drops = <<>>
  BY <1>1, NothingYet
<1>3. {"findRole", "insertRow", "updateRow"} \subseteq Steps \ (Syncs \cup {"drop"})
  BY DEF Steps, Syncs
<1>4. End(r) \/ \E step \in {"findRole", "insertRow", "updateRow"} : Goto(r, step, req[r])
  BY DEF CheckEmail
<1>5. QED
  BY <1>1, <1>2, <1>3, <1>4, QuietEnd, QuietGoto

LEMMA FindRoleCache ==
  ASSUME IInv, CacheInv, NEW r \in Requests, FindRole(r)
  PROVE  CacheInv'
<1>1. pc[r] \notin Syncs \cup {"drop"} /\ UNCHANGED <<row, roles, cache, excused>>
  BY DEF FindRole, At, Syncs
<1>2. req[r] \in Request /\ req[r].drops = <<>>
  BY <1>1, NothingYet
<1>3. {"insertRow", "updateRow"} \subseteq Steps \ (Syncs \cup {"drop"})
  BY DEF Steps, Syncs
<1>4. End(r) \/ \E step \in {"insertRow", "updateRow"} : Goto(r, step, req[r])
  BY DEF FindRole
<1>5. QED
  BY <1>1, <1>2, <1>3, <1>4, QuietEnd, QuietGoto

-----------------------------------------------------------------------------
(* The cache *)

\* Where a request goes, it keeps what it has yet to delete.
LEMMA RestDrops ==
  ASSUME NEW q \in Request
  PROVE  /\ NextStep(q) \in {"syncWrite", "drop", "idle"} /\ Rest(q) \in Request
         /\ KeysIn(Rest(q).drops) = KeysIn(q.drops)
         /\ NextStep(q) = "syncWrite" => Rest(q) = q /\ q.rm \cup q.add # {}
         /\ NextStep(q) # "drop" /\ NextStep(q) # "syncWrite" => Rest(q).drops = <<>>
<1>1. CASE NextStep(q) = "idle"
  <2>1. q.drops = <<>> /\ Rest(q) = NoRequest
    BY <1>1 DEF NextStep, Rest
  <2>2. QED
    BY <1>1, <2>1, NoDrops, NoRequestType
<1>2. CASE NextStep(q) # "idle"
  <2>1. Rest(q) = q
    BY <1>2 DEF Rest
  <2>2. QED
    BY <1>2, <2>1 DEF NextStep
<1>3. QED
  BY <1>1, <1>2

LEMMA DropCache ==
  ASSUME IInv, CacheInv, NEW r \in Requests, Drop(r)
  PROVE  CacheInv'
<1>1. pc[r] = "drop" /\ req[r] \in Request /\ Knows("drop", req[r]) /\ UNCHANGED <<row, roles>>
  BY RequestFacts DEF Drop, At
<1>2. req[r].drops \in Seq(Keys) /\ req[r].drops # <<>> /\ req[r].rm = {} /\ req[r].add = {}
  BY <1>1 DEF Request, Knows, Syncs
<1>3. PICK j \in Keys : j = Head(req[r].drops)
  BY <1>2, SeqTail
<1>4. PICK d \in Seq(Keys) : d = Tail(req[r].drops)
  BY <1>2, SeqTail
<1>5. PICK q \in Request : q = [req[r] EXCEPT !.drops = d]
  <2>1. [req[r] EXCEPT !.drops = d] \in Request
    BY <1>1 DEF Request
  <2>2. QED
    BY <2>1
<1>6. q.drops = d /\ q.rm = {} /\ q.add = {}
  BY <1>1, <1>2, <1>5 DEF Request
<1>7. /\ Goto(r, NextStep(q), Rest(q))
      /\ \/ cache' = [cache EXCEPT ![j] = None] /\ excused' = excused \ {j}
         \/ UNCHANGED cache /\ excused' = excused \cup {j}
  BY <1>3, <1>4, <1>5 DEF Drop
<1>8. PICK step \in {"drop", "idle"} : step = NextStep(q)
  BY <1>6 DEF NextStep
<1>9. PICK x \in Request : x = Rest(q) /\ KeysIn(x.drops) = KeysIn(d)
                           /\ (step = "idle" => x.drops = <<>>)
  BY <1>6, <1>8, RestDrops
<1>10. /\ pc'[r] = step /\ req'[r] = x
       /\ \A s \in Requests \ {r} : pc'[s] = pc[s] /\ req'[s] = req[s]
  BY <1>7, <1>8, <1>9, GotoType DEF IInv, TypeOK, Steps
<1>11. Announces(pc[r], req[r])'
  BY <1>9, <1>10, NothingToAnnounce DEF Syncs
<1>12. KeysIn(req[r].drops) \subseteq {j} \cup KeysIn(x.drops)
  BY <1>2, <1>3, <1>4, <1>9, KeysInHead
<1>13. ASSUME NEW k \in Keys
       PROVE  \/ cache'[k] = None
              \/ cache'[k] = Truth(k)'
              \/ k \in excused'
              \/ k \in KeysIn(req'[r].drops)
              \/ /\ cache'[k] = cache[k] /\ Truth(k)' = Truth(k)
                 /\ k \in excused => k \in excused'
                 /\ k \notin KeysIn(req[r].drops)
  <2>1. DOMAIN cache = Keys /\ Truth(k)' = Truth(k)
    BY <1>1, RequestFacts, NothingWritten
  <2>2. CASE k = j
    BY <1>7, <2>1, <2>2
  <2>3. CASE k # j
    BY <1>7, <1>10, <1>12, <2>1, <2>3
  <2>4. QED
    BY <2>2, <2>3
<1>14. \A s \in Requests \ {r} : Announces(pc[s], req[s])' /\ req'[s].drops = req[s].drops
  BY <1>1, <1>10, OthersSame
<1>15. QED
  BY <1>11, <1>13, <1>14, CacheStep

LEMMA StoreCache ==
  ASSUME IInv, CacheInv, NEW r \in Requests, Store(r)
  PROVE  CacheInv'
<1>1. /\ pc[r] \notin Syncs \cup {"drop"} /\ UNCHANGED <<row, roles>> /\ End(r)
      /\ DOMAIN cache = Keys
  BY RequestFacts DEF Store, At, Syncs
<1>2. PICK j : j = ReadKey(r)
  OBVIOUS
<1>3. PICK answer : answer = IF j = ListKey THEN req[r].page
                             ELSE UserOutput(req[r].user, req[r].ent)
  OBVIOUS
<1>4. \/ /\ cache' = [cache EXCEPT ![j] = answer]
         /\ excused' = IF answer = Truth(j) THEN excused \ {j} ELSE excused \cup {j}
      \/ UNCHANGED <<cache, excused>>
  BY <1>2, <1>3 DEF Store
<1>5. \A k \in Keys : \/ cache'[k] \in {None, Truth(k)}
                      \/ k \in excused'
                      \/ cache'[k] = cache[k] /\ (k \in excused => k \in excused')
  BY <1>1, <1>4
<1>6. NoRequest \in Request /\ NoRequest.drops = <<>> /\ "idle" \in Steps /\ "idle" \notin Syncs \cup {"drop"}
  BY NoRequestType, NoDrops DEF Steps, Syncs
<1>7. Goto(r, "idle", NoRequest)
  BY <1>1 DEF End
<1>8. QED
  BY <1>1, <1>5, <1>6, <1>7, QuietCache

LEMMA ExpireCache ==
  ASSUME IInv, CacheInv, NEW j \in Keys, Expire(j)
  PROVE  CacheInv'
<1>1. /\ cache' = [cache EXCEPT ![j] = None] /\ excused' = excused \ {j}
      /\ UNCHANGED <<row, roles, pc, req>> /\ DOMAIN cache = Keys
  BY DEF Expire, IInv, TypeOK
<1>2. \A r \in Requests : Announces(pc[r], req[r])'
  BY <1>1 DEF CacheInv, Announces, Stored
<1>3. ASSUME NEW k \in Keys
      PROVE  \/ cache'[k] \in {None, Truth(k)'}
             \/ k \in excused'
             \/ \E r \in Requests : k \in KeysIn(req'[r].drops)
  <2>1. Truth(k)' = Truth(k)
    BY <1>1, NothingWritten
  <2>2. CASE k = j
    BY <1>1, <2>2
  <2>3. CASE k # j
    <3>1. /\ cache'[k] = cache[k] /\ (k \in excused => k \in excused')
          /\ \A r \in Requests : req'[r] = req[r]
      BY <1>1, <2>3
    <3>2. QED
      BY <2>1, <3>1 DEF CacheInv, CachesCoherent
  <2>4. QED
    BY <2>2, <2>3
<1>4. QED
  BY <1>2, <1>3 DEF CacheInv, CachesCoherent

-----------------------------------------------------------------------------
(* syncUserRoles without a statement *)

LEMMA SyncFailsCache ==
  ASSUME IInv, CacheInv, NEW r \in Requests, pc[r] \in Syncs, SyncFails(r), UNCHANGED <<row, cache>>
  PROVE  CacheInv'
<1>1. /\ Goto(r, "idle", NoRequest) /\ UNCHANGED <<row, roles>>
      /\ excused' = excused \cup KeysIn(req[r].drops)
  BY DEF SyncFails, End
<1>2. /\ pc'[r] = "idle" /\ req'[r] = NoRequest
      /\ \A s \in Requests \ {r} : pc'[s] = pc[s] /\ req'[s] = req[s]
  BY <1>1, NoRequestType, GotoType DEF IInv, TypeOK, Steps
<1>3. Announces(pc[r], req[r])'
  BY <1>2, NoDrops, NothingToAnnounce DEF Syncs
<1>4. \A s \in Requests \ {r} : Announces(pc[s], req[s])' /\ req'[s].drops = req[s].drops
  BY <1>1, <1>2, OthersSame
<1>5. ASSUME NEW k \in Keys
      PROVE  \/ k \in excused'
             \/ /\ cache'[k] = cache[k] /\ Truth(k)' = Truth(k)
                /\ k \in excused => k \in excused'
                /\ k \notin KeysIn(req[r].drops)
  BY <1>1, NothingWritten
<1>6. QED
  BY <1>3, <1>4, <1>5, CacheStep

LEMMA SyncReadCache ==
  ASSUME IInv, CacheInv, NEW r \in Requests, SyncRead(r)
  PROVE  CacheInv'
<1>1. /\ pc[r] = "syncRead" /\ pc[r] \in Syncs /\ UNCHANGED <<row, cache>>
  BY DEF SyncRead, At, Syncs
<1>2. CASE SyncFails(r)
  BY <1>1, <1>2, SyncFailsCache
<1>3. CASE LET had == roles[req[r].user]
               y == [req[r] EXCEPT !.rm = had \ req[r].ent.roles, !.add = req[r].ent.roles \ had] IN
           /\ Goto(r, NextStep(y), Rest(y))
           /\ UNCHANGED <<roles, excused>>
  <2>1. PICK u \in Users : u = req[r].user
    BY <1>1, SyncFacts
  <2>2. /\ req[r] \in Request /\ req[r].ent \in Account /\ roles[u] \subseteq Roles
        /\ req[r].ent.roles \subseteq Roles
    BY <1>1, <2>1, SyncFacts DEF Account
  <2>3. PICK rm \in SUBSET Roles : rm = roles[u] \ req[r].ent.roles
    BY <2>2
  <2>4. PICK add \in SUBSET Roles : add = req[r].ent.roles \ roles[u]
    BY <2>2
  <2>5. PICK q \in Request : q = [req[r] EXCEPT !.rm = rm, !.add = add]
    <3>1. [req[r] EXCEPT !.rm = rm, !.add = add] \in Request
      BY <2>2 DEF Request
    <3>2. QED
      BY <3>1
  <2>6. /\ q.op = req[r].op /\ q.email = req[r].email /\ q.ent = req[r].ent /\ q.user = u
        /\ q.stale = req[r].stale /\ q.drops = req[r].drops /\ q.rm = rm /\ q.add = add
    BY <2>1, <2>2, <2>5 DEF Request
  <2>7. Goto(r, NextStep(q), Rest(q)) /\ UNCHANGED <<row, roles, cache, excused>>
    BY <1>1, <1>3, <2>1, <2>3, <2>4, <2>5
  <2>8. PICK step \in {"syncWrite", "drop", "idle"} : step = NextStep(q)
    BY RestDrops
  <2>9. PICK x \in Request : /\ x = Rest(q) /\ KeysIn(x.drops) = KeysIn(req[r].drops)
                             /\ step = "syncWrite" => x = q /\ q.rm \cup q.add # {}
                             /\ step = "idle" => x.drops = <<>>
    BY <2>6, <2>8, RestDrops
  <2>10. /\ pc'[r] = step /\ req'[r] = x
         /\ \A s \in Requests \ {r} : pc'[s] = pc[s] /\ req'[s] = req[s]
    BY <2>7, <2>8, <2>9, GotoType DEF IInv, TypeOK, Steps
  <2>11. Announces(pc[r], req[r])'
    <3>1. CASE step = "syncWrite"
      <4>1. Announces("syncRead", req[r])
        BY <1>1 DEF CacheInv
      <4>2. q.op = "changePassword" => req[r].stale
        BY <2>1, <2>3, <2>4, <2>6, <2>9, <3>1, <4>1 DEF Announces, Syncs
      <4>3. Announces("syncWrite", q)
        BY <2>1, <2>6, <4>1, <4>2 DEF Announces, Syncs
      <4>4. row'[q.user] = row[q.user] /\ roles'[q.user] = roles[q.user] /\ q.user \in Users
        BY <2>6, <2>7
      <4>5. QED
        BY <2>9, <2>10, <3>1, <4>3, <4>4, SameAnnounces
    <3>2. CASE step # "syncWrite"
      BY <2>9, <2>10, <3>2, NothingToAnnounce DEF Syncs
    <3>3. QED
      BY <3>1, <3>2
  <2>12. \A s \in Requests \ {r} : Announces(pc[s], req[s])' /\ req'[s].drops = req[s].drops
    BY <2>7, <2>10, OthersSame
  <2>13. ASSUME NEW k \in Keys
         PROVE  \/ k \in KeysIn(req'[r].drops)
                \/ /\ cache'[k] = cache[k] /\ Truth(k)' = Truth(k)
                   /\ k \in excused => k \in excused'
                   /\ k \notin KeysIn(req[r].drops)
    BY <2>7, <2>9, <2>10, NothingWritten
  <2>14. QED
    BY <2>11, <2>12, <2>13, CacheStep
<1>4. QED
  BY <1>2, <1>3 DEF SyncRead

-----------------------------------------------------------------------------
(* The writes *)

\* The other requests after r wrote u: those that write u themselves are stale.
LEMMA OthersAfterWrite ==
  ASSUME IInv, CacheInv, NEW r \in Requests, NEW u \in Users, NEW step \in Steps,
         NEW q \in Request, Writing(r, u, step, q),
         \A v \in Users \ {u} : row'[v] = row[v] /\ roles'[v] = roles[v]
  PROVE  /\ pc'[r] = step /\ req'[r] = q
         /\ \A s \in Requests \ {r} : Announces(pc[s], req[s])' /\ req'[s].drops = req[s].drops
<1>1. /\ pc'[r] = step /\ req'[r] = q
      /\ \A s \in Requests \ {r} :
            /\ pc'[s] = pc[s]
            /\ req'[s] \in {req[s], [req[s] EXCEPT !.stale = TRUE]}
            /\ req[s].user # u => req'[s] = req[s]
            /\ req[s].user = u /\ req[s].op \in Writes /\ req[s].ent # None /\ pc[s] # "drop"
                  => req'[s].stale
  BY WritingOthers DEF IInv
<1>2. ASSUME NEW s \in Requests \ {r}
      PROVE  Announces(pc[s], req[s])' /\ req'[s].drops = req[s].drops
  <2>1. PICK p : p = req'[s]
    OBVIOUS
  <2>2. /\ p.user = req[s].user /\ p.op = req[s].op /\ p.email = req[s].email
        /\ p.ent = req[s].ent /\ p.drops = req[s].drops
    <3>1. CASE p = [req[s] EXCEPT !.stale = TRUE]
      BY <3>1, RequestFacts, Staled
    <3>2. QED
      BY <1>1, <2>1, <3>1
  <2>3. Announces(pc[s], req[s]) /\ pc'[s] = pc[s]
    BY <1>1 DEF CacheInv
  <2>4. CASE pc[s] \notin Syncs
    <3>1. pc[s] # "drop" => p.drops = <<>>
      BY <2>2, <2>3, <2>4 DEF Announces
    <3>2. QED
      BY <2>1, <2>2, <2>3, <2>4, <3>1, NothingToAnnounce
  <2>5. CASE pc[s] \in Syncs /\ req[s].user = u
    <3>1. req[s].op \in Writes /\ req[s].ent # None /\ pc[s] # "drop"
      BY <2>5, SyncFacts DEF Syncs
    <3>2. p.stale
      BY <1>1, <2>1, <2>5, <3>1
    <3>3. Announces(pc[s], p)'
      BY <2>2, <2>3, <2>5, <3>2 DEF Announces
    <3>4. QED
      BY <2>1, <2>2, <2>3, <3>3
  <2>6. CASE pc[s] \in Syncs /\ req[s].user # u
    <3>1. req[s].user \in Users \ {u} /\ p = req[s]
      BY <1>1, <2>1, <2>6, SyncFacts
    <3>2. QED
      BY <2>1, <2>3, <3>1, SameAnnounces
  <2>7. QED
    BY <2>4, <2>5, <2>6
<1>3. QED
  BY <1>1, <1>2

\* A write of account u that excuses, or will delete, the keys it touched.
LEMMA WrittenKeys ==
  ASSUME IInv, CacheInv, NEW r \in Requests, NEW u \in Users, NEW q \in Request,
         \A v \in Users \ {u} : row'[v] = row[v] /\ roles'[v] = roles[v],
         cache' = cache, excused \subseteq excused',
         KeysIn(req[r].drops) \subseteq KeysIn(q.drops),
         NEW touched \in SUBSET Emails,
         u \in Stored => row[u].email \in touched,
         (u \in Stored)' => row'[u].email \in touched,
         {IdKey(u), ListKey} \cup {EmailKey(e) : e \in touched} \subseteq excused' \cup KeysIn(q.drops)
  PROVE  \A k \in Keys :
            \/ k \in excused'
            \/ k \in KeysIn(q.drops)
            \/ /\ cache'[k] = cache[k] /\ Truth(k)' = Truth(k)
               /\ k \in excused => k \in excused'
               /\ k \notin KeysIn(req[r].drops)
<1> SUFFICES ASSUME NEW k \in Keys, k \notin excused', k \notin KeysIn(q.drops)
             PROVE  Truth(k)' = Truth(k)
  OBVIOUS
<1>1. k \in Keys \ {IdKey(u), ListKey} /\ \A e \in touched : k # EmailKey(e)
  OBVIOUS
<1>2. u \in Stored => k # EmailKey(row[u].email)
  BY <1>1
<1>3. (u \in Stored)' => k # EmailKey(row'[u].email)
  BY <1>1
<1>4. QED
  BY <1>1, <1>2, <1>3, OtherAnswers

\* A stale write excuses every address it does not delete.
LEMMA StaleKeys ==
  ASSUME NEW q, NEW u \in Users, q.stale, NEW D, KeysIn(Drops(q, u)) \subseteq D
  PROVE  {IdKey(u), ListKey} \cup {EmailKey(e) : e \in Emails} \subseteq Unannounced(q, u) \cup D
  BY DEF Unannounced

LEMMA InsertRowCache ==
  ASSUME IInv, CacheInv, NEW r \in Requests, InsertRow(r)
  PROVE  CacheInv'
<1>1. /\ req[r] \in Request /\ Knows("insertRow", req[r]) /\ used \subseteq Users
      /\ pc[r] = "insertRow" /\ pc[r] \notin Syncs \cup {"drop"} /\ UNCHANGED <<roles, cache>>
  BY RequestFacts DEF InsertRow, At, Syncs
<1>2. CASE End(r) /\ UNCHANGED <<row, excused>>
  BY <1>1, <1>2, QuietEnd
<1>3. ASSUME NEW u \in Users \ used,
             LET x == [req[r] EXCEPT !.user = u, !.ent = Entity(req[r])] IN
             /\ row' = [row EXCEPT ![u] = [email |-> x.email, pass |-> x.pass]]
             /\ Goto(r, "syncRead", [x EXCEPT !.drops = Drops(x, u)])
             /\ excused' = excused \cup Unannounced(x, u)
      PROVE  CacheInv'
  <2>1. /\ req[r].op \in Creations /\ req[r].op \in Writes /\ req[r].op \notin Loads
        /\ Asks(req[r]) /\ req[r].email \in Emails /\ req[r].pass \in Passwords
        /\ req[r].op # "changePassword"
    BY <1>1 DEF Knows, Asks, Writes, Loads, Creations
  <2>2. PICK a \in Account : a = Entity(req[r]) /\ a.email = req[r].email
    <3>1. Entity(req[r]) \in Account
      BY <1>1, <1>3, <2>1, SaveType DEF Creations
    <3>2. Entity(req[r]).email = req[r].email
      BY <2>1 DEF Entity, Creations
    <3>3. QED
      BY <3>1, <3>2
  <2>3. PICK x \in Request : x = [req[r] EXCEPT !.user = u, !.ent = a]
    <3>1. [req[r] EXCEPT !.user = u, !.ent = a] \in Request
      BY <1>1 DEF Request
    <3>2. QED
      BY <3>1
  <2>4. /\ x.user = u /\ x.ent = a /\ x.op = req[r].op /\ x.email = req[r].email
        /\ x.pass = req[r].pass
    BY <1>1, <2>3 DEF Request
  <2>6. PICK d \in Seq(Keys) : d = Drops(x, u)
    <3>1. Entity(x) = Entity(req[r])
      <4>1. x.role = req[r].role
        BY <1>1, <2>3 DEF Request
      <4>2. QED
        BY <2>1, <2>4, <4>1, EntitySame
    <3>2. x.op \in Writes /\ x.op # "deleteUser" /\ Entity(x) \in Account
      BY <2>1, <2>2, <2>4, <3>1 DEF Creations
    <3>3. QED
      BY <1>3, <2>1, <2>4, <3>2, DropsType
  <2>7. PICK q \in Request : q = [x EXCEPT !.drops = d]
    <3>1. [x EXCEPT !.drops = d] \in Request
      BY <2>6 DEF Request
    <3>2. QED
      BY <3>1
  <2>8. /\ q.user = u /\ q.ent = a /\ q.op = req[r].op /\ q.email = req[r].email /\ q.drops = d
    BY <2>4, <2>6, <2>7 DEF Request
  <2>9. /\ row' = [row EXCEPT ![u] = [email |-> x.email, pass |-> x.pass]]
        /\ Goto(r, "syncRead", q) /\ excused' = excused \cup Unannounced(x, u)
    BY <1>3, <2>2, <2>3, <2>6, <2>7
  <2>10. /\ row'[u] # None /\ row'[u].email = a.email
         /\ \A v \in Users \ {u} : row'[v] = row[v] /\ roles'[v] = roles[v]
    <3>1. [email |-> x.email, pass |-> x.pass] # None
      BY <2>1, <2>4, NoneAssumption
    <3>2. QED
      BY <1>1, <2>2, <2>4, <2>9, <3>1 DEF IInv, TypeOK
  <2>11. /\ pc'[r] = "syncRead" /\ req'[r] = q
         /\ \A s \in Requests \ {r} : pc'[s] = pc[s] /\ req'[s] = req[s]
    BY <2>9, GotoType DEF IInv, TypeOK, Steps
  <2>12. u # None /\ u \notin Stored /\ \A s \in Requests : req[s].user # u
    BY <1>1, <1>3, AccountsAssumption DEF IInv, Knows, Asks, AccountInv
  <2>13. a.email \in Emails /\ KeysIn(req[r].drops) = {}
    BY <1>1, <2>1, <2>2, NothingYet
  <2>14. KeysIn(d) = IF x.op = "register" THEN {} ELSE {IdKey(u), ListKey, EmailKey(a.email)}
    <3>1. x.op \notin Loads /\ x.op \in Writes /\ x.op \in Creations
      BY <2>1, <2>4
    <3>3. CASE x.op = "register"
      BY <2>6, <3>3, KeysInEnds DEF Drops
    <3>4. CASE x.op = "createUser"
      <4>1. d = InvalidateUserCaches(u, None, x.email)
        BY <2>6, <3>4 DEF Drops
      <4>2. KeysIn(d) = {IdKey(u), ListKey} \cup {EmailKey(e) : e \in {None, x.email} \ {None}}
        BY <2>1, <2>4, <4>1, InvalidateKeys
      <4>3. x.email # None
        BY <2>1, <2>4, AccountsAssumption
      <4>4. QED
        BY <2>2, <2>4, <3>4, <4>2, <4>3
    <3>5. QED
      BY <3>1, <3>3, <3>4 DEF Creations
  <2>15. {IdKey(u), ListKey, EmailKey(a.email)} \subseteq excused' \cup KeysIn(q.drops)
    <3>1. CASE x.op = "register"
      <4>1. KeysIn(Drops(x, u)) = {}
        BY <2>6, <2>14, <3>1
      <4>2. {IdKey(u), EmailKey(x.email), ListKey} \subseteq Unannounced(x, u)
        BY <3>1, <4>1 DEF Unannounced
      <4>3. QED
        BY <2>2, <2>4, <2>9, <4>2
    <3>2. CASE x.op # "register"
      BY <2>8, <2>14, <3>2
    <3>3. QED
      BY <3>1, <3>2
  <2>16. Announces(pc[r], req[r])'
    <3>1. q.op # "register" => {IdKey(u), EmailKey(a.email), ListKey} \subseteq KeysIn(q.drops)
      BY <2>4, <2>8, <2>14
    <3>2. (u \in Stored)' /\ row'[u].email = q.ent.email
      BY <2>8, <2>10 DEF Stored
    <3>3. QED
      BY <2>1, <2>2, <2>8, <2>11, <3>1, <3>2 DEF Announces, Syncs
  <2>17. ASSUME NEW s \in Requests \ {r}
         PROVE  Announces(pc[s], req[s])' /\ req'[s].drops = req[s].drops
    <3>1. Announces(pc[s], req[s]) /\ pc'[s] = pc[s] /\ req'[s] = req[s]
      BY <2>11 DEF CacheInv
    <3>2. pc[s] \in Syncs => req[s].user \in Users \ {u}
      BY <2>12, SyncFacts
    <3>3. QED
      BY <2>10, <3>1, <3>2, SameAnnounces
  <2>18. \A k \in Keys :
            \/ k \in excused'
            \/ k \in KeysIn(q.drops)
            \/ /\ cache'[k] = cache[k] /\ Truth(k)' = Truth(k)
               /\ k \in excused => k \in excused'
               /\ k \notin KeysIn(req[r].drops)
    <3>1. PICK touched \in SUBSET Emails : touched = {a.email}
      BY <2>13
    <3>2. {IdKey(u), ListKey} \cup {EmailKey(e) : e \in touched} \subseteq excused' \cup KeysIn(q.drops)
      BY <2>15, <3>1
    <3>3. cache' = cache /\ excused \subseteq excused' /\ KeysIn(req[r].drops) \subseteq KeysIn(q.drops)
      BY <1>1, <2>9, <2>13
    <3>4. /\ u \in Stored => row[u].email \in touched
          /\ (u \in Stored)' => row'[u].email \in touched
      BY <2>10, <2>12, <3>1
    <3>5. u \in Users
      BY <1>3
    <3>6. QED
      BY <2>10, <3>2, <3>3, <3>4, <3>5, WrittenKeys
  <2>19. QED
    BY <2>11, <2>16, <2>17, <2>18, CacheStep
<1>4. QED
  BY <1>2, <1>3 DEF InsertRow

LEMMA UpdateRowCache ==
  ASSUME IInv, CacheInv, NEW r \in Requests, UpdateRow(r)
  PROVE  CacheInv'
<1>1. /\ req[r] \in Request /\ Knows("updateRow", req[r]) /\ Picture("updateRow", req[r])
      /\ used \subseteq Users /\ pc[r] = "updateRow" /\ pc[r] \notin Syncs \cup {"drop"}
      /\ UNCHANGED <<roles, cache>>
  BY RequestFacts DEF UpdateRow, At, Syncs
<1>2. CASE End(r) /\ UNCHANGED <<row, excused>>
  BY <1>1, <1>2, QuietEnd
<1>3. CASE LET v == req[r].user
               x == [req[r] EXCEPT !.ent = Entity(req[r]), !.drops = Drops(req[r], v)] IN
           /\ row' = [row EXCEPT ![v] = [email |-> x.ent.email, pass |-> x.ent.pass]]
           /\ Writing(r, v, "syncRead", x)
           /\ excused' = excused \cup Unannounced(req[r], v)
  <2>1. /\ req[r].op \in Loads \ {"deleteUser"} /\ req[r].op \in Writes /\ Asks(req[r])
        /\ req[r].ent # None /\ req[r].user \in used /\ req[r].op \notin Creations
    BY <1>1 DEF Knows, Asks, Syncs, Loads
  <2>2. PICK u \in Users : u = req[r].user
    BY <1>1, <2>1
  <2>3. PICK a \in Account : a = Entity(req[r])
    BY <1>1, <2>1, <2>2, SaveType DEF Loads
  <2>4. PICK d \in Seq(Keys) : d = Drops(req[r], u)
    BY <1>1, <2>1, <2>2, SaveType DEF Loads
  <2>5. PICK q \in Request : q = [req[r] EXCEPT !.ent = a, !.drops = d]
    <3>1. [req[r] EXCEPT !.ent = a, !.drops = d] \in Request
      BY <1>1 DEF Request
    <3>2. QED
      BY <3>1
  <2>6. /\ q.user = u /\ q.ent = a /\ q.op = req[r].op /\ q.email = req[r].email
        /\ q.drops = d /\ q.stale = req[r].stale
    BY <1>1, <2>1, <2>2, <2>5 DEF Request
  <2>7. /\ row' = [row EXCEPT ![u] = [email |-> a.email, pass |-> a.pass]]
        /\ Writing(r, u, "syncRead", q) /\ excused' = excused \cup Unannounced(req[r], u)
    BY <1>3, <2>2, <2>3, <2>4, <2>5, <2>6
  <2>8. /\ row'[u] # None /\ row'[u].email = a.email
        /\ \A v \in Users \ {u} : row'[v] = row[v] /\ roles'[v] = roles[v]
    BY <1>1, <2>7, RowType DEF IInv, TypeOK
  <2>9. /\ pc'[r] = "syncRead" /\ req'[r] = q
        /\ \A s \in Requests \ {r} : Announces(pc[s], req[s])' /\ req'[s].drops = req[s].drops
    <3>1. "syncRead" \in Steps
      BY DEF Steps
    <3>2. QED
      BY <2>7, <2>8, <3>1, OthersAfterWrite
  <2>10. KeysIn(req[r].drops) = {} /\ a.email \in Emails /\ req[r].ent.email \in Emails
         /\ u \in Users
    BY <1>1, <2>1, NothingYet DEF Account, Request
  <2>11. /\ req[r].op # "updateUser" => a.email = req[r].ent.email
         /\ req[r].op = "updateUser" => req[r].email \in {None, a.email}
         /\ req[r].op = "changePassword" => a.roles = req[r].ent.roles
    BY <1>1, <2>1, <2>3, SavedEmail
  <2>12. /\ req[r].op = "changePassword" => KeysIn(d) = {}
         /\ req[r].op # "changePassword" =>
              KeysIn(d) = {IdKey(u), ListKey, EmailKey(req[r].ent.email), EmailKey(a.email)}
    BY <1>1, <2>1, <2>2, <2>3, <2>4, DropsKeys DEF Loads, Writes, RoleChanges, Creations
  <2>13. ~req[r].stale =>
            /\ u \in Stored /\ row[u].email = req[r].ent.email
            /\ roles[u] = req[r].ent.roles
    <3>1. SUFFICES ASSUME ~req[r].stale
                   PROVE  /\ u \in Stored /\ row[u].email = req[r].ent.email
                          /\ roles[u] = req[r].ent.roles
      OBVIOUS
    <3>2. req[r].ent = StoredAccount(u)
      BY <1>1, <2>1, <2>2, <3>1 DEF Picture
    <3>3. u \in Stored
      BY <2>1, <3>2 DEF StoredAccount
    <3>4. QED
      BY <3>2, <3>3, StoredRow
  <2>14. Announces(pc[r], req[r])'
    <3>1. (u \in Stored)' /\ row'[u].email = q.ent.email
      BY <2>6, <2>8, <2>10 DEF Stored
    <3>2. q.op = "updateUser" => q.email \in {None, q.ent.email}
      BY <2>6, <2>11
    <3>3. q.op # "changePassword" => {IdKey(u), EmailKey(q.ent.email), ListKey} \subseteq KeysIn(q.drops)
      BY <2>6, <2>12
    <3>4. q.op = "changePassword" /\ ~q.stale => roles'[u] = q.ent.roles
      BY <1>1, <2>6, <2>11, <2>13
    <3>5. q.op \notin Creations
      BY <2>1, <2>6
    <3>6. QED
      BY <2>6, <2>9, <3>1, <3>2, <3>3, <3>4, <3>5 DEF Announces, Syncs
  <2>15. \A k \in Keys :
            \/ k \in excused'
            \/ k \in KeysIn(q.drops)
            \/ /\ cache'[k] = cache[k] /\ Truth(k)' = Truth(k)
               /\ k \in excused => k \in excused'
               /\ k \notin KeysIn(req[r].drops)
    <3>1. cache' = cache /\ excused \subseteq excused' /\ KeysIn(req[r].drops) \subseteq KeysIn(q.drops)
      BY <1>1, <2>7, <2>10
    <3>2. CASE req[r].stale
      <4>1. PICK touched \in SUBSET Emails : touched = Emails
        OBVIOUS
      <4>2. {IdKey(u), ListKey} \cup {EmailKey(e) : e \in Emails}
              \subseteq Unannounced(req[r], u) \cup KeysIn(q.drops)
        BY <2>4, <2>6, <3>2, StaleKeys
      <4>3. {IdKey(u), ListKey} \cup {EmailKey(e) : e \in touched} \subseteq excused' \cup KeysIn(q.drops)
        BY <2>7, <4>1, <4>2
      <4>4. /\ u \in Stored => row[u].email \in touched
            /\ (u \in Stored)' => row'[u].email \in touched
        BY <2>8, <2>10, <4>1, StoredRow
      <4>5. QED
        BY <2>8, <3>1, <4>3, <4>4, WrittenKeys
    <3>3. CASE ~req[r].stale /\ req[r].op # "changePassword"
      <4>1. PICK touched \in SUBSET Emails : touched = {req[r].ent.email, a.email}
        BY <2>10
      <4>2. {IdKey(u), ListKey} \cup {EmailKey(e) : e \in touched} \subseteq excused' \cup KeysIn(q.drops)
        BY <2>6, <2>12, <3>3, <4>1
      <4>3. /\ u \in Stored => row[u].email \in touched
            /\ (u \in Stored)' => row'[u].email \in touched
        BY <2>8, <2>13, <3>3, <4>1
      <4>4. QED
        BY <2>8, <3>1, <4>2, <4>3, WrittenKeys
    <3>4. CASE ~req[r].stale /\ req[r].op = "changePassword"
      <4>1. ASSUME NEW v \in Users
            PROVE  /\ v \in Stored <=> (v \in Stored)'
                   /\ roles'[v] = roles[v]
                   /\ v \in Stored => row'[v].email = row[v].email
        <5>1. CASE v = u
          BY <1>1, <2>8, <2>11, <2>13, <3>4, <5>1 DEF Stored
        <5>2. CASE v # u
          BY <1>1, <2>8, <5>2 DEF Stored
        <5>3. QED
          BY <5>1, <5>2
      <4>2. \A k \in Keys : Truth(k)' = Truth(k)
        BY <4>1, SameAnswers
      <4>3. QED
        BY <2>10, <3>1, <4>2
    <3>5. QED
      BY <3>2, <3>3, <3>4
  <2>16. QED
    BY <2>9, <2>14, <2>15, CacheStep
<1>4. QED
  BY <1>2, <1>3 DEF UpdateRow

LEMMA DeleteRowCache ==
  ASSUME IInv, CacheInv, NEW r \in Requests, DeleteRow(r)
  PROVE  CacheInv'
<1>1. /\ req[r] \in Request /\ Knows("deleteRow", req[r]) /\ Picture("deleteRow", req[r])
      /\ used \subseteq Users /\ pc[r] = "deleteRow" /\ pc[r] \notin Syncs \cup {"drop"}
      /\ UNCHANGED cache
  BY RequestFacts DEF DeleteRow, At, Syncs
<1>2. CASE End(r) /\ UNCHANGED <<row, roles, excused>>
  BY <1>1, <1>2, QuietEnd
<1>3. CASE LET v == req[r].user IN
           /\ row' = [row EXCEPT ![v] = None] /\ roles' = [roles EXCEPT ![v] = {}]
           /\ Writing(r, v, "drop", [req[r] EXCEPT !.drops = Drops(req[r], v)])
           /\ excused' = excused \cup Unannounced(req[r], v)
  <2>1. /\ req[r].op = "deleteUser" /\ req[r].op \in Writes /\ req[r].op \in Loads
        /\ Asks(req[r]) /\ req[r].ent # None /\ req[r].user \in used
    BY <1>1 DEF Knows, Asks, Syncs, Loads, Writes, Creations
  <2>2. PICK u \in Users : u = req[r].user
    BY <1>1, <2>1
  <2>3. PICK d \in Seq(Keys) : d = Drops(req[r], u)
    BY <1>1, <2>1, <2>2, SaveType
  <2>4. PICK q \in Request : q = [req[r] EXCEPT !.drops = d]
    <3>1. [req[r] EXCEPT !.drops = d] \in Request
      BY <1>1 DEF Request
    <3>2. QED
      BY <3>1
  <2>5. q.drops = d
    BY <1>1, <2>4 DEF Request
  <2>6. /\ row' = [row EXCEPT ![u] = None] /\ roles' = [roles EXCEPT ![u] = {}]
        /\ Writing(r, u, "drop", q) /\ excused' = excused \cup Unannounced(req[r], u)
    BY <1>3, <2>2, <2>3, <2>4
  <2>7. /\ row'[u] = None
        /\ \A v \in Users \ {u} : row'[v] = row[v] /\ roles'[v] = roles[v]
    BY <2>6 DEF IInv, TypeOK
  <2>8. /\ pc'[r] = "drop" /\ req'[r] = q
        /\ \A s \in Requests \ {r} : Announces(pc[s], req[s])' /\ req'[s].drops = req[s].drops
    <3>1. "drop" \in Steps
      BY DEF Steps
    <3>2. QED
      BY <2>6, <2>7, <3>1, OthersAfterWrite
  <2>9. KeysIn(req[r].drops) = {} /\ req[r].ent.email \in Emails
    BY <1>1, <2>1, NothingYet DEF Account, Request
  <2>10. KeysIn(d) = {IdKey(u), ListKey, EmailKey(req[r].ent.email)}
    BY <1>1, <2>1, <2>2, <2>3, DropsKeys
  <2>11. Announces(pc[r], req[r])'
    BY <2>8, NothingToAnnounce DEF Syncs
  <2>12. (u \notin Stored)'
    BY <2>7 DEF Stored
  <2>13. cache' = cache /\ excused \subseteq excused' /\ KeysIn(req[r].drops) \subseteq KeysIn(q.drops)
    BY <1>1, <2>6, <2>9
  <2>14. \A k \in Keys :
            \/ k \in excused'
            \/ k \in KeysIn(q.drops)
            \/ /\ cache'[k] = cache[k] /\ Truth(k)' = Truth(k)
               /\ k \in excused => k \in excused'
               /\ k \notin KeysIn(req[r].drops)
    <3>1. CASE req[r].stale
      <4>1. PICK touched \in SUBSET Emails : touched = Emails
        OBVIOUS
      <4>2. {IdKey(u), ListKey} \cup {EmailKey(e) : e \in Emails}
              \subseteq Unannounced(req[r], u) \cup KeysIn(q.drops)
        BY <2>3, <2>5, <3>1, StaleKeys
      <4>3. {IdKey(u), ListKey} \cup {EmailKey(e) : e \in touched} \subseteq excused' \cup KeysIn(q.drops)
        BY <2>6, <4>1, <4>2
      <4>4. u \in Stored => row[u].email \in touched
        BY <4>1, StoredRow
      <4>5. QED
        BY <2>7, <2>12, <2>13, <4>3, <4>4, WrittenKeys
    <3>2. CASE ~req[r].stale
      <4>1. PICK touched \in SUBSET Emails : touched = {req[r].ent.email}
        BY <2>9
      <4>2. {IdKey(u), ListKey} \cup {EmailKey(e) : e \in touched} \subseteq excused' \cup KeysIn(q.drops)
        BY <2>5, <2>10, <4>1
      <4>3. u \in Stored => row[u].email \in touched
        <5>1. req[r].ent = StoredAccount(u)
          BY <1>1, <2>1, <2>2, <3>2 DEF Picture
        <5>2. QED
          BY <4>1, <5>1, StoredRow
      <4>4. QED
        BY <2>7, <2>12, <2>13, <4>2, <4>3, WrittenKeys
    <3>3. QED
      BY <3>1, <3>2
  <2>15. QED
    BY <2>8, <2>11, <2>14, CacheStep
<1>4. QED
  BY <1>2, <1>3 DEF DeleteRow

\* What a sync that still has statements to make will delete, or has excused.
LEMMA SyncCovers ==
  ASSUME IInv, CacheInv, NEW r \in Requests, pc[r] = "syncWrite", NEW u \in Users, u = req[r].user
  PROVE  LET covered == Unannounced(req[r], u) \cup KeysIn(req[r].drops) IN
         /\ req[r].ent.email \in Emails
         /\ req[r].stale => {IdKey(u), ListKey} \cup {EmailKey(e) : e \in Emails} \subseteq covered
         /\ ~req[r].stale => /\ u \in Stored /\ row[u].email = req[r].ent.email
                             /\ {IdKey(u), ListKey, EmailKey(req[r].ent.email)} \subseteq covered
<1>1. /\ req[r] \in Request /\ Asks(req[r]) /\ req[r].op \in Writes \ {"deleteUser"}
      /\ req[r].ent \in Account /\ req[r].ent # None /\ "syncWrite" \in Syncs
  BY SyncFacts DEF Syncs
<1>2. Announces("syncWrite", req[r])
  BY DEF CacheInv
<1>3. req[r].ent.email \in Emails /\ None \notin Emails
  BY <1>1, AccountsAssumption DEF Account
<1>4. req[r].op \in Creations => req[r].email = req[r].ent.email
  BY <1>1, <1>2, <1>3 DEF Announces, Asks
<1>5. req[r].op \in RoleChanges \cup {"updateUser"} => Entity(req[r]).email = req[r].ent.email
  <2>1. SUFFICES ASSUME req[r].op \in RoleChanges \cup {"updateUser"}
                 PROVE  Entity(req[r]).email = req[r].ent.email
    OBVIOUS
  <2>2. req[r].op \in Loads \ {"deleteUser"}
    BY <2>1 DEF Loads, Writes, Creations, RoleChanges
  <2>3. req[r].op = "updateUser" => req[r].email \in {None, req[r].ent.email}
    BY <1>1, <1>2 DEF Announces
  <2>4. QED
    BY <1>1, <2>2, <2>3, SavedEmail
<1>6. req[r].op \in {"register", "changePassword"} \/ req[r].op = "createUser"
      \/ req[r].op \in RoleChanges \cup {"updateUser"}
  BY <1>1 DEF Writes, Creations
<1>7. /\ req[r].op \in {"register", "changePassword"} => KeysIn(Drops(req[r], u)) = {}
      /\ req[r].op \notin {"register", "changePassword"} =>
            KeysIn(Drops(req[r], u)) = {IdKey(u), ListKey, EmailKey(req[r].ent.email)}
  BY <1>1, <1>4, <1>5, <1>6, DropsKeys DEF Creations
<1>8. req[r].op \notin {"register", "changePassword"} =>
         {IdKey(u), ListKey, EmailKey(req[r].ent.email)} \subseteq KeysIn(req[r].drops)
  BY <1>1, <1>2 DEF Announces
<1>9. CASE req[r].stale
  <2>1. KeysIn(Drops(req[r], u)) \subseteq KeysIn(req[r].drops)
    BY <1>7, <1>8
  <2>2. QED
    BY <1>3, <1>9, <2>1, StaleKeys
<1>10. CASE ~req[r].stale
  <2>1. u \in Stored /\ row[u].email = req[r].ent.email /\ req[r].op # "changePassword"
    BY <1>1, <1>2, <1>10 DEF Announces
  <2>2. CASE req[r].op = "register"
    <3>1. {IdKey(u), EmailKey(req[r].email), ListKey} \subseteq Unannounced(req[r], u)
      BY <1>7, <2>2 DEF Unannounced
    <3>2. QED
      BY <1>3, <1>4, <1>10, <2>1, <2>2, <3>1 DEF Creations
  <2>3. CASE req[r].op # "register"
    BY <1>3, <1>8, <1>10, <2>1, <2>3
  <2>4. QED
    BY <2>2, <2>3
<1>11. QED
  BY <1>9, <1>10

LEMMA SyncWriteCache ==
  ASSUME IInv, CacheInv, NEW r \in Requests, SyncWrite(r)
  PROVE  CacheInv'
<1>1. /\ pc[r] = "syncWrite" /\ pc[r] \in Syncs /\ UNCHANGED <<row, cache>>
  BY DEF SyncWrite, At, Syncs
<1>2. CASE SyncFails(r)
  BY <1>1, <1>2, SyncFailsCache
<1>3. PICK u \in Users : u = req[r].user
  BY <1>1, SyncFacts
<1>4. /\ req[r] \in Request /\ req[r].rm \subseteq Roles /\ req[r].add \subseteq Roles
      /\ req[r].ent \in Account
  BY <1>1, SyncFacts DEF Request
<1>5. ASSUME NEW q \in Request, q.op = req[r].op, q.user = u, q.email = req[r].email,
             q.ent = req[r].ent, q.stale = req[r].stale, q.drops = req[r].drops,
             NEW rs, roles' = [roles EXCEPT ![u] = rs],
             Writing(r, u, NextStep(q), Rest(q)),
             excused' = excused \cup Unannounced(req[r], u)
      PROVE  CacheInv'
  <2>1. PICK step \in {"syncWrite", "drop", "idle"} : step = NextStep(q)
    BY RestDrops
  <2>2. PICK x \in Request : /\ x = Rest(q) /\ KeysIn(x.drops) = KeysIn(req[r].drops)
                             /\ step = "syncWrite" => x = q
                             /\ step = "idle" => x.drops = <<>>
    BY <1>5, <2>1, RestDrops
  <2>3. \A v \in Users \ {u} : row'[v] = row[v] /\ roles'[v] = roles[v]
    BY <1>1, <1>5 DEF IInv, TypeOK
  <2>4. /\ pc'[r] = step /\ req'[r] = x
        /\ \A s \in Requests \ {r} : Announces(pc[s], req[s])' /\ req'[s].drops = req[s].drops
    <3>1. step \in Steps /\ Writing(r, u, step, x)
      BY <1>5, <2>1, <2>2 DEF Steps
    <3>2. QED
      BY <2>3, <3>1, OthersAfterWrite
  <2>5. Announces(pc[r], req[r])'
    <3>1. CASE step = "syncWrite"
      <4>1. Announces("syncWrite", req[r])
        BY <1>1 DEF CacheInv
      <4>2. Announces("syncWrite", q)'
        BY <1>1, <1>3, <1>5, <4>1 DEF Announces, Syncs, Stored
      <4>3. QED
        BY <2>2, <2>4, <3>1, <4>2
    <3>2. CASE step # "syncWrite"
      BY <2>2, <2>4, <3>2, NothingToAnnounce DEF Syncs
    <3>3. QED
      BY <3>1, <3>2
  <2>6. \A k \in Keys :
            \/ k \in excused'
            \/ k \in KeysIn(x.drops)
            \/ /\ cache'[k] = cache[k] /\ Truth(k)' = Truth(k)
               /\ k \in excused => k \in excused'
               /\ k \notin KeysIn(req[r].drops)
    <3>1. cache' = cache /\ excused \subseteq excused' /\ KeysIn(req[r].drops) \subseteq KeysIn(x.drops)
          /\ Unannounced(req[r], u) \cup KeysIn(req[r].drops) \subseteq excused' \cup KeysIn(x.drops)
      BY <1>1, <1>5, <2>2
    <3>2. PICK touched : touched = IF req[r].stale THEN Emails ELSE {req[r].ent.email}
      OBVIOUS
    <3>3. PICK covered : covered = Unannounced(req[r], u) \cup KeysIn(req[r].drops)
      OBVIOUS
    <3>4. /\ req[r].ent.email \in Emails
          /\ req[r].stale => {IdKey(u), ListKey} \cup {EmailKey(e) : e \in Emails} \subseteq covered
          /\ ~req[r].stale => /\ u \in Stored /\ row[u].email = req[r].ent.email
                              /\ {IdKey(u), ListKey, EmailKey(req[r].ent.email)} \subseteq covered
      BY <1>1, <1>3, <3>3, SyncCovers
    <3>5. {IdKey(u), ListKey} \cup {EmailKey(e) : e \in touched} \subseteq covered
      <4>1. CASE req[r].stale
        BY <3>2, <3>4, <4>1
      <4>2. CASE ~req[r].stale
        BY <3>2, <3>4, <4>2
      <4>3. QED
        BY <4>1, <4>2
    <3>6. /\ touched \in SUBSET Emails
          /\ u \in Stored => row[u].email \in touched
      BY <3>2, <3>4, StoredRow
    <3>7. (u \in Stored)' => row'[u].email \in touched
      BY <1>1, <3>6 DEF Stored
    <3>8. {IdKey(u), ListKey} \cup {EmailKey(e) : e \in touched} \subseteq excused' \cup KeysIn(x.drops)
      BY <3>1, <3>3, <3>5
    <3>9. QED
      BY <2>3, <3>1, <3>6, <3>7, <3>8, WrittenKeys
  <2>7. QED
    BY <2>4, <2>5, <2>6, CacheStep
<1>6. ASSUME NEW o \in req[r].rm,
             LET y == [req[r] EXCEPT !.rm = @ \ {o}] IN
             /\ roles' = [roles EXCEPT ![req[r].user] = roles[req[r].user] \ {o}]
             /\ Writing(r, req[r].user, NextStep(y), Rest(y))
             /\ excused' = excused \cup Unannounced(req[r], req[r].user)
      PROVE  CacheInv'
  <2>1. PICK q \in Request : q = [req[r] EXCEPT !.rm = req[r].rm \ {o}]
    <3>1. [req[r] EXCEPT !.rm = req[r].rm \ {o}] \in Request
      BY <1>4 DEF Request
    <3>2. QED
      BY <3>1
  <2>2. /\ q.op = req[r].op /\ q.user = u /\ q.email = req[r].email /\ q.ent = req[r].ent
        /\ q.stale = req[r].stale /\ q.drops = req[r].drops
    BY <1>3, <1>4, <2>1 DEF Request
  <2>3. /\ roles' = [roles EXCEPT ![u] = roles[u] \ {o}] /\ Writing(r, u, NextStep(q), Rest(q))
        /\ excused' = excused \cup Unannounced(req[r], u)
    BY <1>3, <1>6, <2>1
  <2>4. QED
    BY <1>5, <2>2, <2>3
<1>7. ASSUME NEW o \in req[r].add,
             LET y == [req[r] EXCEPT !.add = @ \ {o}] IN
             /\ roles' = [roles EXCEPT ![req[r].user] = roles[req[r].user] \cup {o}]
             /\ Writing(r, req[r].user, NextStep(y), Rest(y))
             /\ excused' = excused \cup Unannounced(req[r], req[r].user)
      PROVE  CacheInv'
  <2>1. PICK q \in Request : q = [req[r] EXCEPT !.add = req[r].add \ {o}]
    <3>1. [req[r] EXCEPT !.add = req[r].add \ {o}] \in Request
      BY <1>4 DEF Request
    <3>2. QED
      BY <3>1
  <2>2. /\ q.op = req[r].op /\ q.user = u /\ q.email = req[r].email /\ q.ent = req[r].ent
        /\ q.stale = req[r].stale /\ q.drops = req[r].drops
    BY <1>3, <1>4, <2>1 DEF Request
  <2>3. /\ roles' = [roles EXCEPT ![u] = roles[u] \cup {o}] /\ Writing(r, u, NextStep(q), Rest(q))
        /\ excused' = excused \cup Unannounced(req[r], u)
    BY <1>3, <1>7, <2>1
  <2>4. QED
    BY <1>5, <2>2, <2>3
<1>8. QED
  BY <1>2, <1>6, <1>7 DEF SyncWrite

-----------------------------------------------------------------------------
(* The theorem *)

LEMMA InitCache ==
  ASSUME Init
  PROVE  CacheInv
<1>1. /\ \A k \in Keys : cache[k] = None
      /\ \A r \in Requests : pc[r] = "idle" /\ req[r] = NoRequest
  BY DEF Init
<1>2. CachesCoherent
  BY <1>1 DEF CachesCoherent
<1>3. \A r \in Requests : Announces(pc[r], req[r])
  BY <1>1, NoDrops, NothingToAnnounce DEF Syncs
<1>4. QED
  BY <1>2, <1>3 DEF CacheInv

LEMMA StutterCache ==
  ASSUME IInv, CacheInv, UNCHANGED vars
  PROVE  CacheInv'
<1>1. UNCHANGED <<row, roles, cache, pc, req, excused>>
  BY DEF vars
<1>2. \A k \in Keys : Truth(k)' = Truth(k)
  BY <1>1, NothingWritten
<1>3. \A r \in Requests : Announces(pc[r], req[r])'
  BY <1>1 DEF CacheInv, Announces, Stored
<1>4. CachesCoherent'
  BY <1>1, <1>2 DEF CacheInv, CachesCoherent
<1>5. QED
  BY <1>3, <1>4 DEF CacheInv

LEMMA StepCache ==
  ASSUME IInv, CacheInv, [Next]_vars
  PROVE  CacheInv'
<1>1. ASSUME NEW r \in Requests,
             \/ Begin(r) \/ Lookup(r) \/ FindRow(r) \/ FindAll(r) \/ FindRoles(r)
             \/ CheckEmail(r) \/ FindRole(r) \/ InsertRow(r) \/ UpdateRow(r) \/ DeleteRow(r)
             \/ SyncRead(r) \/ SyncWrite(r) \/ Drop(r) \/ Store(r)
      PROVE  CacheInv'
  BY <1>1, BeginCache, LookupCache, FindRowCache, FindAllCache, FindRolesCache, CheckEmailCache,
     FindRoleCache, InsertRowCache, UpdateRowCache, DeleteRowCache, SyncReadCache, SyncWriteCache,
     DropCache, StoreCache
<1>2. CASE \E k \in Keys : Expire(k)
  BY <1>2, ExpireCache
<1>3. CASE UNCHANGED vars
  BY <1>3, StutterCache
<1>4. QED
  BY <1>1, <1>2, <1>3 DEF Next

\* A cached account, address or list is what the database would answer, unless
\* a request is about to delete it or one of the holes was met that
\* CachesCoherent names: invalidateUserCaches in every write but Register.
THEOREM CachesAreCoherent == Spec => []CachesCoherent
<1>1. Init => CacheInv
  BY InitCache
<1>2. IInv /\ CacheInv /\ [Next]_vars => CacheInv'
  BY StepCache
<1>3. CacheInv => CachesCoherent
  BY DEF CacheInv
<1>4. QED
  BY <1>1, <1>2, <1>3, InvariantIInv, PTL DEF Spec
=============================================================================
