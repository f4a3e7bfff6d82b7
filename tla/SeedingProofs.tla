--------------------------- MODULE SeedingProofs ---------------------------
(***************************************************************************)
(* Proofs about Seeding for every number of servers, roles, permissions,   *)
(* faults and starts: a server that serves does so over the seeded roles,  *)
(* and seeding never takes a role from a user.  Whoever seeds a role owns  *)
(* its row until the end of the transaction, and what the others see of a  *)
(* row changes only by a commit, which leaves the desired permissions.     *)
(***************************************************************************)
EXTENDS Seeding, TLAPS, WellFoundedInduction

-----------------------------------------------------------------------------
(* Rows and constants *)

LEMMA ConstantFacts ==
  /\ Len(Order) \in Nat \ {0}
  /\ \A i \in 1..Len(Order) : Order[i] \in DesiredNames /\ Desired[Order[i]] \subseteq Permissions
  /\ DesiredNames \subseteq Names /\ Obsolete \subseteq Names
  /\ \A n \in Names : n \in DesiredNames <=> n \notin Obsolete
<1>1. Order \in Seq(DesiredNames) /\ Order # <<>>
  BY SeedingAssumption
<1>2. Len(Order) \in Nat \ {0}
  BY <1>1
<1>3. \A i \in 1..Len(Order) : Order[i] \in DesiredNames
  BY <1>1, <1>2
<1>4. \A i \in 1..Len(Order) : Desired[Order[i]] \subseteq Permissions
  BY <1>3, SeedingAssumption
<1>5. QED
  BY <1>2, <1>3, <1>4, SeedingAssumption DEF Names

\* A missing row is told from a row by its fields.
LEMMA GoneIsNoRow == Gone \notin Row
<1>1. SUFFICES ASSUME Gone \in Row PROVE FALSE
  OBVIOUS
<1>2. DOMAIN Gone = {"id", "perms", "users"}
  BY <1>1 DEF Row
<1>3. DOMAIN Gone = {"id", "perms", "users", "gone"}
  BY DEF Gone
<1>4. "gone" \notin {"id", "perms", "users"}
  OBVIOUS
<1>5. QED
  BY <1>2, <1>3, <1>4

\* The row with other permissions.
LEMMA Replaced ==
  ASSUME NEW x \in Row, NEW ps \in SUBSET Permissions
  PROVE  LET y == [x EXCEPT !.perms = ps] IN
         y \in Row /\ y # Gone /\ y.id = x.id /\ y.users = x.users /\ y.perms = ps
  BY GoneIsNoRow DEF Row

\* The name a server works on.
LEMMA NameType ==
  ASSUME TypeOK, NEW s \in Servers
  PROVE  /\ at[s] \in Nat /\ 1 <= at[s] /\ at[s] <= Len(Order) /\ Len(Order) \in Nat
         /\ Name(s) = Order[at[s]]
         /\ Name(s) \in DesiredNames /\ Name(s) \in Names /\ Name(s) \notin Obsolete
         /\ Desired[Name(s)] \subseteq Permissions
<1>1. at[s] \in 1..Len(Order)
  BY DEF TypeOK
<1>2. QED
  BY <1>1, ConstantFacts DEF Name

\* Two versions of a row that differ in their users at most.
Same(x, y) == (x = Gone <=> y = Gone) /\ (x # Gone => x.id = y.id /\ x.perms = y.perms)

-----------------------------------------------------------------------------
(* The database *)

\* A write changes nothing that others see, and nobody else's rows.
LEMMA WriteFacts ==
  ASSUME TypeOK, \A n \in Names : RowInv(n), NEW s \in Servers, NEW rows,
         DOMAIN rows \subseteq Names, \A n \in DOMAIN rows : Free(s, n) /\ rows[n] \in Row \cup {Gone},
         Write(s, rows)
  PROVE  /\ role' \in [Names -> Row \cup {Gone}] /\ before' \in [Names -> Row \cup {Gone}]
         /\ owner' \in [Names -> Servers \cup {None}]
         /\ \A n \in Names : Committed(n)' = Committed(n)
         /\ \A n \in DOMAIN rows : owner'[n] = s /\ role'[n] = rows[n] /\ before'[n] = Committed(n)
         /\ \A n \in Names \ DOMAIN rows :
               owner'[n] = owner[n] /\ role'[n] = role[n] /\ before'[n] = before[n]
<1> USE DEF TypeOK, RowInv, Free, Write
<1>1. role' \in [Names -> Row \cup {Gone}] /\ before' \in [Names -> Row \cup {Gone}]
      /\ owner' \in [Names -> Servers \cup {None}]
  OBVIOUS
<1>2. \A n \in DOMAIN rows : owner'[n] = s /\ role'[n] = rows[n] /\ before'[n] = Committed(n)
  BY SeedingAssumption DEF Committed
<1>3. \A n \in Names \ DOMAIN rows :
         owner'[n] = owner[n] /\ role'[n] = role[n] /\ before'[n] = before[n]
  OBVIOUS
<1>4. \A n \in Names : Committed(n)' = Committed(n)
  BY <1>2, <1>3, SeedingAssumption DEF Committed
<1>5. QED
  BY <1>1, <1>2, <1>3, <1>4

\* The rows after a write of a server at work that deletes obsolete roles or
\* keeps the id and the users of the one it writes.
LEMMA WriteRows ==
  ASSUME TypeOK, \A n \in Names : RowInv(n), NEW s \in Servers, NEW rows,
         DOMAIN rows \subseteq Names, \A n \in DOMAIN rows : Free(s, n) /\ rows[n] \in Row \cup {Gone},
         Write(s, rows), \A t \in Servers \ {s} : pc'[t] = pc[t], pc'[s] \in Working,
         \A n \in DOMAIN rows \cap Obsolete : rows[n] = Gone,
         \A n \in DOMAIN rows \cap DesiredNames : role[n] # Gone =>
            rows[n] # Gone /\ rows[n].id = role[n].id /\ rows[n].users = role[n].users
  PROVE  \A n \in Names : RowInv(n)'
<1>1. ASSUME NEW n \in DOMAIN rows PROVE RowInv(n)'
  <2>1. owner'[n] = s /\ role'[n] = rows[n] /\ before'[n] = Committed(n) /\ n \in Names
    BY <1>1, WriteFacts
  <2>2. owner[n] \in {None, s} /\ RowInv(n)
    BY <1>1 DEF Free
  <2>3. n \in DesiredNames /\ Committed(n) # Gone =>
           role[n] # Gone /\ role[n].id = Committed(n).id /\ role[n].users = Committed(n).users
    BY <2>2 DEF RowInv, Committed
  <2>4. QED
    BY <1>1, <2>1, <2>3, SeedingAssumption DEF RowInv
<1>2. ASSUME NEW n \in Names \ DOMAIN rows PROVE RowInv(n)'
  <2>1. owner'[n] = owner[n] /\ role'[n] = role[n] /\ before'[n] = before[n] /\ RowInv(n)
    BY <1>2, WriteFacts
  <2>2. owner[n] \in Servers \cup {None}
    BY DEF TypeOK
  <2>3. QED
    BY <2>1, <2>2 DEF RowInv
<1>3. QED
  BY <1>1, <1>2

\* The others after a step: their rows are as they were, and what is committed
\* is as it was, or seeded, or gone if obsolete.
Undisturbed(t) ==
    /\ at'[t] = at[t] /\ ent'[t] = ent[t] /\ todo'[t] = todo[t] /\ doomed'[t] = doomed[t]
    /\ \/ pc'[t] = pc[t]
       \/ pc[t] = "clearing" /\ pc'[t] = "clear"
       \/ pc[t] = "clearing" /\ pc'[t] = "upsert" /\ Seeded(Name(t), Committed(Name(t))')
    /\ \A n \in Names :
          /\ owner'[n] = t <=> owner[n] = t
          /\ owner[n] = t => Same(role[n], role'[n])
          /\ \/ Same(Committed(n), Committed(n)')
             \/ n \in DesiredNames /\ Seeded(n, Committed(n)')
             \/ n \in Obsolete /\ Committed(n)' = Gone

LEMMA OthersStep ==
  ASSUME TypeOK, NEW t \in Servers, SeederInv(t), Undisturbed(t)
  PROVE  SeederInv(t)'
<1>1. /\ at'[t] = at[t] /\ Name(t)' = Name(t) /\ Name(t) \in DesiredNames
      /\ Name(t) \in Names /\ Name(t) \notin Obsolete
      /\ todo'[t] = todo[t] /\ ent'[t] = ent[t] /\ doomed'[t] = doomed[t]
  BY NameType DEF Undisturbed, Name
<1>2. \A m \in Obsolete : Committed(m) = Gone => Committed(m)' = Gone
  BY ConstantFacts DEF Undisturbed, Same
<1>3. pc[t] \in Working <=> pc'[t] \in Working
  BY DEF Undisturbed, Working
<1>4. ASSUME pc[t] \in Working
      PROVE  WorkInv(t)'
  <2>1. WorkInv(t)
    BY <1>4 DEF SeederInv
  <2>2. \A m \in Obsolete : Seen(t, m)' = Gone
    BY <1>2, <2>1, ConstantFacts DEF WorkInv, Seen, Undisturbed, Same
  <2>3. \A i \in 1..Len(Order) : Behind(t, i)' => Behind(t, i)
    BY <1>1 DEF Behind, Undisturbed
  <2>4. \A i \in 1..Len(Order) : Ahead(t, i)' => Ahead(t, i)
    BY <1>1 DEF Ahead, Undisturbed
  <2>5. \A i \in 1..Len(Order) :
           /\ Behind(t, i)' => owner'[Order[i]] = t /\ Seeded(Order[i], role'[Order[i]])
           /\ Ahead(t, i)' => owner'[Order[i]] # t
    BY <2>1, <2>3, <2>4, ConstantFacts DEF WorkInv, Undisturbed, Same, Seeded
  <2>6. pc'[t] \in {"clear", "clearing", "upsert"} => todo'[t] = Desired[Name(t)']
    BY <1>1, <2>1 DEF WorkInv, Undisturbed
  <2>7. pc'[t] \in {"clear", "clearing"} =>
           \/ Committed(Name(t))' = Gone \/ Committed(Name(t))'.id = ent'[t]
           \/ Committed(Name(t))'.perms = Desired[Name(t)']
    BY <1>1, <2>1 DEF WorkInv, Undisturbed, Same, Seeded
  <2>8. pc'[t] = "upsert" =>
           IF owner'[Name(t)] = t THEN role'[Name(t)] # Gone /\ role'[Name(t)].perms = {}
           ELSE Committed(Name(t))' = Gone \/ Committed(Name(t))'.perms \in {{}, Desired[Name(t)]}
    <3>1. CASE pc'[t] = pc[t]
      BY <1>1, <2>1, <3>1 DEF WorkInv, Undisturbed, Same, Seeded
    <3>2. CASE pc[t] = "clearing"
      <4>1. owner[Name(t)] # t
        BY <1>1, <2>1, <3>2, NameType DEF WorkInv, Ahead
      <4>2. QED
        BY <1>1, <3>2, <4>1 DEF Undisturbed, Seeded
    <3>3. QED
      BY <3>1, <3>2 DEF Undisturbed
  <2>9. pc'[t] = "add" => owner'[Name(t)] = t /\ role'[Name(t)] # Gone
                          /\ todo'[t] \cup role'[Name(t)].perms = Desired[Name(t)]
    BY <1>1, <2>1 DEF WorkInv, Undisturbed, Same
  <2>10. pc'[t] = "commit" => at'[t] = Len(Order)
    BY <1>1, <2>1 DEF WorkInv, Undisturbed
  <2>11. QED
    BY <1>1, <2>2, <2>5, <2>6, <2>7, <2>8, <2>9, <2>10 DEF WorkInv
<1>5. QED
  BY <1>1, <1>2, <1>3, <1>4 DEF SeederInv, Undisturbed

-----------------------------------------------------------------------------
(* The steps of a seeder *)

\* What they have in common: others are undisturbed and nothing is committed.
LEMMA SeederStep ==
  ASSUME IInv, NEW s \in Servers, TypeOK', \A n \in Names : RowInv(n)', SeederInv(s)',
         \A t \in Servers \ {s} :
            /\ pc'[t] = pc[t] /\ at'[t] = at[t] /\ ent'[t] = ent[t]
            /\ todo'[t] = todo[t] /\ doomed'[t] = doomed[t]
            /\ \A n \in Names : /\ owner'[n] = t <=> owner[n] = t
                                /\ owner[n] = t => role'[n] = role[n],
         \A n \in Names : Committed(n)' = Committed(n),
         pc'[s] # "serving"
  PROVE  IInv' /\ KeepsUsers
<1>1. ASSUME NEW t \in Servers \ {s} PROVE SeederInv(t)'
  <2>1. \A n \in Names : Same(Committed(n), Committed(n)')
    BY DEF Same
  <2>2. \A n \in Names : owner[n] = t => Same(role[n], role'[n])
    BY DEF Same
  <2>3. Undisturbed(t)
    BY <2>1, <2>2 DEF Undisturbed
  <2>4. QED
    BY <2>3, OthersStep DEF IInv
<1>2. ServesSeededRoles'
  BY ConstantFacts DEF IInv, ServesSeededRoles, SeededRoles
<1>3. KeepsUsers
  BY ConstantFacts DEF KeepsUsers
<1>4. QED
  BY <1>1, <1>2, <1>3 DEF IInv

\* A step that writes nothing.
LEMMA QuietStep ==
  ASSUME IInv, NEW s \in Servers, TypeOK', SeederInv(s)',
         UNCHANGED <<role, owner, before>>,
         \A t \in Servers \ {s} :
            /\ pc'[t] = pc[t] /\ at'[t] = at[t] /\ ent'[t] = ent[t]
            /\ todo'[t] = todo[t] /\ doomed'[t] = doomed[t],
         pc[s] \in Working => pc'[s] \in Working,
         pc'[s] # "serving"
  PROVE  IInv' /\ KeepsUsers
<1>1. \A n \in Names : Committed(n)' = Committed(n)
  BY DEF Committed
<1>2. \A n \in Names : RowInv(n)'
  <2>1. \A n \in Names : RowInv(n) /\ owner[n] \in Servers \cup {None}
    BY DEF IInv, TypeOK
  <2>2. QED
    BY <2>1 DEF RowInv
<1>3. QED
  BY <1>1, <1>2, SeederStep

\* A server that is not at work owns no row.
LEMMA OwnsNothing ==
  ASSUME IInv, NEW s \in Servers, pc[s] \notin Working, NEW n \in Names
  PROVE  owner[n] # s /\ Seen(s, n) = Committed(n)
  BY SeedingAssumption DEF IInv, RowInv, Seen

LEMMA FindAllStep ==
  ASSUME IInv, NEW s \in Servers, FindAll(s)
  PROVE  IInv' /\ KeepsUsers
<1> USE DEF FindAll, Goto
<1>1. pc[s] = "findAll" /\ pc[s] \notin Working
  BY DEF Working
<1>2. TypeOK'
  BY ConstantFacts DEF IInv, TypeOK, Steps
<1>3. \A n \in Names : Committed(n)' = Committed(n) /\ owner'[n] # s /\ Seen(s, n)' = Committed(n)
  BY <1>1, OwnsNothing DEF Committed, Seen
<1>4. \A n \in Obsolete \ doomed'[s] : Committed(n)' = Gone
  BY <1>1, <1>3, OwnsNothing, ConstantFacts DEF IInv, TypeOK
<1>5. at'[s] = 1
  BY <1>1 DEF IInv, SeederInv
<1>6. pc'[s] \in {"find", "delete"}
  BY DEF IInv, TypeOK
<1>7. pc'[s] = "find" => WorkInv(s)'
  <2>1. SUFFICES ASSUME pc'[s] = "find" PROVE WorkInv(s)'
    OBVIOUS
  <2>2. doomed'[s] = {}
    BY <2>1 DEF IInv, TypeOK
  <2>3. \A m \in Obsolete : Seen(s, m)' = Gone
    BY <1>3, <1>4, <2>2, ConstantFacts
  <2>4. \A i \in 1..Len(Order) : ~Behind(s, i)' /\ owner'[Order[i]] # s
    BY <1>3, <1>5, <2>1, ConstantFacts DEF Behind
  <2>5. QED
    BY <2>1, <2>3, <2>4 DEF WorkInv
<1>8. SeederInv(s)'
  BY <1>4, <1>5, <1>6, <1>7 DEF SeederInv, Working
<1>9. QED
  BY <1>1, <1>2, <1>6, <1>8, QuietStep DEF IInv, TypeOK

LEMMA DeleteByNamesStep ==
  ASSUME IInv, NEW s \in Servers, DeleteByNames(s)
  PROVE  IInv' /\ KeepsUsers
<1> DEFINE rows == [n \in {m \in doomed[s] : role[m] # Gone} |-> Gone]
<1>1. /\ pc[s] = "delete" /\ pc[s] \notin Working /\ at[s] = 1
      /\ \A n \in doomed[s] : Free(s, n)
      /\ Write(s, rows) /\ pc' = [pc EXCEPT ![s] = "find"]
      /\ UNCHANGED <<at, ent, todo, doomed, faults, starts>>
      /\ \A n \in Obsolete \ doomed[s] : Committed(n) = Gone
  BY DEF DeleteByNames, Goto, Working, IInv, SeederInv
<1>2. doomed[s] \subseteq Obsolete /\ TypeOK /\ \A n \in Names : RowInv(n)
  BY DEF IInv, TypeOK
<1>3. /\ DOMAIN rows \subseteq Obsolete
      /\ \A n \in DOMAIN rows : n \in doomed[s] /\ rows[n] = Gone
      /\ \A n \in doomed[s] \ DOMAIN rows : role[n] = Gone
  BY <1>2
<1> HIDE DEF rows
<1>4. \A n \in DOMAIN rows : Free(s, n) /\ rows[n] \in Row \cup {Gone} /\ n \in Names
  BY <1>1, <1>3, ConstantFacts
<1>5. /\ role' \in [Names -> Row \cup {Gone}] /\ before' \in [Names -> Row \cup {Gone}]
      /\ owner' \in [Names -> Servers \cup {None}]
      /\ \A n \in Names : Committed(n)' = Committed(n)
      /\ \A n \in DOMAIN rows : owner'[n] = s /\ role'[n] = rows[n] /\ before'[n] = Committed(n)
      /\ \A n \in Names \ DOMAIN rows :
            owner'[n] = owner[n] /\ role'[n] = role[n] /\ before'[n] = before[n]
  <2>1. DOMAIN rows \subseteq Names
    BY <1>4
  <2>2. QED
    BY <1>1, <1>2, <1>4, <2>1, WriteFacts
<1>6. TypeOK'
  BY <1>1, <1>2, <1>5 DEF TypeOK, Steps
<1>7. pc'[s] = "find" /\ \A t \in Servers \ {s} : pc'[t] = pc[t]
  BY <1>1, <1>2 DEF TypeOK
<1>8. \A n \in Names : RowInv(n)'
  <2>1. DOMAIN rows \subseteq Names /\ DOMAIN rows \cap DesiredNames = {}
    BY <1>3, <1>4, SeedingAssumption
  <2>2. QED
    BY <1>1, <1>2, <1>3, <1>4, <1>7, <2>1, WriteRows DEF Working
<1>9. \A n \in Names : owner[n] # s
  BY <1>1, OwnsNothing
<1>10. \A m \in Obsolete : Seen(s, m)' = Gone
  <2>1. ASSUME NEW m \in Obsolete PROVE Seen(s, m)' = Gone
    <3>1. m \in Names
      BY ConstantFacts
    <3>2. CASE m \in DOMAIN rows
      BY <1>3, <1>5, <3>2 DEF Seen
    <3>3. CASE m \in doomed[s] \ DOMAIN rows
      <4>1. owner[m] = None /\ role[m] = Gone
        BY <1>1, <1>3, <1>9, <3>1, <3>3 DEF Free
      <4>2. Committed(m) = Gone
        BY <4>1 DEF Committed
      <4>3. QED
        BY <1>5, <1>9, <3>1, <3>3, <4>2 DEF Seen
    <3>4. CASE m \notin doomed[s]
      BY <1>1, <1>3, <1>5, <1>9, <3>1, <3>4 DEF Seen
    <3>5. QED
      BY <3>2, <3>3, <3>4
  <2>2. QED
    BY <2>1
<1>11. \A i \in 1..Len(Order) : ~Behind(s, i)' /\ owner'[Order[i]] # s
  <2>1. TAKE i \in 1..Len(Order)
  <2>2. Order[i] \in Names \ DOMAIN rows
    BY <1>3, ConstantFacts
  <2>3. QED
    BY <1>1, <1>5, <1>7, <1>9, <2>2, ConstantFacts DEF Behind
<1>12. SeederInv(s)'
  BY <1>7, <1>10, <1>11 DEF SeederInv, WorkInv
<1>13. \A t \in Servers \ {s}, n \in Names :
          (owner'[n] = t <=> owner[n] = t) /\ (owner[n] = t => role'[n] = role[n])
  BY <1>4, <1>5, SeedingAssumption DEF Free
<1>14. \A t \in Servers \ {s} :
          /\ pc'[t] = pc[t] /\ at'[t] = at[t] /\ ent'[t] = ent[t]
          /\ todo'[t] = todo[t] /\ doomed'[t] = doomed[t]
          /\ \A n \in Names : /\ owner'[n] = t <=> owner[n] = t
                              /\ owner[n] = t => role'[n] = role[n]
  BY <1>1, <1>7, <1>13
<1>15. pc'[s] # "serving" /\ \A n \in Names : Committed(n)' = Committed(n)
  BY <1>5, <1>7
<1>16. QED
  BY <1>6, <1>8, <1>12, <1>14, <1>15, SeederStep

\* A write of the role the server works on.
LEMMA WriteOneStep ==
  ASSUME IInv, NEW s \in Servers, pc[s] \in Working, pc[s] # "commit", Free(s, Name(s)),
         NEW x \in Row, Write(s, [m \in {Name(s)} |-> x]),
         role[Name(s)] # Gone => x.id = role[Name(s)].id /\ x.users = role[Name(s)].users,
         NEW next \in {"upsert", "add"}, pc' = [pc EXCEPT ![s] = next],
         UNCHANGED <<at, ent, doomed, faults, starts>>,
         todo' \in [Servers -> SUBSET Permissions],
         \A t \in Servers \ {s} : todo'[t] = todo[t],
         next = "upsert" => x.perms = {} /\ todo'[s] = Desired[Name(s)],
         next = "add" => todo'[s] \cup x.perms = Desired[Name(s)]
  PROVE  IInv' /\ KeepsUsers
<1> DEFINE n == Name(s)
           rows == [m \in {n} |-> x]
<1>1. /\ TypeOK /\ (\A m \in Names : RowInv(m)) /\ SeederInv(s) /\ WorkInv(s)
      /\ n \in DesiredNames /\ n \in Names /\ n \notin Obsolete /\ x # Gone
      /\ n = Order[at[s]] /\ n' = n
  BY NameType, GoneIsNoRow DEF IInv, SeederInv, Name
<1>2. DOMAIN rows = {n} /\ rows[n] = x /\ Write(s, rows)
  OBVIOUS
<1> HIDE DEF rows, n
<1>3. \A m \in DOMAIN rows : Free(s, m) /\ rows[m] \in Row \cup {Gone}
  BY <1>2 DEF n
<1>4. /\ role' \in [Names -> Row \cup {Gone}] /\ before' \in [Names -> Row \cup {Gone}]
      /\ owner' \in [Names -> Servers \cup {None}]
      /\ \A m \in Names : Committed(m)' = Committed(m)
      /\ owner'[n] = s /\ role'[n] = x
      /\ \A m \in Names \ {n} : owner'[m] = owner[m] /\ role'[m] = role[m]
  <2>1. DOMAIN rows \subseteq Names
    BY <1>1, <1>2
  <2>2. /\ role' \in [Names -> Row \cup {Gone}] /\ before' \in [Names -> Row \cup {Gone}]
        /\ owner' \in [Names -> Servers \cup {None}]
        /\ \A m \in Names : Committed(m)' = Committed(m)
        /\ \A m \in DOMAIN rows : owner'[m] = s /\ role'[m] = rows[m] /\ before'[m] = Committed(m)
        /\ \A m \in Names \ DOMAIN rows :
              owner'[m] = owner[m] /\ role'[m] = role[m] /\ before'[m] = before[m]
    BY <1>1, <1>2, <1>3, <2>1, WriteFacts
  <2>3. QED
    BY <1>2, <2>2
<1>5. pc'[s] = next /\ \A t \in Servers \ {s} : pc'[t] = pc[t]
  BY <1>1 DEF TypeOK
<1>6. TypeOK'
  BY <1>1, <1>4 DEF TypeOK, Steps
<1>7. \A m \in Names : RowInv(m)'
  <2>1. DOMAIN rows \subseteq Names /\ DOMAIN rows \cap Obsolete = {}
    BY <1>1, <1>2
  <2>2. \A m \in DOMAIN rows \cap DesiredNames : role[m] # Gone =>
           rows[m] # Gone /\ rows[m].id = role[m].id /\ rows[m].users = role[m].users
    BY <1>1, <1>2 DEF n
  <2>3. QED
    BY <1>1, <1>2, <1>3, <1>5, <2>1, <2>2, WriteRows DEF Working
<1>8. \A m \in Obsolete : Seen(s, m)' = Gone
  BY <1>1, <1>4, ConstantFacts DEF WorkInv, Seen
<1>9. \A i \in 1..Len(Order) : i # at[s] => Order[i] \in Names \ {n}
  BY <1>1, ConstantFacts, SeedingAssumption, NameType
<1>10. at'[s] = at[s] /\ at[s] \in Nat /\ \A i \in 1..Len(Order) : i \in Nat
  BY <1>1, NameType
<1>11. \A i \in 1..Len(Order) :
          /\ Behind(s, i)' => i < at[s]
          /\ Ahead(s, i)' => i > at[s]
  BY <1>5, <1>10 DEF Behind, Ahead
<1>12. \A i \in 1..Len(Order) :
          /\ Behind(s, i)' => owner'[Order[i]] = s /\ Seeded(Order[i], role'[Order[i]])
          /\ Ahead(s, i)' => owner'[Order[i]] # s
  <2>1. TAKE i \in 1..Len(Order)
  <2>2. /\ i < at[s] => owner[Order[i]] = s /\ Seeded(Order[i], role[Order[i]])
        /\ i > at[s] => owner[Order[i]] # s
    BY <1>1 DEF WorkInv, Behind, Ahead
  <2>3. i # at[s] => owner'[Order[i]] = owner[Order[i]] /\ role'[Order[i]] = role[Order[i]]
    BY <1>4, <1>9
  <2>4. QED
    BY <1>10, <1>11, <2>2, <2>3
<1>13. SeederInv(s)'
  <2>1. owner'[n] = s /\ role'[n] # Gone /\ role'[n].perms = x.perms /\ n' = Name(s)' /\ n' = n
    BY <1>1, <1>4 DEF n
  <2>2. WorkInv(s)'
    BY <1>5, <1>8, <1>12, <2>1 DEF WorkInv, n
  <2>3. QED
    BY <1>5, <2>2 DEF SeederInv
<1>14. \A t \in Servers \ {s} :
          /\ pc'[t] = pc[t] /\ at'[t] = at[t] /\ ent'[t] = ent[t]
          /\ todo'[t] = todo[t] /\ doomed'[t] = doomed[t]
          /\ \A m \in Names : /\ owner'[m] = t <=> owner[m] = t
                              /\ owner[m] = t => role'[m] = role[m]
  <2>1. owner[n] \in {s, None} /\ None \notin Servers
    BY SeedingAssumption DEF Free, n
  <2>2. \A t \in Servers \ {s}, m \in Names :
           (owner'[m] = t <=> owner[m] = t) /\ (owner[m] = t => role'[m] = role[m])
    BY <1>4, <2>1
  <2>3. QED
    BY <1>5, <2>2
<1>15. QED
  BY <1>4, <1>5, <1>6, <1>7, <1>13, <1>14, SeederStep

LEMMA FindByNameStep ==
  ASSUME IInv, NEW s \in Servers, FindByName(s)
  PROVE  IInv' /\ KeepsUsers
<1> DEFINE n == Name(s)
<1>1. /\ TypeOK /\ SeederInv(s) /\ WorkInv(s) /\ pc[s] = "find"
      /\ n \in DesiredNames /\ n \in Names /\ n = Order[at[s]]
      /\ Desired[n] \subseteq Permissions /\ at[s] \in 1..Len(Order)
  BY NameType DEF IInv, SeederInv, FindByName, Working
<1>2. owner[n] # s /\ Seen(s, n) = Committed(n)
  BY <1>1 DEF WorkInv, Ahead, Seen
<1>3. pc'[s] = "clear" /\ \A t \in Servers \ {s} : pc'[t] = pc[t]
  BY <1>1 DEF FindByName, Goto, TypeOK
<1>4. /\ ent'[s] = (IF Committed(n) = Gone THEN s ELSE Committed(n).id) /\ todo'[s] = Desired[n]
      /\ \A t \in Servers \ {s} : ent'[t] = ent[t] /\ todo'[t] = todo[t]
      /\ UNCHANGED <<role, owner, before, at, doomed, faults, starts>>
  BY <1>1, <1>2 DEF FindByName, TypeOK
<1>5. TypeOK'
  <2>1. Committed(n) \in Row \cup {Gone}
    BY <1>1 DEF TypeOK, Committed
  <2>2. Committed(n) # Gone => Committed(n).id \in Ids
    BY <2>1 DEF Row
  <2>3. QED
    BY <1>1, <1>2, <2>2 DEF FindByName, Goto, TypeOK, Steps, Ids
<1>6. WorkInv(s)'
  <2>1. Name(s)' = n /\ Committed(Name(s))' = Committed(n) /\ \A m : Seen(s, m)' = Seen(s, m)
    BY <1>4 DEF Name, Committed, Seen
  <2>2. \A i \in 1..Len(Order) : (Behind(s, i)' => Behind(s, i)) /\ (Ahead(s, i)' => Ahead(s, i))
    BY <1>1, <1>3, <1>4 DEF Behind, Ahead
  <2>3. \A i \in 1..Len(Order) :
          /\ Behind(s, i)' => owner'[Order[i]] = s /\ Seeded(Order[i], role'[Order[i]])
          /\ Ahead(s, i)' => owner'[Order[i]] # s
    BY <1>1, <1>4, <2>2 DEF WorkInv
  <2>4. \A m \in Obsolete : Seen(s, m)' = Gone
    BY <1>1, <2>1 DEF WorkInv
  <2>5. Committed(n) = Gone \/ Committed(n).id = ent'[s]
    BY <1>4
  <2> HIDE DEF n
  <2>6. QED
    BY <1>3, <1>4, <2>1, <2>3, <2>4, <2>5 DEF WorkInv
<1>7. SeederInv(s)'
  BY <1>3, <1>6 DEF SeederInv
<1>8. QED
  BY <1>3, <1>4, <1>5, <1>7, QuietStep DEF Working

LEMMA RemoveAllPermissionsStep ==
  ASSUME IInv, NEW s \in Servers, RemoveAllPermissions(s)
  PROVE  IInv' /\ KeepsUsers
<1> DEFINE n == Name(s)
           seen == Seen(s, n)
           rows == seen # Gone /\ seen.id = ent[s] /\ seen.perms # {}
<1>1. /\ TypeOK /\ SeederInv(s) /\ WorkInv(s) /\ pc[s] = "clear" /\ pc[s] \in Working
      /\ n \in DesiredNames /\ n \in Names /\ n = Order[at[s]] /\ at[s] \in 1..Len(Order)
      /\ UNCHANGED <<at, ent, todo, doomed, faults, starts>>
  BY NameType DEF IInv, SeederInv, RemoveAllPermissions, Working
<1>2. owner[n] # s /\ seen = Committed(n) /\ todo[s] = Desired[n]
      /\ (Committed(n) = Gone \/ Committed(n).id = ent[s] \/ Committed(n).perms = Desired[n])
  BY <1>1 DEF WorkInv, Ahead, Seen
<1>3. CASE rows /\ Free(s, n) /\ Goto(s, "upsert") /\ Write(s, [m \in {n} |-> [role[n] EXCEPT !.perms = {}]])
  <2>1. owner[n] = None /\ role[n] = seen /\ role[n] \in Row
    BY <1>1, <1>2, <1>3 DEF Free, Committed, TypeOK
  <2> DEFINE x == [role[n] EXCEPT !.perms = {}]
  <2>2. x \in Row /\ x.id = role[n].id /\ x.users = role[n].users /\ x.perms = {}
    BY <2>1, Replaced
  <2>3. todo' \in [Servers -> SUBSET Permissions] /\ todo'[s] = Desired[n]
        /\ \A t \in Servers \ {s} : todo'[t] = todo[t]
    BY <1>1, <1>2 DEF TypeOK
  <2>4. Write(s, [m \in {n} |-> x]) /\ pc' = [pc EXCEPT ![s] = "upsert"] /\ Free(s, n)
    BY <1>3 DEF Goto
  <2> HIDE DEF x
  <2>5. QED
    BY <1>1, <2>2, <2>3, <2>4, WriteOneStep
<1>4. CASE /\ \/ rows /\ Goto(s, "clearing")
              \/ ~rows /\ Goto(s, "upsert")
           /\ UNCHANGED <<role, owner, before>>
  <2>1. pc'[s] \in {"clearing", "upsert"} /\ \A t \in Servers \ {s} : pc'[t] = pc[t]
    BY <1>1, <1>4 DEF Goto, TypeOK
  <2>2. pc'[s] = "upsert" => ~rows
    BY <1>1, <1>4 DEF Goto, TypeOK
  <2>3. TypeOK'
    BY <1>1, <1>4 DEF Goto, TypeOK, Steps
  <2>4. WorkInv(s)'
    <3>1. Name(s)' = n /\ Committed(Name(s))' = Committed(n) /\ \A m : Seen(s, m)' = Seen(s, m)
      BY <1>1, <1>4 DEF Name, Committed, Seen
    <3>2. \A i \in 1..Len(Order) : (Behind(s, i)' => Behind(s, i)) /\ (Ahead(s, i)' => Ahead(s, i))
      BY <1>1, <2>1 DEF Behind, Ahead
    <3>3. \A i \in 1..Len(Order) :
            /\ Behind(s, i)' => owner'[Order[i]] = s /\ Seeded(Order[i], role'[Order[i]])
            /\ Ahead(s, i)' => owner'[Order[i]] # s
      BY <1>1, <1>4, <3>2 DEF WorkInv
    <3>4. pc'[s] = "upsert" => Committed(n) = Gone \/ Committed(n).perms \in {{}, Desired[n]}
      BY <1>2, <2>2
    <3>5. \A m \in Obsolete : Seen(s, m)' = Gone
      BY <1>1, <3>1 DEF WorkInv
    <3>6. /\ owner'[n] # s /\ todo'[s] = Desired[n] /\ ent'[s] = ent[s]
          /\ Committed(n) = Gone \/ Committed(n).id = ent[s] \/ Committed(n).perms = Desired[n]
      BY <1>1, <1>2, <1>4
    <3> HIDE DEF n
    <3>7. QED
      BY <2>1, <3>1, <3>3, <3>4, <3>5, <3>6 DEF WorkInv
  <2>5. SeederInv(s)'
    BY <2>1, <2>4 DEF SeederInv
  <2>6. QED
    BY <1>1, <1>4, <2>1, <2>3, <2>5, QuietStep DEF Working
<1>5. QED
  BY <1>3, <1>4 DEF RemoveAllPermissions

LEMMA UpsertRoleStep ==
  ASSUME IInv, NEW s \in Servers, UpsertRole(s)
  PROVE  IInv' /\ KeepsUsers
<1> DEFINE n == Name(s)
           x == IF role[n] = Gone THEN [id |-> ent[s], perms |-> {}, users |-> {}] ELSE role[n]
<1>1. /\ TypeOK /\ SeederInv(s) /\ WorkInv(s) /\ pc[s] = "upsert"
      /\ pc[s] \in Working /\ pc[s] # "commit"
      /\ n \in Names /\ Free(s, n) /\ Write(s, [m \in {n} |-> x])
      /\ pc' = [pc EXCEPT ![s] = "add"] /\ UNCHANGED <<at, ent, todo, doomed, faults, starts>>
  <2>1. Write(s, [m \in {n} |-> x])
    BY DEF UpsertRole
  <2>2. QED
    BY <2>1, NameType DEF IInv, SeederInv, UpsertRole, Working, Goto
<1>2. x \in Row /\ (role[n] # Gone => x = role[n]) /\ (role[n] = Gone => x.perms = {})
  BY <1>1 DEF TypeOK, Row
<1>3. todo[s] = Desired[n] /\ (role[n] = Gone \/ role[n].perms \in {{}, Desired[n]})
  BY <1>1 DEF WorkInv, Free, Committed
<1> HIDE DEF x
<1>4. todo[s] \cup x.perms = Desired[n]
  BY <1>2, <1>3
<1>5. todo' \in [Servers -> SUBSET Permissions] /\ todo' = todo
  BY <1>1 DEF TypeOK
<1>6. QED
  BY <1>1, <1>2, <1>4, <1>5, WriteOneStep

LEMMA AddPermissionToRoleStep ==
  ASSUME IInv, NEW s \in Servers, AddPermissionToRole(s)
  PROVE  IInv' /\ KeepsUsers
<1> DEFINE n == Name(s)
<1>1. /\ TypeOK /\ WorkInv(s) /\ pc[s] = "add" /\ pc[s] \in Working /\ pc[s] # "commit"
      /\ n \in Names /\ owner[n] = s /\ role[n] # Gone
      /\ todo[s] \cup role[n].perms = Desired[n]
      /\ UNCHANGED <<pc, at, ent, doomed, faults, starts>>
  BY NameType DEF IInv, SeederInv, WorkInv, AddPermissionToRole, Working
<1>2. PICK p \in todo[s] :
        /\ Write(s, [m \in {n} |-> [role[m] EXCEPT !.perms = @ \cup {p}]])
        /\ todo' = [todo EXCEPT ![s] = @ \ {p}]
  BY DEF AddPermissionToRole
<1> DEFINE x == [role[n] EXCEPT !.perms = role[n].perms \cup {p}]
<1>3. role[n] \in Row /\ role[n].perms \subseteq Permissions /\ p \in Permissions
  BY <1>1 DEF TypeOK, Row
<1>4. x \in Row /\ x.id = role[n].id /\ x.users = role[n].users
      /\ x.perms = role[n].perms \cup {p}
  BY <1>3, Replaced
<1>5. Write(s, [m \in {n} |-> x])
  <2>1. [m \in {n} |-> [role[m] EXCEPT !.perms = @ \cup {p}]] = [m \in {n} |-> x]
    OBVIOUS
  <2> HIDE DEF x
  <2>2. QED
    BY <1>2, <2>1
<1>6. /\ todo' \in [Servers -> SUBSET Permissions] /\ todo'[s] = todo[s] \ {p}
      /\ \A t \in Servers \ {s} : todo'[t] = todo[t]
  BY <1>1, <1>2 DEF TypeOK
<1>7. todo'[s] \cup x.perms = Desired[n]
  BY <1>1, <1>4, <1>6
<1>8. pc' = [pc EXCEPT ![s] = "add"] /\ Free(s, n)
  BY <1>1 DEF TypeOK, Free
<1> HIDE DEF x
<1>9. QED
  BY <1>1, <1>4, <1>5, <1>6, <1>7, <1>8, WriteOneStep

LEMMA NextRoleStep ==
  ASSUME IInv, NEW s \in Servers, NextRole(s)
  PROVE  IInv' /\ KeepsUsers
<1> DEFINE n == Name(s)
<1>1. /\ TypeOK /\ WorkInv(s) /\ pc[s] = "add" /\ pc[s] \in Working
      /\ n = Order[at[s]] /\ n \in Names /\ owner[n] = s /\ role[n] # Gone
      /\ role[n].perms = Desired[n] /\ at[s] \in 1..Len(Order) /\ Len(Order) \in Nat
      /\ UNCHANGED <<role, owner, before, ent, todo, doomed, faults, starts>>
  <2>1. /\ TypeOK /\ SeederInv(s) /\ pc[s] = "add" /\ todo[s] = {}
        /\ UNCHANGED <<role, owner, before, ent, todo, doomed, faults, starts>>
    BY DEF IInv, NextRole
  <2>2. WorkInv(s)
    BY <2>1 DEF SeederInv, Working
  <2>3. owner[n] = s /\ role[n] # Gone /\ todo[s] \cup role[n].perms = Desired[n]
    BY <2>1, <2>2 DEF WorkInv
  <2>4. n = Order[at[s]] /\ n \in Names /\ at[s] \in 1..Len(Order) /\ Len(Order) \in Nat
    BY <2>1, NameType
  <2> HIDE DEF n
  <2>5. QED
    BY <2>1, <2>2, <2>3, <2>4 DEF Working
<1>2. /\ \A t \in Servers \ {s} : pc'[t] = pc[t] /\ at'[t] = at[t]
      /\ \/ pc'[s] = "commit" /\ at'[s] = at[s] /\ at[s] = Len(Order)
         \/ pc'[s] = "find" /\ at'[s] = at[s] + 1 /\ at[s] < Len(Order)
      /\ at' \in [Servers -> 1..Len(Order)] /\ pc' \in [Servers -> Steps]
  <2>1. CASE at[s] = Len(Order) /\ pc' = [pc EXCEPT ![s] = "commit"] /\ at' = at
    BY <1>1, <2>1 DEF TypeOK, Steps
  <2>2. CASE at[s] # Len(Order) /\ pc' = [pc EXCEPT ![s] = "find"] /\ at' = [at EXCEPT ![s] = @ + 1]
    <3>1. at[s] + 1 \in 1..Len(Order) /\ at[s] < Len(Order)
      BY <1>1, <2>2
    <3>2. QED
      BY <1>1, <2>2, <3>1 DEF TypeOK, Steps
  <2>3. QED
    BY <2>1, <2>2 DEF NextRole, Goto
<1>3. TypeOK'
  BY <1>1, <1>2 DEF TypeOK
<1>4. \A m \in Obsolete : Seen(s, m)' = Gone
  BY <1>1 DEF WorkInv, Seen, Committed
<1>5. \A i \in 1..Len(Order) :
        /\ Behind(s, i)' => i < at[s] \/ i = at[s]
        /\ Ahead(s, i)' => i > at[s]
  BY <1>1, <1>2 DEF Behind, Ahead
<1>6. \A i \in 1..Len(Order) :
        /\ Behind(s, i)' => owner'[Order[i]] = s /\ Seeded(Order[i], role'[Order[i]])
        /\ Ahead(s, i)' => owner'[Order[i]] # s
  <2>1. TAKE i \in 1..Len(Order)
  <2>2. /\ i < at[s] => owner[Order[i]] = s /\ Seeded(Order[i], role[Order[i]])
        /\ i > at[s] => owner[Order[i]] # s
    BY <1>1 DEF WorkInv, Behind, Ahead
  <2>3. i = at[s] => owner[Order[i]] = s /\ Seeded(Order[i], role[Order[i]])
    BY <1>1 DEF Seeded
  <2>4. QED
    BY <1>1, <1>5, <2>2, <2>3
<1>7. SeederInv(s)'
  BY <1>2, <1>4, <1>6 DEF SeederInv, WorkInv
<1>8. QED
  BY <1>1, <1>2, <1>3, <1>7, QuietStep DEF Working

\* A server starts again.
LEMMA RestartStep ==
  ASSUME IInv, NEW s \in Servers, Restart(s)
  PROVE  IInv' /\ KeepsUsers
<1>1. /\ pc'[s] = "findAll" /\ at'[s] = 1 /\ UNCHANGED <<role, owner, before>>
      /\ pc[s] \notin Working
      /\ \A t \in Servers \ {s} :
            /\ pc'[t] = pc[t] /\ at'[t] = at[t] /\ ent'[t] = ent[t]
            /\ todo'[t] = todo[t] /\ doomed'[t] = doomed[t]
  BY DEF Restart, Goto, IInv, TypeOK, Working
<1>2. TypeOK'
  BY ConstantFacts, SeedingAssumption DEF Restart, Goto, IInv, TypeOK, Steps, Ids
<1>3. SeederInv(s)'
  BY <1>1 DEF SeederInv, Working
<1>4. QED
  BY <1>1, <1>2, <1>3, QuietStep

-----------------------------------------------------------------------------
(* The ends of a transaction *)

\* The others afterwards: who waited for a row of s goes on.
LEMMA EndFacts ==
  ASSUME TypeOK, NEW s \in Servers, NEW step \in Steps, NEW next \in Steps, EndWith(s, step, next)
  PROVE  /\ pc' \in [Servers -> Steps] /\ pc'[s] = step
         /\ \A t \in Servers \ {s} :
               \/ pc'[t] = pc[t]
               \/ pc[t] = "clearing" /\ pc'[t] = next /\ owner[Name(t)] = s
  BY DEF TypeOK, EndWith, Waiting, Mine, Name

\* The rows: those of s are free, as it left them or as they were.
LEMMA RowsFreed ==
  ASSUME TypeOK, NEW s \in Servers, Commit(s) \/ Rollback(s)
  PROVE  /\ role' \in [Names -> Row \cup {Gone}] /\ before' \in [Names -> Row \cup {Gone}]
         /\ owner' \in [Names -> Servers \cup {None}]
         /\ \A n \in Names : owner[n] = s =>
               /\ owner'[n] = None /\ before'[n] = role'[n] /\ Committed(n)' = role'[n]
               /\ role'[n] = IF Commit(s) THEN role[n] ELSE before[n]
         /\ \A n \in Names : owner[n] # s =>
               /\ owner'[n] = owner[n] /\ before'[n] = before[n] /\ role'[n] = role[n]
               /\ Committed(n)' = Committed(n)
<1>1. CASE Commit(s)
  <2>1. role' = role /\ \A n \in Names : owner[n] = s => owner'[n] = None /\ before'[n] = role[n]
    BY <1>1 DEF Commit, Mine, TypeOK
  <2>2. \A n \in Names : owner[n] # s => owner'[n] = owner[n] /\ before'[n] = before[n]
    BY <1>1 DEF Commit, Mine, TypeOK
  <2>3. before' \in [Names -> Row \cup {Gone}] /\ owner' \in [Names -> Servers \cup {None}]
    BY <1>1 DEF Commit, Mine, TypeOK
  <2>4. QED
    BY <1>1, <2>1, <2>2, <2>3 DEF TypeOK, Committed
<1>2. CASE Rollback(s) /\ ~Commit(s)
  <2>1. /\ before' = before
        /\ \A n \in Names : owner[n] = s => owner'[n] = None /\ role'[n] = before[n]
    BY <1>2 DEF Rollback, Mine, TypeOK
  <2>2. \A n \in Names : owner[n] # s => owner'[n] = owner[n] /\ role'[n] = role[n]
    BY <1>2 DEF Rollback, Mine, TypeOK
  <2>3. role' \in [Names -> Row \cup {Gone}] /\ owner' \in [Names -> Servers \cup {None}]
    BY <1>2 DEF Rollback, Mine, TypeOK
  <2>4. QED
    BY <1>2, <2>1, <2>2, <2>3 DEF TypeOK, Committed
<1>3. QED
  BY <1>1, <1>2

LEMMA EndRows ==
  ASSUME TypeOK, \A n \in Names : RowInv(n), NEW s \in Servers, Commit(s) \/ Rollback(s),
         NEW step \in Steps, NEW next \in Working, EndWith(s, step, next)
  PROVE  \A n \in Names : RowInv(n)'
<1>1. next \in Steps
  BY DEF Working, Steps
<1>2. ASSUME NEW n \in Names, owner[n] = s PROVE RowInv(n)'
  BY <1>2, RowsFreed DEF RowInv
<1>3. ASSUME NEW n \in Names, owner[n] # s PROVE RowInv(n)'
  <2>1. /\ owner'[n] = owner[n] /\ before'[n] = before[n] /\ role'[n] = role[n]
        /\ RowInv(n) /\ owner[n] \in Servers \cup {None}
    BY <1>3, RowsFreed DEF TypeOK
  <2>2. owner[n] # None => pc'[owner[n]] \in Working
    BY <1>1, <1>3, <2>1, EndFacts DEF RowInv
  <2>3. QED
    BY <2>1, <2>2 DEF RowInv
<1>4. QED
  BY <1>2, <1>3

LEMMA CommitsStep ==
  ASSUME IInv, NEW s \in Servers, Commits(s)
  PROVE  IInv' /\ KeepsUsers
<1>1. /\ TypeOK /\ (\A n \in Names : RowInv(n)) /\ pc[s] = "commit"
      /\ Commit(s) /\ EndWith(s, "serving", "upsert")
      /\ UNCHANGED <<at, ent, todo, doomed, faults, starts>>
      /\ "serving" \in Steps /\ "upsert" \in Steps /\ "upsert" \in Working
  BY DEF IInv, Commits, Steps, Working
<1>2. WorkInv(s)
  BY <1>1 DEF IInv, SeederInv, Working
<1>3. \A n \in DesiredNames : owner[n] = s /\ Seeded(n, role[n])
  <2>1. TAKE n \in DesiredNames
  <2>2. PICK i \in 1..Len(Order) : Order[i] = n
    BY DEF DesiredNames
  <2>3. at[s] = Len(Order) /\ Len(Order) \in Nat
    BY <1>1, <1>2, ConstantFacts DEF WorkInv
  <2>4. Behind(s, i)
    BY <1>1, <2>3 DEF Behind
  <2>5. QED
    BY <1>2, <2>2, <2>4 DEF WorkInv
<1>4. \A n \in DesiredNames : n \in Names /\ Committed(n)' = role[n] /\ Seeded(n, Committed(n)')
  BY <1>1, <1>3, RowsFreed, ConstantFacts
<1>5. \A n \in Obsolete : n \in Names /\ Committed(n)' = Gone
  BY <1>1, <1>2, RowsFreed, ConstantFacts DEF WorkInv, Seen
<1>6. ServesSeededRoles'
  BY <1>4, <1>5 DEF ServesSeededRoles, SeededRoles, Seeded
<1>7. TypeOK'
  BY <1>1, RowsFreed, EndFacts DEF TypeOK
<1>8. \A n \in Names : RowInv(n)'
  BY <1>1, EndRows
<1>9. ASSUME NEW t \in Servers \ {s} PROVE SeederInv(t)'
  <2>1. Name(t) \in DesiredNames
    BY <1>1, NameType
  <2>2. \/ pc'[t] = pc[t]
        \/ pc[t] = "clearing" /\ pc'[t] = "upsert" /\ Seeded(Name(t), Committed(Name(t))')
    <3>1. Name(t)' = Name(t) /\ at' = at
      BY <1>1 DEF Name
    <3>2. Seeded(Name(t), Committed(Name(t))')
      BY <1>4, <2>1, <3>1 DEF Committed, Name
    <3>3. QED
      BY <1>1, <3>2, EndFacts
  <2>3. \A n \in Names : n \in DesiredNames \/ n \in Obsolete
    BY DEF Names
  <2>4. \A n \in Names : (owner'[n] = t <=> owner[n] = t) /\ (owner[n] = t => role'[n] = role[n])
    BY <1>1, RowsFreed, SeedingAssumption
  <2>5. \A n \in Names : owner[n] = t => Same(role[n], role'[n])
    BY <2>4 DEF Same
  <2>6. Undisturbed(t)
    BY <1>1, <1>4, <1>5, <2>2, <2>3, <2>4, <2>5 DEF Undisturbed
  <2>7. QED
    BY <1>1, <2>6, OthersStep DEF IInv
<1>10. SeederInv(s)'
  BY <1>1, EndFacts DEF SeederInv, Working
<1>11. KeepsUsers
  <2>1. ASSUME NEW n \in DesiredNames, Committed(n) # Gone
        PROVE  /\ Committed(n)' # Gone /\ Committed(n)'.id = Committed(n).id
               /\ Committed(n)'.perms = Desired[n] /\ Committed(n)'.users = Committed(n).users
    <3>1. Committed(n) = before[n] /\ RowInv(n)
      BY <1>1, <1>3, <1>4, SeedingAssumption DEF Committed
    <3>2. role[n] # Gone /\ role[n].id = before[n].id /\ role[n].users = before[n].users
      BY <2>1, <3>1 DEF RowInv
    <3>3. Committed(n)' = role[n] /\ role[n].perms = Desired[n]
      BY <1>4 DEF Seeded
    <3>4. QED
      BY <3>1, <3>2, <3>3
  <2>2. QED
    BY <2>1 DEF KeepsUsers
<1>12. QED
  BY <1>6, <1>7, <1>8, <1>9, <1>10, <1>11 DEF IInv

\* The transaction is rolled back and the server exits.
LEMMA FailsStep ==
  ASSUME IInv, NEW s \in Servers, Fails(s),
         UNCHANGED <<at, ent, todo, doomed, starts>>, faults' \in 0..MaxFaults
  PROVE  IInv' /\ KeepsUsers
<1>1. /\ TypeOK /\ (\A n \in Names : RowInv(n))
      /\ Rollback(s) /\ EndWith(s, "exited", "clear")
      /\ "exited" \in Steps /\ "clear" \in Steps /\ "clear" \in Working
  BY DEF IInv, Fails, Steps, Working
<1>2. \A n \in Names : Committed(n)' = Committed(n)
  <2>1. TAKE n \in Names
  <2>2. CASE owner[n] = s
    <3>1. Committed(n) = before[n] /\ before' = before /\ owner'[n] = None /\ role'[n] = before[n]
      BY <1>1, <2>2, SeedingAssumption DEF Committed, Rollback, Mine, TypeOK
    <3>2. QED
      BY <3>1 DEF Committed
  <2>3. CASE owner[n] # s
    BY <1>1, <2>3, RowsFreed
  <2>4. QED
    BY <2>2, <2>3
<1>3. TypeOK'
  BY <1>1, RowsFreed, EndFacts DEF TypeOK
<1>4. \A n \in Names : RowInv(n)'
  BY <1>1, EndRows
<1>5. ASSUME NEW t \in Servers \ {s} PROVE SeederInv(t)'
  <2>1. pc'[t] = pc[t] \/ (pc[t] = "clearing" /\ pc'[t] = "clear")
    BY <1>1, EndFacts
  <2>2. \A n \in Names : (owner'[n] = t <=> owner[n] = t) /\ (owner[n] = t => role'[n] = role[n])
    BY <1>1, RowsFreed, SeedingAssumption
  <2>3. \A n \in Names : owner[n] = t => Same(role[n], role'[n])
    BY <2>2 DEF Same
  <2>4. \A n \in Names : Same(Committed(n), Committed(n)')
    BY <1>2 DEF Same
  <2>5. Undisturbed(t)
    BY <2>1, <2>2, <2>3, <2>4 DEF Undisturbed
  <2>6. QED
    BY <1>1, <2>5, OthersStep DEF IInv
<1>6. SeederInv(s)'
  BY <1>1, EndFacts DEF SeederInv, Working
<1>7. ServesSeededRoles'
  <2>1. \A t \in Servers : pc'[t] = "serving" => pc[t] = "serving"
    BY <1>1, EndFacts
  <2>2. QED
    BY <1>2, <2>1, ConstantFacts DEF IInv, ServesSeededRoles, SeededRoles
<1>8. KeepsUsers
  BY <1>2, ConstantFacts DEF KeepsUsers
<1>9. QED
  BY <1>3, <1>4, <1>5, <1>6, <1>7, <1>8 DEF IInv

\* Roles are given and taken on a server that serves.
LEMMA ChangeUsersStep ==
  ASSUME IInv, NEW n \in Names, NEW us \in SUBSET Users, ChangeUsers(n, us)
  PROVE  IInv' /\ KeepsUsers
<1>1. /\ TypeOK /\ RowInv(n) /\ role[n] # Gone /\ Committed(n) # Gone
      /\ role' = [role EXCEPT ![n].users = us] /\ before' = [before EXCEPT ![n].users = us]
      /\ UNCHANGED <<owner, pc, at, ent, todo, doomed, faults, starts>>
  BY DEF IInv, ChangeUsers
<1>2. role[n] \in Row /\ before[n] \in Row
  BY <1>1 DEF TypeOK, RowInv, Committed
<1>3. \A x \in Row : LET y == [x EXCEPT !.users = us] IN
         y \in Row /\ y # Gone /\ y.id = x.id /\ y.perms = x.perms /\ y.users = us
  BY GoneIsNoRow DEF Row
<1>4. role'[n] = [role[n] EXCEPT !.users = us] /\ before'[n] = [before[n] EXCEPT !.users = us]
      /\ \A m \in Names \ {n} : role'[m] = role[m] /\ before'[m] = before[m]
  BY <1>1 DEF TypeOK
<1>5. /\ role'[n] \in Row /\ role'[n] # Gone /\ role'[n].id = role[n].id
      /\ role'[n].perms = role[n].perms /\ role'[n].users = us
      /\ before'[n] \in Row /\ before'[n] # Gone /\ before'[n].id = before[n].id
      /\ before'[n].perms = before[n].perms /\ before'[n].users = us
  BY <1>2, <1>3, <1>4
<1>6. TypeOK'
  <2>1. role' = [m \in Names |-> IF m = n THEN role'[n] ELSE role[m]]
    BY <1>1 DEF TypeOK
  <2>2. before' = [m \in Names |-> IF m = n THEN before'[n] ELSE before[m]]
    BY <1>1 DEF TypeOK
  <2>3. role' \in [Names -> Row \cup {Gone}]
    BY <1>1, <1>5, <2>1 DEF TypeOK
  <2>4. before' \in [Names -> Row \cup {Gone}]
    BY <1>1, <1>5, <2>2 DEF TypeOK
  <2>5. QED
    BY <1>1, <2>3, <2>4 DEF TypeOK
<1>7. \A m \in Names : RowInv(m)'
  <2>1. RowInv(n)'
    BY <1>1, <1>2, <1>4, <1>5, GoneIsNoRow DEF RowInv
  <2>2. \A m \in Names \ {n} : RowInv(m)'
    BY <1>1, <1>4 DEF RowInv, IInv
  <2>3. QED
    BY <2>1, <2>2
<1>8. \A m \in Names : Same(role[m], role'[m]) /\ Same(before[m], before'[m])
  BY <1>1, <1>2, <1>4, <1>5, GoneIsNoRow DEF Same
<1>9. \A m \in Names : Same(Committed(m), Committed(m)')
  <2>1. \A m \in Names : /\ owner[m] = None => Committed(m) = role[m] /\ Committed(m)' = role'[m]
                         /\ owner[m] # None => Committed(m) = before[m] /\ Committed(m)' = before'[m]
    BY <1>1 DEF Committed
  <2>2. QED
    BY <1>8, <2>1
<1>10. ASSUME NEW t \in Servers PROVE SeederInv(t)'
  <2>1. Undisturbed(t)
    BY <1>1, <1>8, <1>9 DEF Undisturbed
  <2>2. QED
    BY <1>1, <2>1, OthersStep DEF IInv
<1>11. ServesSeededRoles'
  BY <1>1, <1>9, ConstantFacts DEF IInv, ServesSeededRoles, SeededRoles, Same
<1>12. KeepsUsers
  BY <1>1, <1>9, ConstantFacts DEF KeepsUsers, Same
<1>13. QED
  BY <1>6, <1>7, <1>10, <1>11, <1>12 DEF IInv

-----------------------------------------------------------------------------
(* The theorems *)

LEMMA InitInv == Init => IInv
<1> SUFFICES ASSUME Init PROVE IInv
  OBVIOUS
<1>1. TypeOK
  <2>1. [id : {None}, perms : SUBSET Permissions, users : SUBSET Users] \subseteq Row
    BY DEF Row, Ids
  <2>2. role \in [Names -> Row \cup {Gone}]
    BY <2>1 DEF Init
  <2>3. QED
    BY <2>2, ConstantFacts, SeedingAssumption DEF Init, TypeOK, Steps, Ids
<1>2. \A n \in Names : RowInv(n)
  BY DEF Init, RowInv
<1>3. \A s \in Servers : SeederInv(s)
  BY DEF Init, SeederInv, Working
<1>4. ServesSeededRoles
  BY DEF Init, ServesSeededRoles
<1>5. QED
  BY <1>1, <1>2, <1>3, <1>4 DEF IInv

LEMMA StepInv ==
  ASSUME IInv, [Next]_vars
  PROVE  IInv' /\ (KeepsUsers \/ UNCHANGED vars)
<1>1. CASE UNCHANGED vars
  <2>1. TypeOK' /\ ServesSeededRoles'
    BY <1>1 DEF IInv, TypeOK, ServesSeededRoles, SeededRoles, Committed, vars
  <2>2. \A n \in Names : RowInv(n)'
    BY <1>1 DEF IInv, RowInv, vars
  <2>3. \A s \in Servers : SeederInv(s)'
    <3>1. \A n \in Names : Same(role[n], role'[n]) /\ Same(Committed(n), Committed(n)')
      BY <1>1 DEF Same, Committed, vars
    <3>2. \A s \in Servers : Undisturbed(s)
      BY <1>1, <3>1 DEF Undisturbed, vars
    <3>3. QED
      BY <3>2, OthersStep DEF IInv
  <2>4. QED
    BY <1>1, <2>1, <2>2, <2>3 DEF IInv
<1>2. ASSUME NEW s \in Servers, Seed(s) PROVE IInv' /\ KeepsUsers
  <2>1. CASE ForeignKeyViolation(s)
    <3>1. faults' \in 0..MaxFaults
      BY <2>1 DEF ForeignKeyViolation, IInv, TypeOK
    <3>2. QED
      BY <2>1, <3>1, FailsStep DEF ForeignKeyViolation
  <2>2. QED
    BY <1>2, <2>1, FindAllStep, DeleteByNamesStep, FindByNameStep, RemoveAllPermissionsStep,
       UpsertRoleStep, AddPermissionToRoleStep, NextRoleStep, CommitsStep DEF Seed
<1>3. ASSUME NEW s \in Servers, Fault(s) PROVE IInv' /\ KeepsUsers
  <2>1. faults' \in 0..MaxFaults
    BY <1>3, SeedingAssumption DEF Fault, IInv, TypeOK
  <2>2. QED
    BY <1>3, <2>1, FailsStep DEF Fault
<1>4. ASSUME NEW n \in Names, NEW u \in Users, AssignRole(n, u) \/ RemoveRole(n, u)
      PROVE  IInv' /\ KeepsUsers
  <2>1. role[n] # Gone /\ role[n] \in Row \cup {Gone}
    BY <1>4 DEF AssignRole, RemoveRole, ChangeUsers, IInv, TypeOK
  <2>2. role[n].users \subseteq Users
    BY <2>1 DEF Row
  <2>3. QED
    BY <1>4, <2>2, ChangeUsersStep DEF AssignRole, RemoveRole
<1>5. QED
  BY <1>1, <1>2, <1>3, <1>4, RestartStep DEF Next

\* The invariant holds in every reachable state, for every number of servers.
THEOREM InvariantIInv == Spec => []IInv
<1>1. IInv /\ [Next]_vars => IInv'
  BY StepInv
<1>2. QED
  BY <1>1, InitInv, PTL DEF Spec

\* Type correctness: among others, the rows a seeder writes are rows.
THEOREM TypeCorrect == Spec => []TypeOK
<1>1. IInv => TypeOK
  BY DEF IInv
<1>2. QED
  BY <1>1, InvariantIInv, PTL

\* However many servers seed side by side and wherever they fail, one that serves
\* does so over exactly the desired roles with exactly their permissions.
THEOREM ServersFindTheirRoles == Spec => []ServesSeededRoles
<1>1. IInv => ServesSeededRoles
  BY DEF IInv
<1>2. QED
  BY <1>1, InvariantIInv, PTL

\* No step of any seeder takes a desired role, its id or its users away.
THEOREM UsersKeepTheirRoles == Spec => SeedingKeepsUsers
<1>1. IInv /\ [Next]_vars => [KeepsUsers]_vars
  BY StepInv
<1>2. QED
  BY <1>1, InvariantIInv, PTL DEF Spec, SeedingKeepsUsers

-----------------------------------------------------------------------------
(* Waiting *)

\* A set of numbers with a bound has a greatest one.
LEMMA Greatest ==
  ASSUME NEW b \in Nat, NEW T \in SUBSET (0..b), T # {}
  PROVE  \E x \in T : \A y \in T : y <= x
<1> DEFINE R == {ss \in Nat \X Nat : ss[1] < ss[2]}
           D == {b - x : x \in T}
<1>1. IsWellFoundedOn(R, Nat)
  BY NatLessThanWellFounded, Zenon DEF OpToRel
<1>2. D \subseteq Nat /\ D # {}
  <2>1. PICK x \in T : x \in 0..b
    OBVIOUS
  <2>2. b - x \in D
    BY <2>1
  <2>3. \A y \in T : b - y \in Nat
    OBVIOUS
  <2>4. QED
    BY <2>2, <2>3
<1>3. PICK d \in D : \A e \in D : <<e, d>> \notin R
  <2> HIDE DEF R, D
  <2>1. QED
    BY <1>1, <1>2, WFMin, Zenon
<1>4. \A e \in D : d <= e
  <2>1. TAKE e \in D
  <2>2. e \in Nat /\ d \in Nat /\ <<e, d>> \notin R
    BY <1>2, <1>3
  <2>3. ~(e < d)
    BY <2>2
  <2>4. QED
    BY <2>2, <2>3
<1>5. PICK x \in T : d = b - x
  OBVIOUS
<1>6. \A y \in T : y <= x
  <2>1. TAKE y \in T
  <2>2. b - y \in D
    OBVIOUS
  <2>3. d <= b - y
    BY <1>4, <2>2
  <2>4. QED
    BY <1>5, <2>3
<1>7. QED
  BY <1>6

\* How far a seeder is: before the roles, on the way to the row of its role, or
\* in possession of it.
Rank(s) ==
  IF pc[s] \notin Working THEN 0
  ELSE IF owner[Name(s)] = s THEN 2 * at[s] + 1 ELSE 2 * at[s]

LEMMA RankTypes ==
  ASSUME IInv, NEW s \in Servers
  PROVE  Rank(s) \in 0..(2 * Len(Order) + 1) /\ Len(Order) \in Nat
BY NameType DEF IInv, Rank

\* One waits only for who is further: whose row it wants has passed the role it
\* is at, or got there first and does not wait there.
LEMMA RanksRise ==
  ASSUME IInv, NEW s \in Servers, NEW t \in Servers, WaitsFor(s, t)
  PROVE  Rank(s) < Rank(t)
<1>1. PICK n \in Names :
        /\ owner[n] = t /\ ~Free(s, n)
        /\ \/ pc[s] = "delete" /\ n \in doomed[s]
           \/ pc[s] \in {"clearing", "upsert"} /\ n = Name(s)
  BY DEF WaitsFor
<1>2. t # s /\ pc[t] \in Working /\ WorkInv(t)
  BY <1>1, SeedingAssumption DEF Free, IInv, RowInv, SeederInv
<1>3. at[t] \in Nat /\ 1 <= at[t] /\ at[s] \in Nat /\ 1 <= at[s] /\ at[s] <= Len(Order)
  BY NameType DEF IInv
<1>4. Rank(t) \in {2 * at[t], 2 * at[t] + 1}
  BY <1>2 DEF Rank
<1>5. CASE pc[s] = "delete"
  <2>1. Rank(s) = 0
    BY <1>5 DEF Rank, Working
  <2>2. QED
    BY <1>3, <1>4, <2>1
<1>6. CASE pc[s] \in {"clearing", "upsert"} /\ n = Name(s)
  <2>1. n = Order[at[s]] /\ at[s] \in 1..Len(Order)
    BY <1>3, <1>6 DEF Name
  <2>2. Rank(s) = 2 * at[s]
    BY <1>1, <1>2, <1>6 DEF Rank, Working
  <2>3. ~Ahead(t, at[s])
    BY <1>1, <1>2, <2>1 DEF WorkInv
  <2>4. at[s] <= at[t]
    BY <1>3, <2>3 DEF Ahead
  <2>5. at[s] = at[t] => Rank(t) = 2 * at[t] + 1
    BY <1>1, <1>2, <2>1 DEF Rank, Name
  <2>6. QED
    BY <1>3, <1>4, <2>2, <2>4, <2>5
<1>7. QED
  BY <1>1, <1>5, <1>6

\* However many servers seed at once, none of them wait for one another in a
\* circle: PostgreSQL has no deadlock to break.
THEOREM SeedersNeverDeadlock == Spec => []NoWaitCycle
<1>1. ASSUME IInv PROVE NoWaitCycle
  <2>1. SUFFICES ASSUME NEW group \in SUBSET Servers, group # {}
                 PROVE  \E s \in group : \A t \in group : ~WaitsFor(s, t)
    BY DEF NoWaitCycle
  <2> DEFINE T == {Rank(s) : s \in group}
             b == 2 * Len(Order) + 1
  <2>2. T \in SUBSET (0..b) /\ T # {} /\ b \in Nat
    <3>1. \A s \in group : Rank(s) \in 0..b /\ Len(Order) \in Nat
      BY <1>1, RankTypes
    <3>2. PICK s \in group : TRUE
      BY <2>1
    <3>3. Rank(s) \in T
      OBVIOUS
    <3> HIDE DEF Rank
    <3>4. QED
      BY <3>1, <3>2, <3>3
  <2>3. PICK x \in T : \A y \in T : y <= x
    <3> HIDE DEF T, b
    <3>1. QED
      BY <2>2, Greatest
  <2>4. PICK s \in group : x = Rank(s)
    BY <2>3
  <2>5. \A t \in group : ~WaitsFor(s, t)
    <3>1. ASSUME NEW t \in group, WaitsFor(s, t) PROVE FALSE
      <4>1. Rank(s) < Rank(t)
        BY <1>1, <3>1, RanksRise
      <4>2. Rank(t) <= Rank(s)
        BY <2>3, <2>4
      <4>3. Rank(s) \in Int /\ Rank(t) \in Int
        BY <1>1, RankTypes
      <4>4. QED
        BY <4>1, <4>2, <4>3
    <3>2. QED
      BY <3>1
  <2>6. QED
    BY <2>5
<1>2. QED
  BY <1>1, InvariantIInv, PTL
=============================================================================
