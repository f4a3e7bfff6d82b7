------------------------ MODULE AccessControlProofs ------------------------
(***************************************************************************)
(* Proofs about AccessControl for every number of requests, roles and      *)
(* entries and for tokens with any number of roles: what CanAccess's many  *)
(* statements decide together, while entries come and go between them.     *)
(***************************************************************************)
EXTENDS AccessControl, TLAPS

-----------------------------------------------------------------------------
(* The statements of CanAccess *)

\* They ask about the token's subjects and no others, for the permission or for
\* "admin", and about each subject for the permission at least.
LEMMA QueriesFacts ==
  ASSUME NEW q \in Request
  PROVE  LET p == Guard(q.op).permission IN
         /\ Len(Queries(q)) \in Nat \ {0}
         /\ \A i \in 1..Len(Queries(q)) :
               /\ Queries(q)[i].subject \in Subjects(q)
               /\ Queries(q)[i].permission \in {p, "admin"}
         /\ \A s \in Subjects(q) : \E i \in 1..Len(Queries(q)) :
               Queries(q)[i].subject = s /\ Queries(q)[i].permission = p
<1> DEFINE p == Guard(q.op).permission
           subjects == <<User>> \o q.roles
           each == IF p = "admin" THEN <<p>> ELSE <<p, "admin">>
           n == Len(q.roles)
           row(i) == [subject |-> subjects[((i - 1) \div Len(each)) + 1],
                      permission |-> each[((i - 1) % Len(each)) + 1]]
<1>1. Queries(q) = [i \in 1..(Len(subjects) * Len(each)) |-> row(i)]
  BY DEF Queries
<1>2. q.roles \in Seq(Roles) /\ n \in Nat
  BY AccessControlAssumption DEF Request
<1>3. /\ Len(subjects) = n + 1
      /\ subjects[1] = User
      /\ \A k \in 1..n : subjects[k + 1] = q.roles[k]
  BY <1>2
<1>4. \A k \in 1..(n + 1) : subjects[k] \in Subjects(q)
  <2>1. TAKE k \in 1..(n + 1)
  <2>2. k = 1 \/ (k - 1 \in 1..n /\ subjects[k] = q.roles[k - 1])
    BY <1>2, <1>3
  <2>3. QED
    BY <1>2, <1>3, <2>2 DEF Subjects
<1>5. \A s \in Subjects(q) : \E k \in 1..(n + 1) : subjects[k] = s
  <2>1. TAKE s \in Subjects(q)
  <2>2. CASE s = User
    BY <1>2, <1>3, <2>2
  <2>3. CASE \E k \in 1..n : s = q.roles[k]
    <3>1. PICK k \in 1..n : s = q.roles[k]
      BY <2>3
    <3>2. k + 1 \in 1..(n + 1) /\ subjects[k + 1] = s
      BY <1>2, <1>3, <3>1
    <3>3. QED
      BY <3>2
  <2>4. QED
    BY <2>2, <2>3 DEF Subjects
<1> HIDE DEF p, subjects
<1>6. CASE p = "admin"
  <2>1. Len(each) = 1 /\ each[1] = p
    BY <1>6
  <2>2. \A i \in 1..(n + 1) : row(i) = [subject |-> subjects[i], permission |-> p]
    <3>1. TAKE i \in 1..(n + 1)
    <3>2. (i - 1) \div 1 = i - 1 /\ (i - 1) % 1 = 0
      BY <1>2
    <3>3. QED
      BY <1>2, <2>1, <3>2
  <2> HIDE DEF each, row
  <2>3. Queries(q) = [i \in 1..(n + 1) |-> row(i)]
    BY <1>1, <1>2, <1>3, <2>1
  <2>4. Len(Queries(q)) = n + 1
    BY <1>2, <2>3
  <2>5. \A i \in 1..(n + 1) : Queries(q)[i] = [subject |-> subjects[i], permission |-> p]
    BY <2>2, <2>3
  <2>6. QED
    <3>1. Len(Queries(q)) \in Nat \ {0} /\ \A i : i \in 1..Len(Queries(q)) <=> i \in 1..(n + 1)
      BY <1>2, <2>4
    <3>2. \A i \in 1..(n + 1) : Queries(q)[i].subject = subjects[i] /\ Queries(q)[i].permission = p
      <4> TAKE i \in 1..(n + 1)
      <4> HIDE DEF n
      <4>1. Queries(q)[i] = [subject |-> subjects[i], permission |-> p]
        BY <2>5
      <4>2. QED
        BY <4>1
    <3> HIDE DEF n
    <3>3. QED
      BY <1>4, <1>5, <3>1, <3>2 DEF p
<1>7. CASE p # "admin"
  <2>1. Len(each) = 2 /\ each[1] = p /\ each[2] = "admin"
    BY <1>7
  <2>2. \A i \in 1..((n + 1) * 2) :
           /\ ((i - 1) \div 2) + 1 \in 1..(n + 1)
           /\ ((i - 1) % 2) + 1 \in {1, 2}
    BY <1>2
  <2>3. \A k \in 1..(n + 1) :
           /\ 2 * k - 1 \in 1..((n + 1) * 2)
           /\ ((2 * k - 1 - 1) \div 2) + 1 = k
           /\ (2 * k - 1 - 1) % 2 = 0
    BY <1>2
  <2>4. \A i : row(i).subject = subjects[((i - 1) \div 2) + 1]
               /\ row(i).permission = each[((i - 1) % 2) + 1]
    BY <2>1
  <2> HIDE DEF each, row
  <2>5. Queries(q) = [i \in 1..((n + 1) * 2) |-> row(i)]
    BY <1>1, <1>3, <2>1
  <2>6. Len(Queries(q)) = (n + 1) * 2 /\ (n + 1) * 2 \in Nat \ {0}
    BY <1>2, <2>5
  <2>7. \A i \in 1..((n + 1) * 2) :
           /\ Queries(q)[i].subject \in Subjects(q)
           /\ Queries(q)[i].permission \in {p, "admin"}
    <3>1. TAKE i \in 1..((n + 1) * 2)
    <3>2. Queries(q)[i] = row(i)
      BY <2>5
    <3>3. /\ Queries(q)[i].subject = subjects[((i - 1) \div 2) + 1]
          /\ Queries(q)[i].permission = each[((i - 1) % 2) + 1]
      BY <2>4, <3>2
    <3>4. Queries(q)[i].subject \in Subjects(q)
      BY <1>4, <2>2, <3>3
    <3>5. Queries(q)[i].permission \in {p, "admin"}
      BY <2>1, <2>2, <3>3
    <3>6. QED
      BY <3>4, <3>5
  <2>8. \A k \in 1..(n + 1) :
           /\ Queries(q)[2 * k - 1].subject = subjects[k]
           /\ Queries(q)[2 * k - 1].permission = p
    <3>1. TAKE k \in 1..(n + 1)
    <3>2. Queries(q)[2 * k - 1] = row(2 * k - 1)
      BY <2>3, <2>5
    <3>3. /\ Queries(q)[2 * k - 1].subject = subjects[((2 * k - 1 - 1) \div 2) + 1]
          /\ Queries(q)[2 * k - 1].permission = each[((2 * k - 1 - 1) % 2) + 1]
      BY <2>4, <3>2
    <3>4. ((2 * k - 1 - 1) % 2) + 1 = 1
      BY <2>3
    <3>5. QED
      BY <2>1, <2>3, <3>3, <3>4
  <2>9. \A s \in Subjects(q) : \E i \in 1..((n + 1) * 2) :
           Queries(q)[i].subject = s /\ Queries(q)[i].permission = p
    BY <1>5, <2>3, <2>8
  <2>10. QED
    BY <2>6, <2>7, <2>9 DEF p
<1>8. QED
  BY <1>6, <1>7

\* They do not depend on how many of them were sent.
LEMMA SameQueries ==
  ASSUME NEW q \in Request, NEW k \in Nat
  PROVE  LET next == [q EXCEPT !.at = k] IN
         /\ next \in Request /\ next.at = k /\ next.op = q.op
         /\ Queries(next) = Queries(q)
         /\ \A e : Grants(e, next) <=> Grants(e, q)
<1> DEFINE next == [q EXCEPT !.at = k]
<1>1. next \in Request /\ next.at = k /\ next.op = q.op /\ next.roles = q.roles
  BY DEF Request
<1> HIDE DEF next
<1>2. Queries(next) = Queries(q)
  BY <1>1 DEF Queries
<1>3. \A e : Grants(e, next) <=> Grants(e, q)
  BY <1>1 DEF Grants, Subjects
<1>4. QED
  BY <1>1, <1>2, <1>3 DEF next

\* A statement finds an entry only if the entry grants the request.
LEMMA FoundGrants ==
  ASSUME NEW q \in Request, NEW i \in 1..Len(Queries(q)),
         HasPermission(Queries(q)[i].subject, Queries(q)[i].permission)
  PROVE  \E e \in entries : Grants(e, q)
<1>1. PICK e \in entries :
         e.subject = Queries(q)[i].subject /\ e.permission \in {Queries(q)[i].permission, "admin"}
  BY DEF HasPermission
<1>2. QED
  BY <1>1, QueriesFacts DEF Grants, Matches

\* An entry that grants the request is found by one of the statements.
LEMMA NoneFound ==
  ASSUME NEW q \in Request, NEW e, q.at = Len(Queries(q)) + 1, Missed(e, q)
  PROVE  ~Grants(e, q)
<1>1. SUFFICES ASSUME Grants(e, q) PROVE FALSE
  OBVIOUS
<1>2. PICK s \in Subjects(q) : Matches(e, s, Guard(q.op).permission)
  BY <1>1 DEF Grants
<1>3. PICK i \in 1..Len(Queries(q)) :
         Queries(q)[i].subject = s /\ Queries(q)[i].permission = Guard(q.op).permission
  BY QueriesFacts
<1>4. Len(Queries(q)) \in Nat
  BY QueriesFacts
<1>5. QED
  BY <1>2, <1>3, <1>4 DEF Missed, Matches

\* One more statement that found nothing.
LEMMA MissedNext ==
  ASSUME NEW q \in Request, q.at \in 1..Len(Queries(q)), NEW e \in entries, Missed(e, q),
         ~HasPermission(Queries(q)[q.at].subject, Queries(q)[q.at].permission)
  PROVE  Missed(e, [q EXCEPT !.at = q.at + 1])
<1>1. q.at \in Nat
  BY DEF Request
<1>2. LET next == [q EXCEPT !.at = q.at + 1] IN
      next.at = q.at + 1 /\ Queries(next) = Queries(q)
  BY <1>1, SameQueries
<1>3. \A i \in 1..q.at : i = q.at \/ i \in 1..(q.at - 1)
  BY <1>1
<1>4. QED
  BY <1>1, <1>2, <1>3 DEF Missed, HasPermission

-----------------------------------------------------------------------------
(* The steps *)

LEMMA InitInv == Init => IInv
  BY AccessControlAssumption
  DEF Init, IInv, TypeOK, GuardInv, Guarded, RunsOnlyIfGranted, StandingGrantIsHonoured, AclAnswer

\* Entries come and go: no request moves, and the history follows them.
LEMMA EntriesStep ==
  ASSUME IInv, NEW es, es \subseteq Entry, Entries(es), UNCHANGED <<pc, req, faults>>,
         drawn' \subseteq Ids, \A e \in es : e.id \in drawn',
         \A e, f \in es : e.id = f.id => e = f
  PROVE  IInv'
<1> USE DEF IInv, Entries
<1>1. TypeOK'
  BY DEF TypeOK
<1>2. \A r \in Requests : standing'[r] \subseteq standing[r] /\ standing'[r] \subseteq es
  OBVIOUS
<1>3. \A r \in Requests : granted[r] => granted'[r]
  BY DEF TypeOK
<1>4. GuardInv'
  <2>1. ASSUME NEW r \in Requests, Guarded(r)'
        PROVE  /\ req'[r].at \in 1..Len(Queries(req'[r]))
               /\ (\E e \in es : Grants(e, req'[r])) => granted'[r]
               /\ \A e \in standing'[r] : e \in es /\ Grants(e, req'[r]) /\ Missed(e, req'[r])
    <3>1. Guarded(r)
      BY <2>1 DEF Guarded
    <3>2. QED
      BY <1>2, <3>1 DEF GuardInv
  <2>2. \A e \in entries' : e.id \in drawn'
    OBVIOUS
  <2>3. QED
    BY <2>1, <2>2 DEF GuardInv
<1>5. RunsOnlyIfGranted'
  BY <1>3 DEF RunsOnlyIfGranted, AclAnswer
<1>6. StandingGrantIsHonoured'
  BY <1>2 DEF StandingGrantIsHonoured, AclAnswer
<1>7. QED
  BY <1>1, <1>4, <1>5, <1>6

\* What the invariant says of one request.
Fine(r) ==
    /\ Guarded(r) =>
          /\ req[r].at \in 1..Len(Queries(req[r]))
          /\ (\E e \in entries : Grants(e, req[r])) => granted[r]
          /\ \A e \in standing[r] : e \in entries /\ Grants(e, req[r]) /\ Missed(e, req[r])
    /\ AclAnswer(r) /\ pc[r] \in {"useCase", "served"} => granted[r]
    /\ AclAnswer(r) /\ pc[r] = "forbidden" => standing[r] = {}

LEMMA FineInv == IInv <=> /\ TypeOK /\ \A e \in entries : e.id \in drawn
                          /\ \A r \in Requests : Fine(r)
  BY DEF IInv, GuardInv, Fine, RunsOnlyIfGranted, StandingGrantIsHonoured

\* A step of request r leaves the entries and the other requests alone.
LEMMA RequestStep ==
  ASSUME IInv, TypeOK', NEW r \in Requests, UNCHANGED <<entries, drawn>>, Fine(r)',
         \A s \in Requests \ {r} : /\ pc'[s] = pc[s] /\ req'[s] = req[s]
                                   /\ standing'[s] = standing[s] /\ granted'[s] = granted[s]
  PROVE  IInv'
<1>1. \A s \in Requests \ {r} : Fine(s)'
  BY FineInv DEF Fine, Guarded, AclAnswer
<1>2. \A s \in Requests : Fine(s)'
  BY <1>1
<1>3. QED
  BY <1>2, FineInv DEF IInv, GuardInv, Fine, RunsOnlyIfGranted, StandingGrantIsHonoured

LEMMA ArriveStep ==
  ASSUME IInv, NEW r \in Requests, Arrive(r)
  PROVE  IInv'
<1> USE DEF IInv, TypeOK
<1>1. PICK op \in Operations, roles \in RoleLists, names \in Names, claims \in Claimed :
        LET q == [op |-> op, roles |-> roles, names |-> names, claims |-> claims, at |-> 1]
            acl == Guard(op).kind = "acl" IN
        /\ req' = [req EXCEPT ![r] = q]
        /\ \/ /\ pc' = [pc EXCEPT ![r] = "guard"]
              /\ standing' = [standing EXCEPT ![r] = {e \in entries : acl /\ Grants(e, q)}]
              /\ granted' = [granted EXCEPT ![r] = standing'[r] # {}]
           \/ /\ acl /\ pc' = [pc EXCEPT ![r] = "badRequest"]
              /\ UNCHANGED <<standing, granted>>
  BY DEF Arrive
<1> DEFINE q == [op |-> op, roles |-> roles, names |-> names, claims |-> claims, at |-> 1]
           acl == Guard(op).kind = "acl"
<1>2. q \in Request /\ q.at = 1 /\ q.op = op /\ q # None
  BY NoneAssumption DEF Request
<1> HIDE DEF q
<1>3. UNCHANGED <<entries, drawn, faults>> /\ req'[r] = q /\ req' = [req EXCEPT ![r] = q]
  BY <1>1 DEF Arrive, q
<1>4. CASE /\ pc' = [pc EXCEPT ![r] = "guard"]
           /\ standing' = [standing EXCEPT ![r] = {e \in entries : acl /\ Grants(e, q)}]
           /\ granted' = [granted EXCEPT ![r] = standing'[r] # {}]
  <2>1. TypeOK'
    BY <1>2, <1>3, <1>4
  <2>2. Len(Queries(q)) \in Nat \ {0}
    BY <1>2, QueriesFacts
  <2>3. \A e : Missed(e, q)
    BY <1>2 DEF Missed
  <2>4. /\ pc'[r] = "guard" /\ req'[r] = q /\ entries' = entries
        /\ standing'[r] = {e \in entries : acl /\ Grants(e, q)}
        /\ granted'[r] <=> standing'[r] # {}
    BY <1>3, <1>4
  <2>6. Guarded(r)' => acl
    BY <1>2, <2>4 DEF Guarded
  <2>7. q.at \in 1..Len(Queries(q))
    BY <1>2, <2>2
  <2> HIDE DEF acl
  <2>8. Fine(r)'
    BY <2>3, <2>4, <2>6, <2>7 DEF Fine
  <2>9. QED
    BY <1>3, <1>4, <2>1, <2>8, RequestStep
<1>5. CASE pc' = [pc EXCEPT ![r] = "badRequest"] /\ UNCHANGED <<standing, granted>>
  <2>1. TypeOK'
    BY <1>2, <1>3, <1>5 DEF Done
  <2>2. Fine(r)'
    BY <1>5 DEF Fine, Guarded, AclAnswer
  <2>3. QED
    BY <1>3, <1>5, <2>1, <2>2, RequestStep
<1>6. QED
  BY <1>1, <1>4, <1>5 DEF q

LEMMA ClaimsStep ==
  ASSUME IInv, NEW r \in Requests, Claims(r)
  PROVE  IInv'
<1>1. TypeOK'
  BY DEF Claims, IInv, TypeOK, Done
<1>2. Fine(r)'
  BY DEF Claims, IInv, TypeOK, Fine, Guarded, AclAnswer
<1>3. QED
  BY <1>1, <1>2, RequestStep DEF Claims, IInv, TypeOK

LEMMA CanAccessStep ==
  ASSUME IInv, NEW r \in Requests, CanAccess(r)
  PROVE  IInv'
<1> DEFINE q == req[r]
           query == Queries(q)[q.at]
           found == HasPermission(query.subject, query.permission)
<1>1. pc[r] = "guard" /\ Guard(q.op).kind = "acl" /\ q \in Request /\ Guarded(r)
      /\ UNCHANGED <<entries, drawn, standing, granted>>
  BY NoneAssumption DEF CanAccess, Guarded, IInv, TypeOK
<1>2. /\ q.at \in 1..Len(Queries(q)) /\ Len(Queries(q)) \in Nat /\ q.at \in Nat
      /\ (\E e \in entries : Grants(e, q)) => granted[r]
      /\ \A e \in standing[r] : e \in entries /\ Grants(e, q) /\ Missed(e, q)
  BY <1>1, QueriesFacts DEF IInv, GuardInv
<1>3. CASE found /\ pc' = [pc EXCEPT ![r] = "useCase"] /\ UNCHANGED <<req, faults>>
  <2>1. TypeOK'
    BY <1>1, <1>3 DEF IInv, TypeOK
  <2>2. granted[r]
    BY <1>1, <1>2, <1>3, FoundGrants
  <2>3. Fine(r)'
    BY <1>1, <1>3, <2>2 DEF Fine, Guarded, IInv, TypeOK
  <2>4. QED
    BY <1>1, <1>3, <2>1, <2>3, RequestStep DEF IInv, TypeOK
<1>4. CASE /\ ~found /\ q.at < Len(Queries(q))
           /\ req' = [req EXCEPT ![r].at = @ + 1] /\ UNCHANGED <<pc, faults>>
  <2> DEFINE next == [q EXCEPT !.at = q.at + 1]
  <2>1. /\ next \in Request /\ next.at = q.at + 1 /\ next.op = q.op
        /\ Queries(next) = Queries(q)
        /\ \A e : Grants(e, next) <=> Grants(e, q)
    <3>1. q \in Request /\ q.at + 1 \in Nat
      BY <1>1, <1>2
    <3> HIDE DEF q
    <3>2. QED
      BY <3>1, SameQueries
  <2>2. req' = [req EXCEPT ![r] = next] /\ req'[r] = next
    BY <1>4 DEF IInv, TypeOK
  <2>3. \A e \in standing[r] : Missed(e, next)
    BY <1>1, <1>2, <1>4, MissedNext
  <2> HIDE DEF next
  <2>4. TypeOK'
    BY <1>1, <1>4, <2>1, <2>2, NoneAssumption DEF IInv, TypeOK
  <2>5. next.at \in 1..Len(Queries(next))
    BY <1>2, <1>4, <2>1
  <2>6. Guarded(r)' /\ pc'[r] = "guard"
    BY <1>1, <1>4, <2>1, <2>2 DEF Guarded
  <2>7. standing' = standing /\ granted' = granted /\ entries' = entries
    BY <1>1
  <2>8. /\ (\E e \in entries : Grants(e, next)) => granted[r]
        /\ \A e \in standing[r] : e \in entries /\ Grants(e, next) /\ Missed(e, next)
    BY <1>2, <2>1, <2>3
  <2>9. Fine(r)'
    BY <2>2, <2>5, <2>6, <2>7, <2>8 DEF Fine
  <2>10. QED
    BY <1>1, <1>4, <2>2, <2>4, <2>9, RequestStep DEF IInv, TypeOK
<1>5. CASE /\ ~found /\ q.at = Len(Queries(q))
           /\ pc' = [pc EXCEPT ![r] = "forbidden"] /\ UNCHANGED <<req, faults>>
  <2>1. TypeOK'
    BY <1>1, <1>5 DEF IInv, TypeOK, Done
  <2>2. ASSUME NEW e \in standing[r]
        PROVE  FALSE
    <3> DEFINE last == [q EXCEPT !.at = q.at + 1]
    <3>1. Missed(e, last)
      BY <1>1, <1>2, <1>5, <2>2, MissedNext
    <3>2. /\ last \in Request /\ last.at = Len(Queries(last)) + 1
          /\ Grants(e, last)
      <4>1. q \in Request /\ q.at + 1 \in Nat /\ q.at = Len(Queries(q)) /\ Grants(e, q)
        BY <1>1, <1>2, <1>5, <2>2
      <4> HIDE DEF q
      <4>2. QED
        BY <4>1, SameQueries
    <3> HIDE DEF last
    <3>3. QED
      BY <3>1, <3>2, NoneFound
  <2>3. standing'[r] = {}
    BY <1>1, <2>2
  <2>4. Fine(r)'
    BY <1>5, <2>3 DEF Fine, Guarded, IInv, TypeOK
  <2>5. QED
    BY <1>1, <1>5, <2>1, <2>4, RequestStep DEF IInv, TypeOK
<1>6. CASE /\ faults < MaxFaults /\ faults' = faults + 1
           /\ pc' = [pc EXCEPT ![r] = "failed"] /\ UNCHANGED req
  <2>1. TypeOK'
    BY <1>1, <1>6, AccessControlAssumption DEF IInv, TypeOK, Done
  <2>2. Fine(r)'
    BY <1>6 DEF Fine, Guarded, IInv, TypeOK
  <2>3. QED
    BY <1>1, <1>6, <2>1, <2>2, RequestStep DEF IInv, TypeOK
<1>7. QED
  BY <1>3, <1>4, <1>5, <1>6 DEF CanAccess

LEMMA UseCaseStep ==
  ASSUME IInv, NEW r \in Requests, UseCase(r)
  PROVE  IInv'
<1>1. TypeOK'
  BY DEF UseCase, IInv, TypeOK, Done
<1>2. AclAnswer(r) => granted[r]
  BY DEF UseCase, IInv, RunsOnlyIfGranted
<1>3. Fine(r)'
  BY <1>2 DEF UseCase, IInv, TypeOK, Fine, Guarded, AclAnswer
<1>4. QED
  BY <1>1, <1>3, RequestStep DEF UseCase, IInv, TypeOK

LEMMA AgainStep ==
  ASSUME IInv, NEW r \in Requests, Again(r)
  PROVE  IInv'
<1>1. TypeOK'
  BY DEF Again, IInv, TypeOK, Done
<1>2. Fine(r)'
  BY DEF Again, IInv, TypeOK, Fine, Guarded, AclAnswer
<1>3. QED
  BY <1>1, <1>2, RequestStep DEF Again, IInv, TypeOK

LEMMA StepInv ==
  ASSUME IInv, [Next]_vars
  PROVE  IInv'
<1>1. CASE UNCHANGED vars
  <2>1. TypeOK' /\ UNCHANGED <<entries, drawn>>
    BY <1>1 DEF IInv, TypeOK, vars
  <2>2. \A r \in Requests : Fine(r)'
    BY <1>1, FineInv DEF vars, Fine, Guarded, AclAnswer
  <2>3. QED
    BY <2>1, <2>2, FineInv DEF IInv, GuardInv, Fine, RunsOnlyIfGranted, StandingGrantIsHonoured
<1>2. ASSUME NEW s \in Roles \cup {User}, NEW p \in Permissions, GrantAccess(s, p)
      PROVE  IInv'
  <2>1. PICK i \in Ids \ drawn :
          /\ drawn' = drawn \cup {i}
          /\ Entries(entries \cup {[id |-> i, subject |-> s, permission |-> p]})
    BY <1>2 DEF GrantAccess
  <2> DEFINE new == [id |-> i, subject |-> s, permission |-> p]
             es == entries \cup {new}
  <2>2. new \in Entry /\ new.id = i
    BY DEF Entry
  <2>3. es \subseteq Entry /\ drawn' \subseteq Ids
    BY <2>1, <2>2 DEF IInv, TypeOK
  <2>4. \A e \in es : e.id \in drawn'
    BY <2>1, <2>2 DEF IInv, GuardInv
  <2>5. \A e, f \in es : e.id = f.id => e = f
    BY <2>1, <2>2 DEF IInv, TypeOK, GuardInv
  <2>6. UNCHANGED <<pc, req, faults>> /\ Entries(es)
    BY <1>2, <2>1 DEF GrantAccess
  <2> HIDE DEF es
  <2>7. QED
    BY <2>3, <2>4, <2>5, <2>6, EntriesStep
<1>3. ASSUME NEW i \in Ids, RevokeAccess(i)
      PROVE  IInv'
  <2> DEFINE es == {e \in entries : e.id # i}
  <2>1. Entries(es) /\ UNCHANGED <<drawn, pc, req, faults>>
    BY <1>3 DEF RevokeAccess
  <2>2. /\ es \subseteq Entry /\ drawn' \subseteq Ids
        /\ \A e \in es : e.id \in drawn'
        /\ \A e, f \in es : e.id = f.id => e = f
    BY <2>1 DEF IInv, TypeOK, GuardInv
  <2> HIDE DEF es
  <2>3. QED
    BY <2>1, <2>2, EntriesStep
<1>4. CASE RevokeAllAccess
  <2>1. Entries({}) /\ UNCHANGED <<drawn, pc, req, faults>> /\ drawn' \subseteq Ids
    BY <1>4 DEF RevokeAllAccess, IInv, TypeOK
  <2>2. QED
    BY <2>1, EntriesStep
<1>5. QED
  BY <1>1, <1>2, <1>3, <1>4, ArriveStep, ClaimsStep, CanAccessStep, UseCaseStep, AgainStep DEF Next

-----------------------------------------------------------------------------
(* The theorems *)

\* The invariant holds in every reachable state.
THEOREM InvariantIInv == Spec => []IInv
<1>1. IInv /\ [Next]_vars => IInv'
  BY StepInv
<1>2. QED
  BY <1>1, InitInv, PTL DEF Spec

\* Type correctness, and one entry to an id.
THEOREM TypeCorrect == Spec => []TypeOK
<1>1. IInv => TypeOK
  BY DEF IInv
<1>2. QED
  BY <1>1, InvariantIInv, PTL

\* However the entries change between the statements of CanAccess, a use case
\* about a task or user runs only for a request some entry granted.
THEOREM UseCasesAreGranted == Spec => []RunsOnlyIfGranted
<1>1. IInv => RunsOnlyIfGranted
  BY DEF IInv
<1>2. QED
  BY <1>1, InvariantIInv, PTL

\* Whatever the number of roles in the token, an entry that stands through the
\* whole check is found by one of its statements.
THEOREM StandingEntriesAreFound == Spec => []StandingGrantIsHonoured
<1>1. IInv => StandingGrantIsHonoured
  BY DEF IInv
<1>2. QED
  BY <1>1, InvariantIInv, PTL

-----------------------------------------------------------------------------
(* The table of roles                                                       *)

\* What the routes ask of the claims.
LEMMA ClaimGuards ==
  ASSUME NEW op \in Operations
  PROVE  /\ Guard(op).kind = "rbac" =>
              \/ Guard(op).resource = "tasks" /\ Guard(op).action = "create"
              \/ Guard(op).resource = "users" /\ Guard(op).action \in {"read", "update"}
         /\ Guard(op).kind = "role" => Guard(op).names = {"admin", "manager"}
<1> USE DEF Guard, Acl, Rbac, AnyRole, Token
<1>1. CASE op \in DOMAIN TaskHandler
  BY <1>1 DEF TaskHandler
<1>2. CASE op \in DOMAIN UserHandler /\ op \notin DOMAIN TaskHandler
  BY <1>2 DEF UserHandler
<1>3. CASE op \in DOMAIN RegisterRoutes /\ op \notin DOMAIN TaskHandler \cup DOMAIN UserHandler
  BY <1>3 DEF RegisterRoutes
<1>4. QED
  BY <1>1, <1>2, <1>3 DEF Operations

\* An administrator's permissions match whatever a route asks for.
LEMMA AdminMatches ==
  ASSUME NEW resource \in {"tasks", "users"}, NEW action
  PROVE  \E p \in RolePermissions["admin"] : MatchPermission(p, resource, action)
<1>1. Perm(resource, "*") \in RolePermissions["admin"]
  BY DEF RolePermissions, All, Perm
<1>2. MatchPermission(Perm(resource, "*"), resource, action)
  BY DEF MatchPermission, Perm
<1>3. QED
  BY <1>1, <1>2

\* A stronger role matches what the weaker one matches.
LEMMA StrongerMatches ==
  ASSUME NEW n \in DOMAIN Stronger, NEW m \in Stronger[n],
         NEW resource, NEW action,
         \/ resource = "tasks" /\ action = "create"
         \/ resource = "users" /\ action \in {"read", "update"},
         NEW p \in RolePermissions[n], MatchPermission(p, resource, action)
  PROVE  /\ m \in DOMAIN RolePermissions
         /\ \E s \in RolePermissions[m] : MatchPermission(s, resource, action)
<1>1. CASE m = "admin"
  BY <1>1, AdminMatches DEF RolePermissions
<1>2. CASE m # "admin"
  <2>1. n = "member" /\ m = "manager"
    BY <1>2 DEF Stronger
  <2>2. p \in On("tasks", {"create", "read", "update"}) \cup {Perm("labels", "read")}
    BY <2>1 DEF RolePermissions
  <2>3. resource = "tasks" /\ action = "create"
    BY <2>2 DEF On, Perm, MatchPermission
  <2>4. Perm("tasks", "create") \in RolePermissions["manager"]
    BY DEF RolePermissions, On, Perm
  <2>5. MatchPermission(Perm("tasks", "create"), "tasks", "create")
    BY DEF MatchPermission, Perm
  <2>6. "manager" \in DOMAIN RolePermissions
    BY DEF RolePermissions
  <2>7. QED
    BY <2>1, <2>3, <2>4, <2>5, <2>6
<1>3. QED
  BY <1>1, <1>2

\* A request passes with a stronger role if it passes with the weaker one.
LEMMA StrongerPasses ==
  ASSUME NEW q \in Request, PassesClaims(q),
         NEW n \in q.names \cap DOMAIN Stronger, NEW m \in Stronger[n]
  PROVE  PassesClaims([q EXCEPT !.names = (@ \ {n}) \cup {m}])
<1> DEFINE p == [q EXCEPT !.names = (@ \ {n}) \cup {m}]
<1>1. /\ p.op = q.op /\ p.claims = q.claims /\ p.names = (q.names \ {n}) \cup {m}
      /\ q.op \in Operations
  BY DEF Request
<1> HIDE DEF p
<1>2. CASE Guard(q.op).kind = "rbac"
  <2> DEFINE resource == Guard(q.op).resource
             action == Guard(q.op).action
  <2>1. \/ resource = "tasks" /\ action = "create"
        \/ resource = "users" /\ action \in {"read", "update"}
    BY <1>1, <1>2, ClaimGuards
  <2>2. HasPermissionFromClaims(q.names, q.claims, resource, action)
    BY <1>2 DEF PassesClaims
  <2> HIDE DEF resource, action
  <2>3. ASSUME \E c \in q.claims : MatchPermission(c, resource, action)
        PROVE  HasPermissionFromClaims(p.names, p.claims, resource, action)
    BY <1>1, <2>3 DEF HasPermissionFromClaims
  <2>4. ASSUME NEW x \in q.names \cap DOMAIN RolePermissions,
               NEW s \in RolePermissions[x], MatchPermission(s, resource, action)
        PROVE  HasPermissionFromClaims(p.names, p.claims, resource, action)
    <3>1. CASE x # n
      BY <1>1, <2>4, <3>1 DEF HasPermissionFromClaims
    <3>2. CASE x = n
      <4>1. /\ m \in DOMAIN RolePermissions
            /\ \E t \in RolePermissions[m] : MatchPermission(t, resource, action)
        BY <2>1, <2>4, <3>2, StrongerMatches
      <4>2. QED
        BY <1>1, <4>1 DEF HasPermissionFromClaims
    <3>3. QED
      BY <3>1, <3>2
  <2>5. HasPermissionFromClaims(p.names, p.claims, resource, action)
    BY <1>1, <2>2, <2>3, <2>4 DEF HasPermissionFromClaims
  <2>6. QED
    BY <1>1, <1>2, <2>5 DEF PassesClaims, resource, action, p
<1>3. CASE Guard(q.op).kind = "role"
  <2>1. Guard(q.op).names = {"admin", "manager"} /\ q.names \cap {"admin", "manager"} # {}
    BY <1>1, <1>3, ClaimGuards DEF PassesClaims
  <2>2. n \in {"admin", "manager"} => m = "admin"
    BY DEF Stronger
  <2>3. p.names \cap {"admin", "manager"} # {}
    BY <1>1, <2>1, <2>2
  <2>4. QED
    BY <1>1, <1>3, <2>1, <2>3 DEF PassesClaims, p
<1>4. CASE Guard(q.op).kind \notin {"rbac", "role"}
  BY <1>1, <1>4 DEF PassesClaims, p
<1>5. QED
  BY <1>2, <1>3, <1>4

LEMMA PassedStep ==
  ASSUME IInv, PassedInv, [Next]_vars
  PROVE  PassedInv'
<1> USE DEF PassedInv, IInv, TypeOK
<1>1. CASE UNCHANGED vars
  BY <1>1 DEF vars
<1>2. CASE \/ \E s \in Roles \cup {User}, p \in Permissions : GrantAccess(s, p)
           \/ \E i \in Ids : RevokeAccess(i)
           \/ RevokeAllAccess
  <2>1. UNCHANGED <<pc, req>>
    BY <1>2 DEF GrantAccess, RevokeAccess, RevokeAllAccess
  <2>2. QED
    BY <2>1
<1>3. ASSUME NEW r \in Requests, Arrive(r) PROVE PassedInv'
  <2>1. /\ pc'[r] \in {"guard", "badRequest"}
        /\ \A x \in Requests : x # r => pc'[x] = pc[x] /\ req'[x] = req[x]
    BY <1>3 DEF Arrive
  <2>2. QED
    BY <2>1
<1>4. ASSUME NEW r \in Requests, Claims(r) PROVE PassedInv'
  BY <1>4 DEF Claims
<1>5. ASSUME NEW r \in Requests, CanAccess(r) PROVE PassedInv'
  <2>1. /\ pc'[r] = "useCase" => UNCHANGED req
        /\ pc'[r] # "served"
        /\ \A x \in Requests : x # r => pc'[x] = pc[x] /\ req'[x] = req[x]
    BY <1>5 DEF CanAccess, Guarded
  <2>2. Guard(req[r].op).kind = "acl"
    BY <1>5 DEF CanAccess, Guarded
  <2>3. PassesClaims(req[r])
    BY <2>2 DEF PassesClaims
  <2>4. QED
    BY <2>1, <2>3
<1>6. ASSUME NEW r \in Requests, UseCase(r) PROVE PassedInv'
  BY <1>6 DEF UseCase
<1>7. ASSUME NEW r \in Requests, Again(r) PROVE PassedInv'
  <2>1. /\ pc'[r] = "idle"
        /\ \A x \in Requests : x # r => pc'[x] = pc[x] /\ req'[x] = req[x]
    BY <1>7 DEF Again
  <2>2. QED
    BY <2>1
<1>8. QED
  BY <1>1, <1>2, <1>3, <1>4, <1>5, <1>6, <1>7 DEF Next

\* A token with any roles, names and permissions loses no route when one of its
\* roles is replaced by the next stronger one.
THEOREM StrongerRolesPass == Spec => []StrongerRolePasses
<1>1. Init => PassedInv
  BY DEF Init, PassedInv
<1>2. IInv /\ PassedInv /\ [Next]_vars => PassedInv'
  BY PassedStep
<1>3. IInv /\ PassedInv => StrongerRolePasses
  <2>1. ASSUME IInv, PassedInv, NEW r \in Requests, req[r] # None, pc[r] \in {"useCase", "served"},
               NEW n \in req[r].names \cap DOMAIN Stronger, NEW m \in Stronger[n]
        PROVE  PassesClaims([req[r] EXCEPT !.names = (@ \ {n}) \cup {m}])
    <3>1. req[r] \in Request /\ PassesClaims(req[r])
      BY <2>1 DEF IInv, TypeOK, PassedInv
    <3>2. QED
      BY <3>1, StrongerPasses
  <2>2. QED
    BY <2>1 DEF StrongerRolePasses
<1>4. QED
  BY <1>1, <1>2, <1>3, InvariantIInv, PTL DEF Spec
=============================================================================
