--------------------------- MODULE AccountsProofs ---------------------------
(***************************************************************************)
(* Proofs about Accounts.tla: for any accounts, names, passwords, rights   *)
(* and handlers at once, names differ, deleted accounts stay deleted, and  *)
(* passwords and rights change for a reason.                               *)
(***************************************************************************)
EXTENDS Accounts, TLAPS

EditFields == {"name", "pw", "enabled", "perms"}

\* Nobody is no record, and an account that exists is one.
LEMMA NobodyIsNoRecord == Nobody \notin Records
<1>1. DOMAIN Nobody = {"name"}
  BY DEF Nobody
<1>2. \A r \in Records : "pw" \in DOMAIN r
  BY DEF Records
<1> QED
  BY <1>1, <1>2

LEMMA ExistingIsRecord ==
    ASSUME TypeOK, NEW u \in Ids
    PROVE  Exists(u) <=> account[u] \in Records
  BY NobodyIsNoRecord DEF TypeOK, Exists

\* What a handler keeps, by the kind of its request.
LEMMA RequestFields ==
    ASSUME NEW r \in Requests
    PROVE  /\ r.kind \in {"none", "login", "password", "setup", "rename", "create", "edit", "delete"}
           /\ r.kind = "none" <=> r = Free
           /\ r.kind \in {"login", "password"} => r.uid \in Ids /\ r.pw \in Passwords /\ r.salt \in Salts
           /\ r.kind = "setup" => /\ r.uid = "owner" /\ r.pw \in Passwords /\ r.name \in Names
                                  /\ r.salt \in Salts
           /\ r.kind = "rename" => r.uid = "owner" /\ r.name \in Names
           /\ r.kind \in {"create", "edit"} => r.uid \in Uids /\ r.rec \in Records /\ r.by \in Ids
           /\ r.kind = "edit" => r.fields \subseteq EditFields
           /\ r.kind = "delete" => r.uid \in Uids /\ r.by \in Ids
<1>1. CASE r = Free
  BY <1>1 DEF Free
<1>2. CASE r \in [kind: {"login", "password"}, uid: Ids, pw: Passwords, salt: Salts]
  BY <1>2 DEF Free
<1>3. CASE r \in [kind: {"setup"}, uid: {"owner"}, pw: Passwords, name: Names, salt: Salts]
  BY <1>3 DEF Free
<1>4. CASE r \in [kind: {"rename"}, uid: {"owner"}, name: Names]
  BY <1>4 DEF Free
<1>5. CASE r \in [kind: {"create"}, by: Ids, uid: Uids, rec: Records]
  BY <1>5 DEF Free
<1>6. CASE r \in [kind: {"edit"}, by: Ids, uid: Uids, fields: SUBSET {"name", "pw", "enabled", "perms"},
                  rec: Records]
  BY <1>6 DEF Free, EditFields
<1>7. CASE r \in [kind: {"delete"}, by: Ids, uid: Uids]
  BY <1>7 DEF Free
<1> QED
  BY <1>1, <1>2, <1>3, <1>4, <1>5, <1>6, <1>7 DEF Requests

-----------------------------------------------------------------------------
(* What is checked before a request is accepted with r, at place l.        *)
Checked(l, r) ==
    \/ r.kind = "login" /\ l \in {"rehashing", "opening"} /\ r.salt > 0 /\ Exists(r.uid)
    \/ r.kind = "setup" /\ l = "setup" /\ r.salt > 0
    \/ r.kind = "password" /\ l = "writing" /\ r.salt > 0 /\ Exists(r.uid)
    \/ r.kind = "rename" /\ l = "writing" /\ Exists("owner")
    \/ /\ r.kind = "create" /\ l = "writing" /\ r.rec.salt > 0 /\ ~r.rec.old
       /\ ~Exists(r.uid) /\ r.uid \notin deleted /\ \A o \in Threads : req[o] # Free => req[o].uid # r.uid
       /\ Exists(r.by) /\ r.rec.perms \subseteq account[r.by].perms
    \/ /\ r.kind = "edit" /\ l = "writing" /\ r.rec.salt > 0 /\ Exists(r.uid)
       /\ Exists(r.by) /\ r.rec.perms \subseteq account[r.by].perms
    \/ r.kind = "delete" /\ l = "writing" /\ Exists(r.uid)

Accepts(t) == \E l \in {"rehashing", "opening", "setup", "writing"}, r \in Requests :
                  Checked(l, r) /\ Accept(t, l, r)

\* The number of a request is a salt that was never drawn.
LEMMA FreshSalt ==
    ASSUME TypeOK, requests < MaxRequests
    PROVE  requests + 1 \in Salts /\ requests + 1 > 0
  BY AccountsAssumption DEF TypeOK, Salts

LEMMA SignedInExists == ASSUME NEW u, SignedIn(u) PROVE Exists(u)
  BY DEF SignedIn, Opens

\* A record that is given gets the salt.
LEMMA GivenRecord ==
    ASSUME TypeOK, requests < MaxRequests, NEW r \in Given
    PROVE  LET rec == [r EXCEPT !.salt = requests + 1]
           IN  rec \in Records /\ rec.salt > 0 /\ ~rec.old /\ rec.perms = r.perms
<1>1. r \in Records /\ ~r.old
  BY DEF Given
<1>2. [r EXCEPT !.salt = requests + 1] \in Records
  BY <1>1, FreshSalt DEF Records
<1> QED
  BY <1>1, <1>2, FreshSalt DEF Records

\* The requests of an account manager were checked.
LEMMA ManagesChecked ==
    ASSUME TypeOK, NEW t \in Threads, requests < MaxRequests, NEW a \in Ids, NEW u \in Uids, Manages(t, a, u)
    PROVE  Accepts(t)
<1>1. Exists(a)
  BY SignedInExists DEF Manages, Manager
<1>2. CASE Delete(t, a, u)
  <2> DEFINE r == [kind |-> "delete", by |-> a, uid |-> u]
  <2>1. r \in Requests
    BY DEF Requests
  <2>2. Accept(t, "writing", r) /\ Exists(u)
    BY <1>2 DEF Delete, MayManage
  <2>3. Checked("writing", r)
    BY <2>2 DEF Checked
  <2> QED
    BY <2>1, <2>2, <2>3 DEF Accepts
<1>3. ASSUME NEW g \in Given, Create(t, a, u, g) PROVE Accepts(t)
  <2> DEFINE rec == [g EXCEPT !.salt = requests + 1]
             r == [kind |-> "create", by |-> a, uid |-> u, rec |-> rec]
  <2>1. rec \in Records /\ rec.salt > 0 /\ ~rec.old /\ rec.perms = g.perms
    BY GivenRecord
  <2>2. /\ Accept(t, "writing", r) /\ ~Exists(u) /\ u \notin deleted
        /\ \A o \in Threads : req[o] # Free => req[o].uid # u
        /\ g.perms \subseteq account[a].perms
    BY <1>3 DEF Create, grantProblem
  <2> HIDE DEF rec
  <2>3. r \in Requests
    BY <2>1 DEF Requests
  <2>4. Checked("writing", r)
    BY <2>1, <2>2, <1>1 DEF Checked
  <2> QED
    BY <2>2, <2>3, <2>4 DEF Accepts
<1>4. ASSUME NEW g \in Given, NEW f \in Fields, Edit(t, a, u, f, g) PROVE Accepts(t)
  <2> DEFINE rec == [g EXCEPT !.salt = requests + 1]
             r == [kind |-> "edit", by |-> a, uid |-> u, fields |-> f \cup {"perms"}, rec |-> rec]
  <2>1. rec \in Records /\ rec.salt > 0 /\ rec.perms = g.perms
    BY GivenRecord
  <2>2. Accept(t, "writing", r) /\ Exists(u) /\ g.perms \subseteq account[a].perms
    BY <1>4 DEF Edit, MayManage, grantProblem
  <2> HIDE DEF rec
  <2>3. f \cup {"perms"} \in SUBSET {"name", "pw", "enabled", "perms"}
    BY DEF Fields
  <2>4. r \in Requests
    BY <2>1, <2>3 DEF Requests
  <2>5. Checked("writing", r)
    BY <2>1, <2>2, <1>1 DEF Checked
  <2> QED
    BY <2>2, <2>4, <2>5 DEF Accepts
<1> QED
  BY <1>2, <1>3, <1>4 DEF Manages

\* Every request that is accepted was checked.
LEMMA RequestedChecked ==
    ASSUME TypeOK, NEW t \in Threads, requests < MaxRequests, Requested(t)
    PROVE  Accepts(t)
<1>1. requests + 1 \in Salts /\ requests + 1 > 0
  BY FreshSalt
<1>2. "owner" \in Ids
  BY DEF Ids
<1>3. ASSUME NEW n \in Names, OwnerRename(t, n) PROVE Accepts(t)
  <2> DEFINE r == [kind |-> "rename", uid |-> "owner", name |-> n]
  <2>1. r \in Requests
    BY DEF Requests
  <2>2. Accept(t, "writing", r) /\ Exists("owner")
    BY <1>3, SignedInExists DEF OwnerRename
  <2>3. Checked("writing", r)
    BY <2>2 DEF Checked
  <2> QED
    BY <2>1, <2>2, <2>3 DEF Accepts
<1>4. ASSUME NEW n \in Names, NEW p \in Passwords, Setup(t, n, p) PROVE Accepts(t)
  <2> DEFINE r == [kind |-> "setup", uid |-> "owner", pw |-> p, name |-> n, salt |-> requests + 1]
  <2>1. r \in Requests
    BY <1>1 DEF Requests
  <2>2. Accept(t, "setup", r)
    BY <1>4 DEF Setup
  <2>3. Checked("setup", r)
    BY <1>1 DEF Checked
  <2> QED
    BY <2>1, <2>2, <2>3 DEF Accepts
<1>5. ASSUME NEW u \in Ids, NEW p \in Passwords,
             Exists(u), Accept(t, "writing", [kind |-> "password", uid |-> u, pw |-> p, salt |-> requests + 1])
      PROVE  Accepts(t)
  <2> DEFINE r == [kind |-> "password", uid |-> u, pw |-> p, salt |-> requests + 1]
  <2>1. r \in Requests
    BY <1>1 DEF Requests
  <2>2. Checked("writing", r)
    BY <1>1, <1>5 DEF Checked
  <2> QED
    BY <1>5, <2>1, <2>2 DEF Accepts
<1>6. ASSUME NEW p \in Passwords, OwnerPassword(t, p) PROVE Accepts(t)
  BY <1>2, <1>5, <1>6, SignedInExists DEF OwnerPassword
<1>7. ASSUME NEW u \in Ids, NEW p \in Passwords, NEW new \in Passwords, ChangePassword(t, u, p, new)
      PROVE  Accepts(t)
  BY <1>5, <1>7, SignedInExists DEF ChangePassword
<1>8. ASSUME NEW u \in Ids, NEW p \in Passwords, Login(t, u, p) PROVE Accepts(t)
  <2> DEFINE r == [kind |-> "login", uid |-> u, pw |-> p, salt |-> requests + 1]
             l == IF account[u].old THEN "rehashing" ELSE "opening"
  <2>1. r \in Requests
    BY <1>1 DEF Requests
  <2>2. Accept(t, l, r) /\ Exists(u)
    BY <1>8 DEF Login
  <2>3. l \in {"rehashing", "opening"}
    OBVIOUS
  <2> HIDE DEF l
  <2>4. Checked(l, r)
    BY <1>1, <2>2, <2>3 DEF Checked
  <2> QED
    BY <2>1, <2>2, <2>3, <2>4 DEF Accepts
<1>9. ASSUME NEW a \in Ids, NEW u \in Uids, Manages(t, a, u) PROVE Accepts(t)
  BY <1>9, ManagesChecked
<1> QED
  BY <1>3, <1>4, <1>6, <1>7, <1>8, <1>9 DEF Requested

-----------------------------------------------------------------------------
(* What a handler may do to the account it is about; the others it leaves  *)
(* alone.                                                                  *)
Rewritten(t, new) ==
    LET u == req[t].uid
        r == req[t]
    IN  \/ new = account[u]
        \/ r.kind \in {"login", "password"} /\ Exists(u) /\ new = Hashed(account[u], r.pw, r.salt)
        \/ r.kind = "setup" /\ ~Exists(u) /\ new = FirstOwner(r)
        \/ r.kind = "rename" /\ new = [account[u] EXCEPT !.name = r.name]
        \/ r.kind = "create" /\ ~nameTaken(r.rec.name, "none") /\ new = r.rec
        \/ /\ r.kind = "edit" /\ Exists(u) /\ new = Edited(account[u], r.fields, r.rec)
           /\ "name" \in r.fields => ~nameTaken(r.rec.name, u)
        \/ r.kind = "delete" /\ new = Nobody

\* A handler opens a session, or ends; a deletion is noted.
WrittenBy(t) ==
    /\ req[t] # Free /\ req[t].uid \in Ids /\ requests' = requests
    /\ \E new : account' = [account EXCEPT ![req[t].uid] = new] /\ Rewritten(t, new)
    /\ \/ Done(t)
       \/ GoOpen(t) /\ req[t].kind \in {"login", "password", "setup"}
    /\ sessions' \subseteq [uid: Ids, salt: Salts, shown: Passwords]
    /\ \/ deleted' = deleted
       \/ req[t].kind = "delete" /\ deleted' = deleted \cup {req[t].uid} /\ account'[req[t].uid] = Nobody

LEMMA ServedWrites ==
    ASSUME TypeOK, NEW t \in Threads, Served(t)
    PROVE  WrittenBy(t)
<1> DEFINE u == req[t].uid
           Keeps == account' = [account EXCEPT ![u] = account[u]]
<1>1. /\ req[t] \in Requests /\ account \in [Ids -> Records \cup {Nobody}]
      /\ sessions \subseteq [uid: Ids, salt: Salts, shown: Passwords]
      /\ (pc[t] = "idle" <=> req[t] = Free)
      /\ (pc[t] = "setup" => req[t].kind = "setup") /\ (pc[t] = "rehashing" => req[t].kind = "login")
      /\ (pc[t] = "opening" => req[t].kind \in {"login", "password", "setup"})
  BY DEF TypeOK
<1>2. pc[t] \in {"rehashing", "opening", "setup", "writing"}
  BY DEF Served, Rehash, StartSession, SetupWrites, SetupRefused, WritesPassword, WritesRename,
         WritesAccount, WritesEdit, WritesDeletion, WriteRefused
<1>3. req[t] # Free /\ req[t].kind # "none" /\ u \in Ids
  <2>1. req[t] # Free /\ req[t].kind # "none"
    BY <1>1, <1>2, RequestFields
  <2> QED
    BY <2>1, <1>1, RequestFields DEF Ids
<1>4. account' = account => Keeps
  BY <1>1
<1>5. ASSUME account' = account PROVE \E new : account' = [account EXCEPT ![u] = new] /\ Rewritten(t, new)
  <2>1. Rewritten(t, account[u])
    BY DEF Rewritten
  <2> QED
    BY <1>4, <1>5, <2>1
<1>6. CASE Rehash(t) \/ WritesPassword(t)
  <2>1. /\ req[t].kind \in {"login", "password"} /\ GoOpen(t)
        /\ UNCHANGED <<sessions, deleted, requests>>
        /\ setPasswordHash(u, req[t].pw, req[t].salt) \/ account' = account
    BY <1>1, <1>6 DEF Rehash, WritesPassword
  <2>2. \E new : account' = [account EXCEPT ![u] = new] /\ Rewritten(t, new)
    <3>1. CASE account' = account
      BY <3>1, <1>5
    <3>2. CASE setPasswordHash(u, req[t].pw, req[t].salt)
      <4> DEFINE new == IF Exists(u) THEN Hashed(account[u], req[t].pw, req[t].salt) ELSE account[u]
      <4>1. account' = [account EXCEPT ![u] = new]
        BY <3>2 DEF setPasswordHash
      <4>2. Rewritten(t, new)
        BY <2>1 DEF Rewritten
      <4> QED
        BY <4>1, <4>2
    <3> QED
      BY <2>1, <3>1, <3>2
  <2> QED
    BY <1>1, <1>3, <2>1, <2>2 DEF WrittenBy
<1>7. CASE StartSession(t)
  <2>1. /\ req[t].kind \in {"login", "password", "setup"} /\ Done(t) /\ UNCHANGED <<account, deleted, requests>>
        /\ sessions' = IF Exists(u)
                       THEN sessions \cup {[uid |-> u, salt |-> account[u].salt, shown |-> req[t].pw]}
                       ELSE sessions
    BY <1>1, <1>7 DEF StartSession
  <2>2. req[t].pw \in Passwords
    BY <1>1, <2>1, RequestFields
  <2>3. Exists(u) => account[u].salt \in Salts
    BY <1>3, ExistingIsRecord DEF Records
  <2>4. sessions' \subseteq [uid: Ids, salt: Salts, shown: Passwords]
    BY <1>1, <1>3, <2>1, <2>2, <2>3
  <2> QED
    BY <1>3, <1>5, <2>1, <2>4 DEF WrittenBy
<1>8. CASE SetupWrites(t)
  <2>1. /\ req[t].kind = "setup" /\ ~Exists("owner") /\ GoOpen(t) /\ UNCHANGED <<sessions, deleted, requests>>
        /\ account' = [account EXCEPT !["owner"] = FirstOwner(req[t])]
    BY <1>1, <1>8 DEF SetupWrites, needsSetup
  <2>2. u = "owner"
    BY <1>1, <2>1, RequestFields
  <2>3. Rewritten(t, FirstOwner(req[t]))
    BY <2>1, <2>2 DEF Rewritten
  <2> QED
    BY <1>1, <1>3, <2>1, <2>2, <2>3 DEF WrittenBy
<1>9. CASE SetupRefused(t) \/ WriteRefused(t)
  <2>1. Done(t) /\ UNCHANGED <<account, sessions, deleted, requests>>
    BY <1>9 DEF SetupRefused, WriteRefused
  <2> QED
    BY <1>1, <1>3, <1>5, <2>1 DEF WrittenBy
<1>10. CASE WritesRename(t)
  <2>1. /\ req[t].kind = "rename" /\ Done(t) /\ UNCHANGED <<sessions, deleted, requests>>
        /\ account' = [account EXCEPT !["owner"].name = req[t].name]
    BY <1>10 DEF WritesRename
  <2>2. u = "owner"
    BY <1>1, <2>1, RequestFields
  <2>3. account' = [account EXCEPT ![u] = [account[u] EXCEPT !.name = req[t].name]]
    BY <2>1, <2>2
  <2>4. Rewritten(t, [account[u] EXCEPT !.name = req[t].name])
    BY <2>1 DEF Rewritten
  <2> QED
    BY <1>1, <1>3, <2>1, <2>3, <2>4 DEF WrittenBy
<1>11. CASE WritesAccount(t)
  <2>1. /\ req[t].kind = "create" /\ Done(t) /\ UNCHANGED <<sessions, deleted, requests>>
        /\ account' = [account EXCEPT ![u] = req[t].rec] /\ ~nameTaken(req[t].rec.name, "none")
    BY <1>11 DEF WritesAccount
  <2>2. Rewritten(t, req[t].rec)
    BY <2>1 DEF Rewritten
  <2> QED
    BY <1>1, <1>3, <2>1, <2>2 DEF WrittenBy
<1>12. CASE WritesEdit(t)
  <2> DEFINE new == IF Exists(u) THEN Edited(account[u], req[t].fields, req[t].rec) ELSE account[u]
  <2>1. /\ req[t].kind = "edit" /\ Done(t) /\ UNCHANGED <<sessions, deleted, requests>>
        /\ account' = [account EXCEPT ![u] = new]
        /\ "name" \in req[t].fields => ~nameTaken(req[t].rec.name, u)
    BY <1>12 DEF WritesEdit
  <2>2. Rewritten(t, new)
    BY <2>1 DEF Rewritten
  <2> HIDE DEF new
  <2> QED
    BY <1>1, <1>3, <2>1, <2>2 DEF WrittenBy
<1>13. CASE WritesDeletion(t)
  <2>1. /\ req[t].kind = "delete" /\ Done(t) /\ UNCHANGED <<sessions, requests>>
        /\ account' = [account EXCEPT ![u] = Nobody] /\ deleted' = deleted \cup {u}
    BY <1>13 DEF WritesDeletion
  <2>2. Rewritten(t, Nobody)
    BY <2>1 DEF Rewritten
  <2>3. account'[u] = Nobody
    BY <1>1, <1>3, <2>1
  <2> QED
    BY <1>1, <1>3, <2>1, <2>2, <2>3 DEF WrittenBy
<1> QED
  BY <1>6, <1>7, <1>8, <1>9, <1>10, <1>11, <1>12, <1>13 DEF Served

-----------------------------------------------------------------------------
(* The inductive invariant: what the types leave out of a request under    *)
(* way.  A new hash has a salt of its own; the owner is never deleted; the *)
(* identifier of an account to be created is nobody else's.                *)
Salted ==
    \A t \in Threads :
        /\ req[t].kind \in {"login", "password", "setup"} => req[t].salt > 0
        /\ req[t].kind \in {"create", "edit"} => req[t].rec.salt > 0
        /\ req[t].kind = "create" => ~req[t].rec.old
OwnerThere == \A t \in Threads : req[t].kind = "rename" => Exists("owner")
CreateAlone ==
    \A t \in Threads : req[t].kind = "create" =>
        /\ ~Exists(req[t].uid) /\ req[t].uid \notin deleted
        /\ \A o \in Threads \ {t} : req[o] # Free => req[o].uid # req[t].uid
Inv == TypeOK /\ Salted /\ OwnerThere /\ CreateAlone /\ DeletedStaysDeleted /\ UserNamesDiffer

LEMMA OwnerIsApart == "owner" \in Ids /\ "owner" \notin Uids /\ "none" \notin Uids /\ Uids \subseteq Ids
  BY AccountsAssumption DEF Ids

\* What an account becomes is nobody or a record, with a salt unless its hash is an old one.
LEMMA NewRecord ==
    ASSUME Inv, NEW t \in Threads, req[t] # Free, NEW new, Rewritten(t, new)
    PROVE  /\ new \in Records \cup {Nobody}
           /\ new \in Records => (new.old <=> new.salt = 0)
<1> DEFINE u == req[t].uid
           r == req[t]
<1>1. /\ r \in Requests /\ r.kind # "none" /\ account \in [Ids -> Records \cup {Nobody}]
      /\ \A v \in Ids : account[v] \in Records => (account[v].old <=> account[v].salt = 0)
  <2>1. r \in Requests
    BY DEF Inv, TypeOK
  <2> QED
    BY <2>1, RequestFields, ExistingIsRecord DEF Inv, TypeOK
<1>2. u \in Ids
  BY <1>1, RequestFields DEF Ids
<1>3. CASE new = account[u]
  BY <1>1, <1>2, <1>3
<1>4. CASE r.kind \in {"login", "password"} /\ Exists(u) /\ new = Hashed(account[u], r.pw, r.salt)
  <2>1. account[u] \in Records /\ r.pw \in Passwords /\ r.salt \in Salts /\ r.salt > 0
    BY <1>1, <1>2, <1>4, RequestFields, ExistingIsRecord DEF Inv, Salted
  <2>2. new \in Records /\ ~new.old /\ new.salt = r.salt
    BY <2>1, <1>4 DEF Records, Hashed
  <2> QED
    BY <2>1, <2>2
<1>5. CASE r.kind = "setup" /\ new = FirstOwner(r)
  <2>1. r.pw \in Passwords /\ r.name \in Names /\ r.salt \in Salts /\ r.salt > 0
    BY <1>1, <1>5, RequestFields DEF Inv, Salted
  <2>2. new \in Records /\ ~new.old /\ new.salt = r.salt
    BY <2>1, <1>5 DEF Records, FirstOwner
  <2> QED
    BY <2>1, <2>2
<1>6. CASE r.kind = "rename" /\ new = [account[u] EXCEPT !.name = r.name]
  <2>1. u = "owner" /\ r.name \in Names /\ account[u] \in Records
    BY <1>1, <1>2, <1>6, RequestFields, ExistingIsRecord DEF Inv, OwnerThere
  <2>2. new \in Records /\ new.old = account[u].old /\ new.salt = account[u].salt
    BY <2>1, <1>6 DEF Records
  <2> QED
    BY <2>1, <2>2, <1>1, <1>2
<1>7. CASE r.kind = "create" /\ new = r.rec
  BY <1>1, <1>7, RequestFields DEF Inv, Salted
<1>8. CASE r.kind = "edit" /\ Exists(u) /\ new = Edited(account[u], r.fields, r.rec)
  <2>1. account[u] \in Records /\ r.rec \in Records /\ r.rec.salt > 0
    BY <1>1, <1>2, <1>8, RequestFields, ExistingIsRecord DEF Inv, Salted
  <2>2. new \in Records
    BY <2>1, <1>8 DEF Records, Edited
  <2>3. CASE "pw" \in r.fields
    <3>1. ~new.old /\ new.salt = r.rec.salt
      BY <2>3, <1>8 DEF Edited
    <3> QED
      BY <3>1, <2>1, <2>2
  <2>4. CASE "pw" \notin r.fields
    <3>1. new.old = account[u].old /\ new.salt = account[u].salt
      BY <2>4, <1>8 DEF Edited
    <3> QED
      BY <3>1, <2>1, <2>2, <1>1, <1>2
  <2> QED
    BY <2>3, <2>4
<1>9. CASE new = Nobody
  BY <1>9, NobodyIsNoRecord
<1> QED
  BY <1>3, <1>4, <1>5, <1>6, <1>7, <1>8, <1>9 DEF Rewritten

\* An account that does not exist is made by the first configuration or a creation only.
LEMMA WhoComesToBe ==
    ASSUME Inv, NEW t \in Threads, req[t] # Free, NEW new, Rewritten(t, new), ~Exists(req[t].uid), new # Nobody
    PROVE  req[t].kind \in {"setup", "create"}
<1>1. req[t] \in Requests
  BY DEF Inv, TypeOK
<1>2. req[t].kind = "rename" => Exists(req[t].uid)
  BY <1>1, RequestFields DEF Inv, OwnerThere
<1> QED
  BY <1>2 DEF Rewritten, Exists

LEMMA InitInv == Init => Inv
<1> SUFFICES ASSUME Init PROVE Inv
  OBVIOUS
<1>1. /\ account \in [Ids -> {Nobody} \cup {r \in Records : r.salt = 0 /\ r.old /\ r.enabled}]
      /\ sessions = {[uid |-> u, salt |-> 0, shown |-> account[u].pw] : u \in {v \in Ids : Exists(v)}}
      /\ pc = [t \in Threads |-> "idle"] /\ req = [t \in Threads |-> Free]
      /\ deleted = {} /\ requests = 0
  BY DEF Init
<1>2. \A u \in Ids : Exists(u) => account[u] \in Records /\ account[u].salt = 0 /\ account[u].old
  BY <1>1 DEF Exists
<1>3. 0 \in Salts
  BY AccountsAssumption DEF Salts
<1>4. sessions \subseteq [uid: Ids, salt: Salts, shown: Passwords]
  <2> SUFFICES ASSUME NEW u \in Ids, Exists(u)
               PROVE  [uid |-> u, salt |-> 0, shown |-> account[u].pw] \in [uid: Ids, salt: Salts, shown: Passwords]
    BY <1>1
  <2>1. account[u].pw \in Passwords
    BY <1>2 DEF Records
  <2> QED
    BY <2>1, <1>3
<1>5. TypeOK
  <2>1. account \in [Ids -> Records \cup {Nobody}]
    BY <1>1
  <2>2. req \in [Threads -> Requests]
    BY <1>1 DEF Requests
  <2>3. pc \in [Threads -> {"idle", "rehashing", "opening", "setup", "writing"}]
    BY <1>1
  <2>4. \A t \in Threads : pc[t] = "idle" /\ req[t] = Free
    BY <1>1
  <2>5. deleted \subseteq Uids /\ requests \in 0..MaxRequests
    BY <1>1, AccountsAssumption
  <2> QED
    BY <2>1, <2>2, <2>3, <2>4, <2>5, <1>2, <1>4 DEF TypeOK
<1>6. Salted /\ OwnerThere /\ CreateAlone
  BY <1>1 DEF Salted, OwnerThere, CreateAlone, Free
<1>7. DeletedStaysDeleted /\ UserNamesDiffer
  BY <1>1, OwnerIsApart DEF Init, DeletedStaysDeleted, UserNamesDiffer
<1> QED
  BY <1>5, <1>6, <1>7 DEF Inv

-----------------------------------------------------------------------------
\* Accepting a checked request keeps the invariant.
LEMMA AcceptKeeps ==
    ASSUME Inv, NEW t \in Threads, Accepts(t)
    PROVE  Inv'
<1>1. PICK l \in {"rehashing", "opening", "setup", "writing"}, r \in Requests : Checked(l, r) /\ Accept(t, l, r)
  BY DEF Accepts
<1>2. /\ pc[t] = "idle" /\ requests < MaxRequests /\ requests' = requests + 1
      /\ pc' = [pc EXCEPT ![t] = l] /\ req' = [req EXCEPT ![t] = r]
      /\ UNCHANGED <<account, sessions, deleted>>
  BY <1>1 DEF Accept
<1>3. TypeOK /\ req \in [Threads -> Requests] /\ req[t] = Free
      /\ pc \in [Threads -> {"idle", "rehashing", "opening", "setup", "writing"}]
  BY <1>2 DEF Inv, TypeOK
<1>4. r.kind # "none" /\ r # Free
  BY <1>1, RequestFields DEF Checked
<1>5. req'[t] = r /\ pc'[t] = l /\ \A o \in Threads \ {t} : req'[o] = req[o] /\ pc'[o] = pc[o]
  BY <1>2, <1>3
<1>6. TypeOK'
  <2>1. req' \in [Threads -> Requests] /\ pc' \in [Threads -> {"idle", "rehashing", "opening", "setup", "writing"}]
    BY <1>1, <1>2, <1>3
  <2>2. requests' \in 0..MaxRequests
    BY <1>2, <1>3, AccountsAssumption DEF TypeOK
  <2>3. /\ (l = "idle") = (r = Free) /\ (l = "setup" => r.kind = "setup")
        /\ (l = "rehashing" => r.kind = "login")
        /\ (l = "opening" => r.kind \in {"login", "password", "setup"})
    BY <1>1, <1>4 DEF Checked
  <2>4. \A o \in Threads :
          /\ (pc'[o] = "idle") = (req'[o] = Free)
          /\ pc'[o] = "setup" => req'[o].kind = "setup"
          /\ pc'[o] = "rehashing" => req'[o].kind = "login"
          /\ pc'[o] = "opening" => req'[o].kind \in {"login", "password", "setup"}
    <3> SUFFICES ASSUME NEW o \in Threads
                 PROVE  /\ (pc'[o] = "idle") = (req'[o] = Free)
                        /\ pc'[o] = "setup" => req'[o].kind = "setup"
                        /\ pc'[o] = "rehashing" => req'[o].kind = "login"
                        /\ pc'[o] = "opening" => req'[o].kind \in {"login", "password", "setup"}
      OBVIOUS
    <3>1. CASE o = t
      BY <3>1, <1>5, <2>3
    <3>2. CASE o # t
      BY <3>2, <1>3, <1>5 DEF TypeOK
    <3> QED
      BY <3>1, <3>2
  <2> QED
    BY <1>2, <1>3, <2>1, <2>2, <2>4 DEF TypeOK, Exists
<1>7. Salted'
  BY <1>1, <1>5 DEF Inv, Salted, Checked
<1>8. OwnerThere'
  BY <1>1, <1>2, <1>5 DEF Inv, OwnerThere, Checked, Exists
<1>9. CreateAlone'
  <2> SUFFICES ASSUME NEW c \in Threads, req'[c].kind = "create"
               PROVE  /\ ~Exists(req'[c].uid) /\ req'[c].uid \notin deleted
                      /\ \A o \in Threads \ {c} : req'[o] # Free => req'[o].uid # req'[c].uid
    BY <1>2 DEF CreateAlone, Exists
  <2>1. CASE c = t
    BY <2>1, <1>1, <1>5 DEF Checked
  <2>2. CASE c # t
    <3>1. /\ req'[c] = req[c] /\ ~Exists(req[c].uid) /\ req[c].uid \notin deleted
          /\ \A o \in Threads \ {c} : req[o] # Free => req[o].uid # req[c].uid
      BY <2>2, <1>5 DEF Inv, CreateAlone
    <3>2. req[c] # Free /\ req[c].uid \in Uids
      <4>1. req[c] \in Requests /\ req[c].kind = "create"
        BY <3>1, <1>3
      <4> QED
        BY <4>1, RequestFields
    <3>3. r.uid # req[c].uid
      <4>1. r.kind \in {"setup", "rename"} => r.uid = "owner"
        BY <1>1, RequestFields
      <4>2. r.kind = "create" => r.uid # req[c].uid
        BY <1>1, <3>2 DEF Checked
      <4>3. r.kind \in {"login", "password", "edit", "delete"} => Exists(r.uid)
        BY <1>1 DEF Checked
      <4> QED
        BY <1>1, <3>1, <3>2, <4>1, <4>2, <4>3, OwnerIsApart DEF Checked
    <3> QED
      BY <3>1, <3>3, <1>5
  <2> QED
    BY <2>1, <2>2
<1>10. DeletedStaysDeleted' /\ UserNamesDiffer'
  BY <1>2 DEF Inv, DeletedStaysDeleted, UserNamesDiffer, Exists
<1> QED
  BY <1>6, <1>7, <1>8, <1>9, <1>10 DEF Inv

\* Serving a request keeps the invariant.
LEMMA ServedKeeps ==
    ASSUME Inv, NEW t \in Threads, Served(t)
    PROVE  Inv'
<1> DEFINE u == req[t].uid
<1>1. TypeOK /\ req \in [Threads -> Requests] /\ account \in [Ids -> Records \cup {Nobody}]
      /\ pc \in [Threads -> {"idle", "rehashing", "opening", "setup", "writing"}]
  BY DEF Inv, TypeOK
<1>2. WrittenBy(t)
  BY <1>1, ServedWrites
<1>3. PICK new : account' = [account EXCEPT ![u] = new] /\ Rewritten(t, new)
  BY <1>2 DEF WrittenBy
<1>4. /\ req[t] # Free /\ u \in Ids /\ requests' = requests /\ req[t] \in Requests
      /\ sessions' \subseteq [uid: Ids, salt: Salts, shown: Passwords]
      /\ \/ deleted' = deleted
         \/ req[t].kind = "delete" /\ deleted' = deleted \cup {u} /\ account'[u] = Nobody
  BY <1>1, <1>2 DEF WrittenBy
<1>5. new \in Records \cup {Nobody} /\ (new \in Records => (new.old <=> new.salt = 0))
  BY <1>3, <1>4, NewRecord
<1>6. account'[u] = new /\ \A v \in Ids \ {u} : account'[v] = account[v]
  BY <1>1, <1>3, <1>4
<1>7. /\ \A o \in Threads \ {t} : req'[o] = req[o] /\ pc'[o] = pc[o]
      /\ \/ req'[t] = Free /\ pc'[t] = "idle"
         \/ req'[t] = req[t] /\ pc'[t] = "opening" /\ req[t].kind \in {"login", "password", "setup"}
      /\ req' \in [Threads -> Requests]
      /\ pc' \in [Threads -> {"idle", "rehashing", "opening", "setup", "writing"}]
  <2>1. Free \in Requests
    BY DEF Requests
  <2>2. CASE Done(t)
    BY <1>1, <2>1, <2>2 DEF Done
  <2>3. CASE GoOpen(t) /\ req[t].kind \in {"login", "password", "setup"}
    BY <1>1, <2>3 DEF GoOpen
  <2> QED
    BY <1>2, <2>2, <2>3 DEF WrittenBy
<1>8. TypeOK'
  <2>1. account' \in [Ids -> Records \cup {Nobody}]
    BY <1>1, <1>3, <1>4, <1>5
  <2>2. \A v \in Ids : account'[v] # Nobody => (account'[v].old <=> account'[v].salt = 0)
    BY <1>1, <1>5, <1>6 DEF TypeOK, Exists
  <2>3. deleted' \subseteq Uids
    BY <1>1, <1>4, RequestFields DEF TypeOK
  <2>4. \A o \in Threads :
          /\ (pc'[o] = "idle") = (req'[o] = Free)
          /\ pc'[o] = "setup" => req'[o].kind = "setup"
          /\ pc'[o] = "rehashing" => req'[o].kind = "login"
          /\ pc'[o] = "opening" => req'[o].kind \in {"login", "password", "setup"}
    <3> SUFFICES ASSUME NEW o \in Threads
                 PROVE  /\ (pc'[o] = "idle") = (req'[o] = Free)
                        /\ pc'[o] = "setup" => req'[o].kind = "setup"
                        /\ pc'[o] = "rehashing" => req'[o].kind = "login"
                        /\ pc'[o] = "opening" => req'[o].kind \in {"login", "password", "setup"}
      OBVIOUS
    <3>1. CASE o = t
      BY <3>1, <1>4, <1>7
    <3>2. CASE o # t
      BY <3>2, <1>1, <1>7 DEF TypeOK
    <3> QED
      BY <3>1, <3>2
  <2> QED
    BY <1>1, <1>4, <1>7, <2>1, <2>2, <2>3, <2>4 DEF TypeOK, Exists
<1>9. Salted'
  <2> SUFFICES ASSUME NEW o \in Threads
               PROVE  /\ req'[o].kind \in {"login", "password", "setup"} => req'[o].salt > 0
                      /\ req'[o].kind \in {"create", "edit"} => req'[o].rec.salt > 0
                      /\ req'[o].kind = "create" => ~req'[o].rec.old
    BY DEF Salted
  <2>1. req'[o] = req[o] \/ req'[o].kind = "none"
    BY <1>7 DEF Free
  <2> QED
    BY <2>1 DEF Inv, Salted
<1>10. OwnerThere'
  <2> SUFFICES ASSUME NEW o \in Threads, req'[o].kind = "rename" PROVE account'["owner"] # Nobody
    BY DEF OwnerThere, Exists
  <2>1. account["owner"] # Nobody
    <3>1. req'[o] = req[o] \/ req'[o].kind = "none"
      BY <1>7 DEF Free
    <3> QED
      BY <3>1 DEF Inv, OwnerThere, Exists
  <2>2. CASE u # "owner"
    BY <2>1, <2>2, <1>6, OwnerIsApart
  <2>3. CASE u = "owner"
    <3>1. req[t].kind \notin {"create", "edit", "delete"}
      BY <2>3, <1>4, RequestFields, OwnerIsApart
    <3>2. account[u] \in Records
      BY <2>1, <2>3, <1>1, OwnerIsApart
    <3>3. new # Nobody
      <4>1. CASE new = account[u]
        BY <4>1, <2>1, <2>3
      <4>2. CASE req[t].kind \in {"login", "password"} /\ new = Hashed(account[u], req[t].pw, req[t].salt)
        <5>1. "pw" \in DOMAIN new
          BY <4>2, <3>2 DEF Hashed, Records
        <5> QED
          BY <5>1 DEF Nobody
      <4>3. CASE new = FirstOwner(req[t])
        BY <4>3 DEF FirstOwner, Nobody
      <4>4. CASE new = [account[u] EXCEPT !.name = req[t].name]
        <5>1. "pw" \in DOMAIN new
          BY <4>4, <3>2 DEF Records
        <5> QED
          BY <5>1 DEF Nobody
      <4> QED
        BY <1>3, <3>1, <4>1, <4>2, <4>3, <4>4 DEF Rewritten
    <3> QED
      BY <3>3, <2>3, <1>6
  <2> QED
    BY <2>2, <2>3
<1>11. CreateAlone'
  <2> SUFFICES ASSUME NEW c \in Threads, req'[c].kind = "create"
               PROVE  /\ account'[req'[c].uid] = Nobody /\ req'[c].uid \notin deleted'
                      /\ \A o \in Threads \ {c} : req'[o] # Free => req'[o].uid # req'[c].uid
    BY DEF CreateAlone, Exists
  <2>1. c # t /\ req'[c] = req[c]
    BY <1>7 DEF Free
  <2>2. /\ account[req[c].uid] = Nobody /\ req[c].uid \notin deleted
        /\ \A o \in Threads \ {c} : req[o] # Free => req[o].uid # req[c].uid
    BY <2>1 DEF Inv, CreateAlone, Exists
  <2>3. u # req[c].uid /\ req[c].uid \in Ids
    <3>1. req[c] \in Requests /\ req[c].kind = "create"
      BY <1>1, <2>1
    <3>2. req[c].uid \in Uids
      BY <3>1, RequestFields
    <3> QED
      BY <3>2, <1>4, <2>1, <2>2, OwnerIsApart
  <2>4. \A o \in Threads \ {c} : req'[o] # Free => req[o] # Free /\ req'[o].uid = req[o].uid
    BY <1>4, <1>7
  <2> QED
    BY <2>1, <2>2, <2>3, <2>4, <1>4, <1>6
<1>12. DeletedStaysDeleted'
  <2> SUFFICES ASSUME NEW d \in deleted' PROVE account'[d] = Nobody
    BY DEF DeletedStaysDeleted, Exists
  <2>1. CASE d \notin deleted
    BY <2>1, <1>4
  <2>2. CASE d \in deleted
    <3>1. account[d] = Nobody /\ d \in Uids
      BY <2>2, <1>1 DEF Inv, DeletedStaysDeleted, Exists, TypeOK
    <3>2. CASE d # u
      BY <3>1, <3>2, <1>6, OwnerIsApart
    <3>3. CASE d = u
      <4>1. req[t].kind # "setup" /\ req[t].kind # "create"
        BY <3>1, <3>3, <2>2, <1>4, RequestFields, OwnerIsApart DEF Inv, CreateAlone
      <4>2. new = Nobody
        BY <4>1, <3>1, <3>3, <1>3, <1>4, WhoComesToBe DEF Exists
      <4> QED
        BY <4>2, <3>3, <1>6
    <3> QED
      BY <3>2, <3>3
  <2> QED
    BY <2>1, <2>2
<1>13. UserNamesDiffer'
  <2>1. \A v \in Uids : u \in Uids /\ new # Nobody /\ v # u /\ Exists(v) => new.name # account[v].name
    <3> SUFFICES ASSUME NEW v \in Uids, u \in Uids, new # Nobody, v # u, Exists(v)
                 PROVE  new.name # account[v].name
      OBVIOUS
    <3>1. v \in Ids /\ v # "none" /\ u # "owner"
      BY OwnerIsApart
    <3>2. Exists(u) => account[u].name # account[v].name
      BY DEF Inv, UserNamesDiffer
    <3>3. req[t].kind \notin {"setup", "rename"}
      BY <3>1, <1>4, RequestFields
    <3>4. CASE new = account[u]
      BY <3>2, <3>4 DEF Exists
    <3>5. CASE Exists(u) /\ new = Hashed(account[u], req[t].pw, req[t].salt)
      <4>1. account[u] \in Records
        BY <3>5, <1>1, <1>4, ExistingIsRecord
      <4>2. new.name = account[u].name
        BY <3>5, <4>1 DEF Hashed, Records
      <4> QED
        BY <4>2, <3>2, <3>5
    <3>6. CASE ~nameTaken(req[t].rec.name, "none") /\ new = req[t].rec
      BY <3>1, <3>6 DEF nameTaken
    <3>7. CASE /\ Exists(u) /\ new = Edited(account[u], req[t].fields, req[t].rec)
               /\ "name" \in req[t].fields => ~nameTaken(req[t].rec.name, u)
      <4>1. new.name = IF "name" \in req[t].fields THEN req[t].rec.name ELSE account[u].name
        BY <3>7 DEF Edited
      <4>2. ~nameTaken(req[t].rec.name, u) => req[t].rec.name # account[v].name
        BY <3>1 DEF nameTaken
      <4> QED
        BY <4>1, <4>2, <3>2, <3>7
    <3> QED
      BY <1>3, <3>3, <3>4, <3>5, <3>6, <3>7 DEF Rewritten
  <2> SUFFICES ASSUME NEW v \in Uids, NEW w \in Uids, account'[v] # Nobody, account'[w] # Nobody, v # w
               PROVE  account'[v].name # account'[w].name
    BY DEF UserNamesDiffer, Exists
  <2>2. v \in Ids /\ w \in Ids
    BY OwnerIsApart
  <2>3. CASE v = u
    BY <2>1, <2>2, <2>3, <1>6 DEF Exists
  <2>4. CASE w = u
    BY <2>1, <2>2, <2>4, <1>6 DEF Exists
  <2>5. CASE v # u /\ w # u
    BY <2>2, <2>5, <1>6 DEF Inv, UserNamesDiffer, Exists
  <2> QED
    BY <2>3, <2>4, <2>5
<1> QED
  BY <1>8, <1>9, <1>10, <1>11, <1>12, <1>13 DEF Inv

LEMMA StepInv == Inv /\ [Next]_vars => Inv'
<1> SUFFICES ASSUME Inv, [Next]_vars PROVE Inv'
  OBVIOUS
<1>1. ASSUME NEW t \in Threads, Served(t) PROVE Inv'
  BY <1>1, ServedKeeps
<1>2. ASSUME NEW t \in Threads, requests < MaxRequests, Requested(t) PROVE Inv'
  BY <1>2, RequestedChecked, AcceptKeeps DEF Inv
<1>3. CASE UNCHANGED vars
  BY <1>3 DEF vars, Inv, TypeOK, Salted, OwnerThere, CreateAlone, DeletedStaysDeleted, UserNamesDiffer, Exists
<1> QED
  BY <1>1, <1>2, <1>3 DEF Next

-----------------------------------------------------------------------------
(* The variables keep their types, and every hash of today has a salt that *)
(* was drawn for it.                                                       *)
THEOREM TypeCorrect == Spec => []TypeOK
<1>1. Inv => TypeOK
  BY DEF Inv
<1> QED
  BY InitInv, StepInv, <1>1, PTL DEF Spec

(* However requests to create and rename accounts mix, no two accounts     *)
(* other than the owner's have the same name: the check made under cfgMu is*)
(* enough.                                                                 *)
THEOREM NamesDiffer == Spec => []UserNamesDiffer
<1>1. Inv => UserNamesDiffer
  BY DEF Inv
<1> QED
  BY InitInv, StepInv, <1>1, PTL DEF Spec

(* No sign-in, edit or password change that was under way brings a deleted *)
(* account back.                                                           *)
THEOREM NoAccountComesBack == Spec => []DeletedStaysDeleted
<1>1. Inv => DeletedStaysDeleted
  BY DEF Inv
<1> QED
  BY InitInv, StepInv, <1>1, PTL DEF Spec

\* A handler that works goes on or ends.
LEMMA ServedMoves ==
    ASSUME TypeOK, NEW t \in Threads, Served(t)
    PROVE  Steps(t)
<1>1. pc \in [Threads -> {"idle", "rehashing", "opening", "setup", "writing"}]
  BY DEF TypeOK
<1>2. Done(t) => pc'[t] = "idle"
  BY <1>1 DEF Done
<1>3. GoOpen(t) => pc'[t] = "opening"
  BY <1>1 DEF GoOpen
<1> QED
  BY <1>2, <1>3 DEF Steps, Served, Rehash, StartSession, SetupWrites, SetupRefused, WritesPassword,
     WritesRename, WritesAccount, WritesEdit, WritesDeletion, WriteRefused

(* The password of an account changes only by a request on that account    *)
(* that asked for it.                                                      *)
THEOREM PasswordsAreAskedFor == Spec => PasswordsChangeOnRequest
<1> DEFINE Asked(u) ==
          Exists(u) /\ Exists(u)' /\ account'[u].pw # account[u].pw =>
          \E t \in Threads :
             /\ Steps(t) /\ req[t].uid = u
             /\ \/ req[t].kind \in {"login", "password"} /\ account'[u].pw = req[t].pw
                \/ req[t].kind = "edit" /\ "pw" \in req[t].fields
<1>1. ASSUME Inv, [Next]_vars, NEW u \in Ids PROVE Asked(u)
  <2> SUFFICES ASSUME Exists(u), account'[u] # Nobody, account'[u].pw # account[u].pw PROVE Asked(u)
    BY DEF Exists
  <2>1. PICK t \in Threads : Served(t) \/ Requested(t)
    BY <1>1 DEF Next, vars
  <2>2. CASE ~Served(t)
    <3>1. Accepts(t)
      BY <1>1, <2>1, <2>2, RequestedChecked DEF Inv, Next, Requested, OwnerRename, Setup, OwnerPassword,
         Login, ChangePassword, Manages, Delete, Create, Edit, Accept
    <3> QED
      BY <3>1 DEF Accepts, Accept
  <2>3. CASE Served(t)
    <3>1. WrittenBy(t) /\ Steps(t) /\ req[t] \in Requests /\ account \in [Ids -> Records \cup {Nobody}]
      BY <1>1, <2>3, ServedWrites, ServedMoves DEF Inv, TypeOK
    <3>2. PICK new : account' = [account EXCEPT ![req[t].uid] = new] /\ Rewritten(t, new)
      BY <3>1 DEF WrittenBy
    <3>3. req[t].uid = u /\ account'[u] = new
      BY <3>1, <3>2
    <3>4. account[u] \in Records
      BY <1>1, ExistingIsRecord DEF Inv
    <3>5. req[t].kind # "create"
      BY <1>1, <3>3 DEF Inv, CreateAlone
    <3>6. CASE req[t].kind \in {"login", "password"} /\ new = Hashed(account[u], req[t].pw, req[t].salt)
      <4>1. new.pw = req[t].pw
        BY <3>4, <3>6 DEF Hashed, Records
      <4> QED
        BY <4>1, <3>1, <3>3, <3>6
    <3>7. CASE new = [account[u] EXCEPT !.name = req[t].name]
      BY <3>3, <3>4, <3>7 DEF Records
    <3>8. CASE req[t].kind = "edit" /\ new = Edited(account[u], req[t].fields, req[t].rec)
      <4>1. "pw" \in req[t].fields
        BY <3>3, <3>8 DEF Edited
      <4> QED
        BY <4>1, <3>1, <3>3, <3>8
    <3> QED
      BY <3>2, <3>3, <3>5, <3>6, <3>7, <3>8 DEF Rewritten
  <2> QED
    BY <2>2, <2>3
<1>2. Inv /\ [Next]_vars => [\A u \in Ids : Asked(u)]_vars
  BY <1>1
<1> QED
  BY InitInv, StepInv, <1>2, PTL DEF Spec, PasswordsChangeOnRequest

\* A handler that works gives no right below the owner that was not on its way there.
LEMMA ServedGivesNoNewRight ==
    ASSUME Inv, NEW t \in Threads, Served(t), NEW p \in Perms, HeldBelow(p)'
    PROVE  HeldBelow(p)
<1> DEFINE u == req[t].uid
           r == req[t]
<1>1. /\ WrittenBy(t) /\ r \in Requests /\ account \in [Ids -> Records \cup {Nobody}]
      /\ req \in [Threads -> Requests] /\ pc \in [Threads -> {"idle", "rehashing", "opening", "setup", "writing"}]
  BY ServedWrites DEF Inv, TypeOK
<1>2. PICK new : account' = [account EXCEPT ![u] = new] /\ Rewritten(t, new)
  BY <1>1 DEF WrittenBy
<1>3. r # Free /\ u \in Ids /\ account'[u] = new /\ \A v \in Ids \ {u} : account'[v] = account[v]
  BY <1>1, <1>2 DEF WrittenBy
<1>4. ASSUME NEW o \in Threads, req'[o].kind \in {"create", "edit"}, p \in req'[o].rec.perms PROVE HeldBelow(p)
  <2>1. req'[o] = req[o] \/ req'[o] = Free
    BY <1>1 DEF WrittenBy, Done, GoOpen
  <2> QED
    BY <2>1, <1>4 DEF HeldBelow, Free
<1>5. ASSUME NEW v \in Uids, account'[v] # Nobody, p \in account'[v].perms PROVE HeldBelow(p)
  <2>1. v \in Ids /\ v # "owner"
    BY OwnerIsApart
  <2>2. CASE v # u
    BY <2>1, <2>2, <1>3, <1>5 DEF HeldBelow, Exists
  <2>3. CASE v = u
    <3>1. new # Nobody /\ p \in new.perms /\ u \in Uids /\ r.kind \notin {"setup", "rename"}
      BY <2>1, <2>3, <1>1, <1>3, <1>5, RequestFields
    <3>2. CASE new = account[u]
      BY <3>1, <3>2 DEF HeldBelow, Exists
    <3>3. CASE Exists(u) /\ new = Hashed(account[u], r.pw, r.salt)
      <4>1. account[u] \in Records
        BY <3>3, <1>3, ExistingIsRecord DEF Inv
      <4>2. new.perms = account[u].perms
        BY <3>3, <4>1 DEF Hashed, Records
      <4> QED
        BY <3>1, <3>3, <4>2 DEF HeldBelow
    <3>4. CASE r.kind = "create" /\ new = r.rec
      BY <3>1, <3>4 DEF HeldBelow
    <3>5. CASE r.kind = "edit" /\ new = Edited(account[u], r.fields, r.rec)
      <4>1. new.perms = r.rec.perms
        BY <3>5 DEF Edited
      <4> QED
        BY <3>1, <3>5, <4>1 DEF HeldBelow
    <3> QED
      BY <1>2, <3>1, <3>2, <3>3, <3>4, <3>5 DEF Rewritten
  <2> QED
    BY <2>2, <2>3
<1> QED
  BY <1>4, <1>5 DEF HeldBelow, Exists

(* A right nobody below the owner has comes there by a request of the      *)
(* owner, whatever account managers ask for and however it mixes.          *)
THEOREM NoRightFromNowhere == Spec => RightsComeFromAbove
<1> DEFINE Explained(p) ==
          HeldBelow(p)' /\ ~HeldBelow(p) =>
          \E t \in Threads : Steps(t) /\ req'[t].kind \in {"create", "edit"} /\ req'[t].by = "owner"
<1>1. ASSUME Inv, [Next]_vars, NEW p \in Perms PROVE Explained(p)
  <2> SUFFICES ASSUME HeldBelow(p)', ~HeldBelow(p) PROVE Explained(p)
    OBVIOUS
  <2>0. ~UNCHANGED vars
    BY DEF vars, HeldBelow, Exists
  <2>1. PICK t \in Threads : Served(t) \/ (requests < MaxRequests /\ Requested(t))
    BY <1>1, <2>0 DEF Next
  <2>2. ~Served(t)
    BY <1>1, ServedGivesNoNewRight
  <2>3. Accepts(t)
    BY <1>1, <2>1, <2>2, RequestedChecked DEF Inv
  <2>4. PICK l \in {"rehashing", "opening", "setup", "writing"}, r \in Requests : Checked(l, r) /\ Accept(t, l, r)
    BY <2>3 DEF Accepts
  <2>5. /\ pc[t] = "idle" /\ pc'[t] = l /\ req'[t] = r /\ account' = account
        /\ \A o \in Threads \ {t} : req'[o] = req[o]
    BY <1>1, <2>4 DEF Accept, Inv, TypeOK
  <2>6. r.kind \in {"create", "edit"} /\ p \in r.rec.perms
    BY <2>5 DEF HeldBelow, Exists
  <2>7. Exists(r.by) /\ p \in account[r.by].perms /\ r.by \in Ids
    BY <2>4, <2>6, RequestFields DEF Checked
  <2>8. r.by = "owner"
    BY <2>7 DEF HeldBelow, Ids
  <2> QED
    BY <2>5, <2>6, <2>8 DEF Steps
<1>2. Inv /\ [Next]_vars => [\A p \in Perms : Explained(p)]_vars
  BY <1>1
<1> QED
  BY InitInv, StepInv, <1>2, PTL DEF Spec, RightsComeFromAbove
=============================================================================
