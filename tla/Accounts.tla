------------------------------ MODULE Accounts ------------------------------
(***************************************************************************)
(* Accounts, passwords and sessions (src/panel/auth.go, users.go and the   *)
(* owner's credentials in routes.go).  Accounts live in the configuration, *)
(* which is replaced as a whole under cfgMu; a session is a signed cookie  *)
(* that names an account and carries a fingerprint of its password hash,   *)
(* so a cookie once given can be shown again at any time.                  *)
(*                                                                         *)
(* A handler checks a request on the accounts it reads when it begins, and *)
(* writes later, under cfgMu: one action for the checks, one for the write,*)
(* and one for the session a sign-in or a password change opens at the     *)
(* end.  Checks that refuse a request change nothing and are left out.     *)
(*                                                                         *)
(* Abstracted: a hash is its password and its salt, a permission set any   *)
(* subset of Perms; roles, instances, passkeys and OpenID Connect are not  *)
(* here, nor are CSRF tokens and the limit of attempts.                    *)
(***************************************************************************)
EXTENDS Naturals, FiniteSets

CONSTANTS
    Uids,          \* identifiers (tokenHex) of the accounts other than the owner's
    Names,         \* user names, up to case
    Passwords,
    Perms,         \* permissions, Manage among them
    Manage,        \* "users.manage"
    Threads,       \* goroutines that serve a request
    MaxRequests    \* bound: requests accepted

ASSUME AccountsAssumption ==
    /\ Manage \in Perms /\ MaxRequests \in Nat
    /\ {"owner", "none"} \cap Uids = {}

VARIABLES
    account,    \* per identifier: its record in the configuration, or Nobody
    sessions,   \* cookies given out: account, fingerprint, and the password shown for it
    pc, req,    \* where a handler is, and what it has kept of its checks
    deleted,    \* identifiers whose account was deleted
    requests    \* requests accepted; also the last salt drawn

vars == <<account, sessions, pc, req, deleted, requests>>

Ids == Uids \cup {"owner"}
Salts == 0..MaxRequests + 1
Nobody == [name |-> "none"]
Records == [name: Names, pw: Passwords, salt: Salts, old: BOOLEAN, enabled: BOOLEAN,
            perms: SUBSET Perms]
Exists(u) == account[u] # Nobody

\* What a handler keeps: its kind, the account it is about, a password, and the record
\* it wants (for an edit: the fields it read or was given).
Free == [kind |-> "none"]

\* Before the first configuration there is no password, and no account at all.
needsSetup == ~Exists("owner")

\* Accounts and sessions left by an earlier version of the panel, with its hashes.
\* (Accounts with a hash of today, or disabled, are reached by sign-ins and edits.)
Init ==
    /\ account \in [Ids -> {Nobody} \cup {r \in Records : r.salt = 0 /\ r.old /\ r.enabled}]
    /\ \A u \in Uids : Exists(u) => Exists("owner")
    /\ Exists("owner") => account["owner"].perms = Perms
    /\ \A u, v \in Ids : Exists(u) /\ Exists(v) /\ u # v => account[u].name # account[v].name
    /\ sessions = {[uid |-> u, salt |-> 0, shown |-> account[u].pw] : u \in {v \in Ids : Exists(v)}}
    /\ pc = [t \in Threads |-> "idle"] /\ req = [t \in Threads |-> Free]
    /\ deleted = {} /\ requests = 0

-----------------------------------------------------------------------------
\* currentUser: the account of a cookie, if the cookie still opens it.
Opens(s, u) ==
    /\ s.uid = u /\ Exists(u)
    /\ account[u].enabled /\ s.salt = account[u].salt
SignedIn(u) == \E s \in sessions : Opens(s, u)

nameTaken(n, except) == \E u \in Ids \ {except} : Exists(u) /\ account[u].name = n

\* A request is accepted: its handler goes on at l with r.
Accept(t, l, r) ==
    /\ pc[t] = "idle" /\ requests < MaxRequests
    /\ requests' = requests + 1
    /\ pc' = [pc EXCEPT ![t] = l]
    /\ req' = [req EXCEPT ![t] = r]
    /\ UNCHANGED <<account, sessions, deleted>>

Done(t) ==
    /\ pc' = [pc EXCEPT ![t] = "idle"]
    /\ req' = [req EXCEPT ![t] = Free]

GoOpen(t) == pc' = [pc EXCEPT ![t] = "opening"] /\ UNCHANGED req

\* (Variant: a hash without a salt of its own, as the first panels had.)
HashedUnsalted(r, p, salt) == [r EXCEPT !.pw = p, !.old = FALSE]

\* hashPassword: a salt nobody has (the request's own number).
Hashed(r, p, salt) == [r EXCEPT !.pw = p, !.salt = salt, !.old = FALSE]

-----------------------------------------------------------------------------
(* Sign-in and the first configuration.                                    *)

\* POST /api/login, the password is right.
Login(t, u, p) ==
    /\ Exists(u) /\ account[u].enabled /\ account[u].pw = p
    /\ Accept(t, IF account[u].old THEN "rehashing" ELSE "opening",
              [kind |-> "login", uid |-> u, pw |-> p, salt |-> requests + 1])

\* (Variant: the record is made again if it is gone.)
setPasswordHashOrCreate(u, p, salt) ==
    account' = [account EXCEPT ![u] =
        IF Exists(u) THEN Hashed(@, p, salt)
        ELSE [name |-> CHOOSE n \in Names : TRUE, pw |-> p, salt |-> salt, old |-> FALSE,
              enabled |-> TRUE, perms |-> {}]]

\* setPasswordHash, under cfgMu: an account that is gone stays gone.
setPasswordHash(u, p, salt) ==
    account' = [account EXCEPT ![u] = IF Exists(u) THEN Hashed(@, p, salt) ELSE @]

\* An old hash is replaced; if it cannot be saved the sign-in goes on.
Rehash(t) ==
    /\ pc[t] = "rehashing"
    /\ \/ setPasswordHash(req[t].uid, req[t].pw, req[t].salt)
       \/ UNCHANGED account
    /\ GoOpen(t)
    /\ UNCHANGED <<sessions, deleted, requests>>

\* startSession: the fingerprint of the hash the account has now.  (Of an account that
\* is gone it opens nothing: identifiers are not used again.)
StartSession(t) ==
    LET u == req[t].uid IN
    /\ pc[t] = "opening"
    /\ sessions' = IF Exists(u)
                   THEN sessions \cup {[uid |-> u, salt |-> account[u].salt, shown |-> req[t].pw]}
                   ELSE sessions
    /\ Done(t)
    /\ UNCHANGED <<account, deleted, requests>>

\* POST /api/setup is served as long as there is no password ...
Setup(t, n, p) ==
    /\ needsSetup
    /\ Accept(t, "setup", [kind |-> "setup", uid |-> "owner", pw |-> p, name |-> n,
                           salt |-> requests + 1])

FirstOwner(r) == [name |-> r.name, pw |-> r.pw, salt |-> r.salt, old |-> FALSE,
                  enabled |-> TRUE, perms |-> Perms]

\* (Variant: needsSetup is not asked again under setupMu.)
SetupWritesAnyway(t) ==
    /\ pc[t] = "setup"
    /\ account' = [account EXCEPT !["owner"] = FirstOwner(req[t])]
    /\ GoOpen(t)
    /\ UNCHANGED <<sessions, deleted, requests>>

\* ... which is asked again under setupMu.
SetupWrites(t) ==
    /\ pc[t] = "setup" /\ needsSetup
    /\ account' = [account EXCEPT !["owner"] = FirstOwner(req[t])]
    /\ GoOpen(t)
    /\ UNCHANGED <<sessions, deleted, requests>>

SetupRefused(t) ==
    /\ pc[t] = "setup" /\ ~needsSetup
    /\ Done(t)
    /\ UNCHANGED <<account, sessions, deleted, requests>>

-----------------------------------------------------------------------------
(* Password changes and account management: the checks.                    *)

\* POST /api/me/password: the current password is asked again.
ChangePassword(t, u, p, new) ==
    /\ SignedIn(u) /\ account[u].pw = p
    /\ Accept(t, "writing", [kind |-> "password", uid |-> u, pw |-> new, salt |-> requests + 1])

\* POST /api/manager/config by the owner: a name that is free now, or a new password (one
\* request may give both: here it is two).
OwnerRename(t, n) ==
    /\ SignedIn("owner") /\ ~nameTaken(n, "owner")
    /\ Accept(t, "writing", [kind |-> "rename", uid |-> "owner", name |-> n])

OwnerPassword(t, p) ==
    /\ SignedIn("owner")
    /\ Accept(t, "writing", [kind |-> "password", uid |-> "owner", pw |-> p, salt |-> requests + 1])

\* An account manager is signed in.
Manager(a) == SignedIn(a) /\ Manage \in account[a].perms

\* grantProblem: no right is given, and no account touched, beyond one's own rights.
grantProblem(a, perms) == ~(perms \subseteq account[a].perms)

\* (Variant: the rights that are given are not looked at.)
CreateUnchecked(t, a, u, r) ==
    /\ Manager(a)
    /\ ~Exists(u) /\ u \notin deleted /\ \A o \in Threads : req[o] # Free => req[o].uid # u
    /\ Accept(t, "writing", [kind |-> "create", by |-> a, uid |-> u, rec |-> [r EXCEPT !.salt = requests + 1]])

\* POST /api/users, with an identifier nobody has had.
Create(t, a, u, r) ==
    /\ Manager(a) /\ ~grantProblem(a, r.perms)
    /\ ~Exists(u) /\ u \notin deleted /\ \A o \in Threads : req[o] # Free => req[o].uid # u
    /\ Accept(t, "writing", [kind |-> "create", by |-> a, uid |-> u, rec |-> [r EXCEPT !.salt = requests + 1]])

\* managedTarget, and the rights of the target.
MayManage(a, u) ==
    /\ Manager(a) /\ u # "owner" /\ u # a /\ Exists(u)
    /\ ~grantProblem(a, account[u].perms)

\* PUT /api/users/{uid}: every request writes the rights again, those it was given or
\* those of the record it has read.
Edit(t, a, u, fields, r) ==
    /\ MayManage(a, u)
    /\ \A f \in {"name", "pw", "enabled", "perms"} \ fields : r[f] = account[u][f]
    /\ ~grantProblem(a, r.perms)
    /\ Accept(t, "writing", [kind |-> "edit", by |-> a, uid |-> u, fields |-> fields \cup {"perms"},
                             rec |-> [r EXCEPT !.salt = requests + 1]])

Delete(t, a, u) ==
    /\ MayManage(a, u)
    /\ Accept(t, "writing", [kind |-> "delete", by |-> a, uid |-> u])

-----------------------------------------------------------------------------
(* The writes, each under cfgMu.                                           *)

WritesPassword(t) ==
    /\ pc[t] = "writing" /\ req[t].kind = "password"
    /\ setPasswordHash(req[t].uid, req[t].pw, req[t].salt)
    /\ GoOpen(t)
    /\ UNCHANGED <<sessions, deleted, requests>>

\* The name was checked before cfgMu was taken.
WritesRename(t) ==
    /\ pc[t] = "writing" /\ req[t].kind = "rename"
    /\ account' = [account EXCEPT !["owner"].name = req[t].name]
    /\ Done(t)
    /\ UNCHANGED <<sessions, deleted, requests>>

\* (Variant: the name was checked before cfgMu was taken.)
WritesAccountUnchecked(t) ==
    /\ pc[t] = "writing" /\ req[t].kind = "create"
    /\ account' = [account EXCEPT ![req[t].uid] = req[t].rec]
    /\ Done(t)
    /\ UNCHANGED <<sessions, deleted, requests>>

WritesAccount(t) ==
    /\ pc[t] = "writing" /\ req[t].kind = "create"
    /\ ~nameTaken(req[t].rec.name, "none")
    /\ account' = [account EXCEPT ![req[t].uid] = req[t].rec]
    /\ Done(t)
    /\ UNCHANGED <<sessions, deleted, requests>>

\* The fields of the edit, put into a record.
Edited(r, fields, by) ==
    [name |-> IF "name" \in fields THEN by.name ELSE r.name,
     pw |-> IF "pw" \in fields THEN by.pw ELSE r.pw,
     salt |-> IF "pw" \in fields THEN by.salt ELSE r.salt,
     old |-> IF "pw" \in fields THEN FALSE ELSE r.old,
     enabled |-> IF "enabled" \in fields THEN by.enabled ELSE r.enabled,
     perms |-> by.perms]

WritesEdit(t) ==
    LET u == req[t].uid IN
    /\ pc[t] = "writing" /\ req[t].kind = "edit"
    /\ "name" \in req[t].fields => ~nameTaken(req[t].rec.name, u)
    /\ account' = [account EXCEPT ![u] =
          IF Exists(u) THEN Edited(@, req[t].fields, req[t].rec) ELSE @]
    /\ Done(t)
    /\ UNCHANGED <<sessions, deleted, requests>>

WritesDeletion(t) ==
    /\ pc[t] = "writing" /\ req[t].kind = "delete"
    /\ account' = [account EXCEPT ![req[t].uid] = Nobody]
    /\ deleted' = deleted \cup {req[t].uid}
    /\ Done(t)
    /\ UNCHANGED <<sessions, requests>>

\* The configuration cannot be written, or the name is taken: an error, no change.
WriteRefused(t) ==
    /\ pc[t] \in {"writing", "setup"}
    /\ Done(t)
    /\ UNCHANGED <<account, sessions, deleted, requests>>

-----------------------------------------------------------------------------
\* Bound: an edit gives one field; the rights are written with it in any case.
Fields == {{"name"}, {"pw"}, {"enabled"}, {"perms"}}

\* The record a request gives.
Given == {r \in Records : r.salt = 0 /\ ~r.old}

\* The requests of an account manager.
Manages(t, a, u) ==
    /\ Manager(a)
    /\ \/ Delete(t, a, u)
       \/ \E r \in Given : r.enabled /\ Create(t, a, u, r)
       \/ MayManage(a, u) /\ \E r \in Given, f \in Fields : Edit(t, a, u, f, r)

Requested(t) ==
    \/ \E n \in Names : OwnerRename(t, n) \/ \E p \in Passwords : Setup(t, n, p)
    \/ \E p \in Passwords : OwnerPassword(t, p)
    \/ \E u \in Ids, p \in Passwords :
          Login(t, u, p) \/ \E new \in Passwords : ChangePassword(t, u, p, new)
    \/ \E a \in Ids, u \in Uids : Manages(t, a, u)

Served(t) ==
    \/ Rehash(t) \/ StartSession(t)
    \/ SetupWrites(t) \/ SetupRefused(t)
    \/ WritesPassword(t) \/ WritesRename(t) \/ WritesAccount(t)
    \/ WritesEdit(t) \/ WritesDeletion(t) \/ WriteRefused(t)

Next == \E t \in Threads :
    \/ Served(t)
    \/ pc[t] = "idle" /\ requests < MaxRequests /\ Requested(t)

Spec == Init /\ [][Next]_vars

-----------------------------------------------------------------------------
(* What must hold.                                                         *)

Requests ==
    {Free} \cup [kind: {"login", "password"}, uid: Ids, pw: Passwords, salt: Salts]
    \cup [kind: {"setup"}, uid: {"owner"}, pw: Passwords, name: Names, salt: Salts]
    \cup [kind: {"rename"}, uid: {"owner"}, name: Names]
    \cup [kind: {"create"}, by: Ids, uid: Uids, rec: Records]
    \cup [kind: {"edit"}, by: Ids, uid: Uids, fields: SUBSET {"name", "pw", "enabled", "perms"},
          rec: Records]
    \cup [kind: {"delete"}, by: Ids, uid: Uids]

\* Types, what a handler keeps at each place, and that a hash of today has a salt that was
\* drawn for it.
TypeOK ==
    /\ account \in [Ids -> Records \cup {Nobody}]
    /\ sessions \subseteq [uid: Ids, salt: Salts, shown: Passwords]
    /\ pc \in [Threads -> {"idle", "rehashing", "opening", "setup", "writing"}]
    /\ req \in [Threads -> Requests]
    /\ \A t \in Threads :
          /\ (pc[t] = "idle") = (req[t] = Free)
          /\ pc[t] = "setup" => req[t].kind = "setup"
          /\ pc[t] = "rehashing" => req[t].kind = "login"
          /\ pc[t] = "opening" => req[t].kind \in {"login", "password", "setup"}
    /\ \A u \in Ids : Exists(u) => (account[u].old <=> account[u].salt = 0)
    /\ deleted \subseteq Uids
    /\ requests \in 0..MaxRequests

\* Two accounts other than the owner's never have the same user name, whatever requests
\* create and rename accounts at once (nameTaken is asked again under cfgMu).
UserNamesDiffer ==
    \A u, v \in Uids : Exists(u) /\ Exists(v) /\ u # v => account[u].name # account[v].name

\* An account that was deleted does not come back, though sign-ins and edits that began
\* before the deletion are still to write (setPasswordHash, the patch of PUT).
DeletedStaysDeleted == \A u \in deleted : ~Exists(u)

\* Thread t has made the step.
Steps(t) == pc'[t] # pc[t]

\* The password of an account that exists changes only by a request on that account, with
\* the password it asked for: the first configuration does not give it (setupMu), and an
\* edit of another field does not put one back.
PasswordsChangeOnRequest ==
    [][\A u \in Ids : Exists(u) /\ Exists(u)' /\ account'[u].pw # account[u].pw =>
          \E t \in Threads :
             /\ Steps(t) /\ req[t].uid = u
             /\ \/ req[t].kind \in {"login", "password"} /\ account'[u].pw = req[t].pw
                \/ req[t].kind = "edit" /\ "pw" \in req[t].fields]_vars

\* Right p is held below the owner, or a request that gives it is under way.
HeldBelow(p) ==
    \/ \E u \in Uids : Exists(u) /\ p \in account[u].perms
    \/ \E t \in Threads : req[t].kind \in {"create", "edit"} /\ p \in req[t].rec.perms

\* A right nobody below the owner has comes from the owner: account managers, however
\* their requests mix and whatever they read before others wrote, pass on no right they
\* were not given (grantProblem).
RightsComeFromAbove ==
    [][\A p \in Perms : HeldBelow(p)' /\ ~HeldBelow(p) =>
          \E t \in Threads : Steps(t) /\ req'[t].kind \in {"create", "edit"} /\ req'[t].by = "owner"]_vars

\* "Password changed" (users.go): the password somebody has changed is not put back by a
\* sign-in, whose rehash is about the hash and not about the password.
RehashKeepsThePassword ==
    [][\A t \in Threads, u \in Ids :
          pc[t] = "rehashing" /\ Steps(t) /\ Exists(u) /\ Exists(u)'
             => account'[u].pw = account[u].pw]_vars
=============================================================================
