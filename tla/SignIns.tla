------------------------------ MODULE SignIns ------------------------------
(***************************************************************************)
(* Sign-ins by passkey and by OpenID Connect (src/panel/passkeys.go,       *)
(* oidc.go, and the accounts of users.go and auth.go they rest on).  A     *)
(* passkey belongs to an account with a password; an account of OpenID     *)
(* Connect is made ready for an e-mail, or made at the first sign-in, and  *)
(* is linked to an identity: an issuer and a subject.                      *)
(*                                                                         *)
(* As in Accounts, a handler checks a request on the accounts it reads     *)
(* when it begins and writes later, under cfgMu: one action for the checks,*)
(* one for the write, one for the session opened at the end.  Refusals     *)
(* that change nothing are left out.                                       *)
(*                                                                         *)
(* Abstracted: challenges, signatures and the exchange with the provider   *)
(* are what they establish; passwords, names, roles and instances are not  *)
(* here, nor is the limit of attempts.                                     *)
(***************************************************************************)
EXTENDS Naturals, FiniteSets

CONSTANTS
    Members,        \* identifiers (tokenHex) of the accounts other than the owner's
    PasskeyIds,
    Countless,      \* the passkeys whose device keeps no counter: it sends 0
    Issuers, Subjects, Emails,
    Handlers,       \* goroutines that serve a request
    MaxServed,      \* bound: requests accepted
    MaxSigned,      \* bound: signatures of a passkey
    usersMax, passkeysMax

NoPasskey == "no passkey"
NoEmail == "no e-mail"
NoIdentity == <<>>
Identities == Issuers \X Subjects

ASSUME SignInsAssumption ==
    /\ IsFiniteSet(Members) /\ "owner" \notin Members
    /\ NoPasskey \notin PasskeyIds /\ Countless \subseteq PasskeyIds
    /\ NoEmail \notin Emails
    /\ {MaxServed, MaxSigned, usersMax, passkeysMax} \subseteq Nat

VARIABLES
    holder,      \* per identifier: its record in the configuration, or NoHolder
    cookies,     \* sessions given out: the passkey named, the identity of the fingerprint;
                 \* ghost: the identity that was shown
    doing, asks, \* where a handler is, and what it has kept of its checks
    device,      \* per passkey: the counter of its device
    assertions,  \* answers of devices that may still be posted
    provider,    \* the settings of OpenID Connect
    removals,    \* identifiers whose account was deleted
    served       \* requests accepted

signInVars == <<holder, cookies, doing, asks, device, assertions, provider, removals, served>>

Holders == Members \cup {"owner"}
SignCounts == 0..MaxSigned
NoHolder == [source |-> "none"]
NoRequest == [kind |-> "none"]
HolderRecords ==
    [source: {"local", "oidc"}, enabled: BOOLEAN, passkeys: SUBSET [id: PasskeyIds, count: SignCounts],
     email: Emails \cup {NoEmail}, who: Identities \cup {NoIdentity}]
Settings == [enabled: BOOLEAN, issuer: Issuers, auto_create: BOOLEAN]

LocalHolder(keys) ==
    [source |-> "local", enabled |-> TRUE, passkeys |-> keys, email |-> NoEmail, who |-> NoIdentity]
OidcHolder(email) ==
    [source |-> "oidc", enabled |-> TRUE, passkeys |-> {}, email |-> email, who |-> NoIdentity]

Held(u) == holder[u] # NoHolder
IsLocal(u) == Held(u) /\ holder[u].source = "local"
IsOidc(u) == Held(u) /\ holder[u].source = "oidc"
OthersHeld == {u \in Members : Held(u)}
passkeyByID(u, k) == IF Held(u) THEN {p \in holder[u].passkeys : p.id = k} ELSE {}

\* An identifier nobody has had.
Fresh(u) == ~Held(u) /\ u \notin removals

PasswordCookie(u) == [uid |-> u, pk |-> NoPasskey, who |-> NoIdentity, shown |-> NoIdentity]

\* Accounts with a password and none or one passkey, each its own; accounts of OpenID
\* Connect nobody has signed in to.
SignInsInit ==
    /\ holder \in [Holders -> {NoHolder} \cup {LocalHolder(keys) : keys \in {{}} \cup {{[id |-> k, count |-> 0]} : k \in PasskeyIds}}
                                         \cup {OidcHolder(e) : e \in Emails}]
    /\ IsLocal("owner") /\ Cardinality(OthersHeld) <= usersMax
    /\ \A u \in Holders : Held(u) => Cardinality(holder[u].passkeys) <= passkeysMax
    /\ \A u, v \in Holders : u # v /\ IsLocal(u) /\ IsLocal(v) => holder[u].passkeys \cap holder[v].passkeys = {}
    /\ \A u, v \in Holders : u # v /\ IsOidc(u) /\ IsOidc(v) => holder[u].email # holder[v].email
    /\ cookies = {PasswordCookie(u) : u \in {v \in Holders : IsLocal(v)}}
    /\ doing = [t \in Handlers |-> "idle"] /\ asks = [t \in Handlers |-> NoRequest]
    /\ device = [k \in PasskeyIds |-> 0] /\ assertions = {}
    /\ provider \in {s \in Settings : s.enabled}
    /\ removals = {} /\ served = 0

-----------------------------------------------------------------------------
\* currentUser: the account is there and enabled, the fingerprint is the one of its
\* identity, and the passkey the session was opened with is still on it.
CookieOpens(s, u) ==
    /\ s.uid = u /\ Held(u) /\ holder[u].enabled
    /\ s.who = holder[u].who
    /\ s.pk = NoPasskey \/ passkeyByID(u, s.pk) # {}
HasSession(u) == \E s \in cookies : CookieOpens(s, u)

\* A request is accepted: its handler goes on at step with r.
Takes(t, step, r) ==
    /\ doing[t] = "idle" /\ served < MaxServed
    /\ served' = served + 1
    /\ doing' = [doing EXCEPT ![t] = step]
    /\ asks' = [asks EXCEPT ![t] = r]

Answers(t) ==
    /\ doing' = [doing EXCEPT ![t] = "idle"]
    /\ asks' = [asks EXCEPT ![t] = NoRequest]

\* (Variant: the passkeys of an account that is gone make a record.)
PasskeysUpdateOrCreate(u, keys) ==
    holder' = [holder EXCEPT ![u] =
        IF Held(u) THEN [@ EXCEPT !.passkeys = keys] ELSE [source |-> "local", passkeys |-> keys]]

\* passkeysUpdateLocked: the passkeys of an account that is still there.
PasskeysUpdate(u, keys) ==
    holder' = [holder EXCEPT ![u] = IF Held(u) THEN [@ EXCEPT !.passkeys = keys] ELSE @]

PasskeysOf(u) == IF Held(u) THEN holder[u].passkeys ELSE {}

-----------------------------------------------------------------------------
(* The passkeys of one's own account.                                      *)

\* POST /api/me/passkeys: the device has made a passkey for this account; the sum of its
\* passkeys was looked at when the device was asked.
AddPasskey(t, u, k) ==
    /\ HasSession(u) /\ IsLocal(u) /\ Cardinality(holder[u].passkeys) < passkeysMax
    /\ Takes(t, "writing", [kind |-> "add", uid |-> u, pk |-> k, count |-> device[k]])
    /\ UNCHANGED <<holder, cookies, device, assertions, provider, removals>>

\* Under cfgMu: nobody has the passkey, and there is room for it.
WritesPasskey(t) ==
    LET r == asks[t] IN
    /\ doing[t] = "writing" /\ r.kind = "add"
    /\ \A u \in Holders : passkeyByID(u, r.pk) = {}
    /\ Cardinality(PasskeysOf(r.uid)) < passkeysMax
    /\ PasskeysUpdate(r.uid, PasskeysOf(r.uid) \cup {[id |-> r.pk, count |-> r.count]})
    /\ Answers(t)
    /\ UNCHANGED <<cookies, device, assertions, provider, removals, served>>

\* DELETE /api/me/passkeys/{pid}.  (Renaming one changes nothing that is here.)
DropPasskey(t, u, k) ==
    /\ HasSession(u) /\ passkeyByID(u, k) # {}
    /\ Takes(t, "writing", [kind |-> "drop", uid |-> u, pk |-> k])
    /\ UNCHANGED <<holder, cookies, device, assertions, provider, removals>>

WritesDrop(t) ==
    LET r == asks[t] IN
    /\ doing[t] = "writing" /\ r.kind = "drop"
    /\ PasskeysUpdate(r.uid, PasskeysOf(r.uid) \ passkeyByID(r.uid, r.pk))
    /\ Answers(t)
    /\ UNCHANGED <<cookies, device, assertions, provider, removals, served>>

-----------------------------------------------------------------------------
(* Sign-in by passkey.                                                     *)

\* A device signs, with its counter one further; the answer is posted when it is.
DeviceSigns(k) ==
    /\ device[k] < MaxSigned /\ k \notin Countless
    /\ device' = [device EXCEPT ![k] = @ + 1]
    /\ assertions' = assertions \cup {[pk |-> k, count |-> device[k] + 1]}
    /\ UNCHANGED <<holder, cookies, doing, asks, provider, removals, served>>

DeviceSignsCountless(k) ==
    /\ k \in Countless
    /\ assertions' = assertions \cup {[pk |-> k, count |-> 0]}
    /\ UNCHANGED <<holder, cookies, doing, asks, device, provider, removals, served>>

\* (Variant: the counter may stand still or go back.)
AheadOrNot(count, stored) == TRUE

\* The counter, if one is kept, must be ahead of the stored one.
Ahead(count, stored) == stored # 0 \/ count # 0 => count > stored

\* POST /api/login/passkey: passkeyAssertion, on the accounts of now.
PasskeyLogin(t, u, a) ==
    /\ a \in assertions /\ IsLocal(u) /\ holder[u].enabled
    /\ \E p \in passkeyByID(u, a.pk) :
          /\ Ahead(a.count, p.count)
          /\ Takes(t, "counting", [kind |-> "passkey", uid |-> u, pk |-> a.pk, who |-> NoIdentity,
                                   count |-> a.count, stored |-> p.count])
    /\ assertions' = assertions \ {a}
    /\ UNCHANGED <<holder, cookies, device, provider, removals>>

\* The counter is written, without another look at the stored one; if it cannot be, the
\* sign-in goes on.
WritesCount(t) ==
    LET r == asks[t]
        counted(p) == IF p.id = r.pk THEN [p EXCEPT !.count = r.count] ELSE p
    IN  /\ doing[t] = "counting"
        /\ \/ PasskeysUpdate(r.uid, {counted(p) : p \in PasskeysOf(r.uid)})
           \/ UNCHANGED holder
        /\ doing' = [doing EXCEPT ![t] = "opening"]
        /\ UNCHANGED <<asks, cookies, device, assertions, provider, removals, served>>

-----------------------------------------------------------------------------
(* Sign-in by OpenID Connect.                                              *)

\* GET /auth/oidc/callback: the settings of now; the provider says who it is, and the
\* e-mail it has verified, if any.
OidcCallback(t, sub, email) ==
    /\ provider.enabled
    /\ Takes(t, "resolving", [kind |-> "oidc", who |-> <<provider.issuer, sub>>, email |-> email,
                              auto_create |-> provider.auto_create])
    /\ UNCHANGED <<holder, cookies, device, assertions, provider, removals>>

Linked(who) == {u \in Members : IsOidc(u) /\ holder[u].who = who}

\* (Variant: an account with this e-mail is taken, linked or not.)
PendingOrNot(email) == {u \in Members : IsOidc(u) /\ holder[u].email = email}

\* Accounts ready for this e-mail.
Pending(email) == {u \in Members : IsOidc(u) /\ holder[u].who = NoIdentity /\ holder[u].email = email}

\* The account of an identity: the one linked to it, the only one ready for its e-mail, or
\* a new one.  (A domain may be refused: SignInRefused.)
AccountFor(r) ==
    IF Linked(r.who) # {} THEN Linked(r.who)
    ELSE IF r.email # NoEmail /\ Cardinality(Pending(r.email)) = 1 THEN Pending(r.email)
    ELSE IF r.auto_create /\ Cardinality(OthersHeld) < usersMax THEN {u \in Members : Fresh(u)}
    ELSE {}

\* The account is linked to the identity, and keeps the e-mail the provider has verified.
LinkedTo(rec, r) == [rec EXCEPT !.who = r.who, !.email = IF r.email # NoEmail THEN r.email ELSE @]

\* oidcResolveUser, under cfgMu: the account found is linked.
Resolve(t) ==
    LET r == asks[t] IN
    /\ doing[t] = "resolving"
    /\ \E u \in AccountFor(r) :
          /\ Held(u) => holder[u].enabled
          /\ holder' = [holder EXCEPT ![u] = LinkedTo(IF Held(u) THEN @ ELSE OidcHolder(NoEmail), r)]
          /\ asks' = [asks EXCEPT ![t] = [kind |-> "linked", uid |-> u, pk |-> NoPasskey, who |-> r.who]]
    /\ doing' = [doing EXCEPT ![t] = "opening"]
    /\ UNCHANGED <<cookies, device, assertions, provider, removals, served>>

\* startSession: the fingerprint of the account as it is now.  (Of an account that is gone
\* it opens nothing: identifiers are not used again.)
OpenSession(t) ==
    LET r == asks[t] IN
    /\ doing[t] = "opening"
    /\ cookies' = IF Held(r.uid)
                  THEN cookies \cup {[uid |-> r.uid, pk |-> r.pk, who |-> holder[r.uid].who, shown |-> r.who]}
                  ELSE cookies
    /\ Answers(t)
    /\ UNCHANGED <<holder, device, assertions, provider, removals, served>>

\* POST /api/oidc: other settings.
SavesProvider(s) ==
    /\ served < MaxServed /\ s # provider
    /\ provider' = s /\ served' = served + 1
    /\ UNCHANGED <<holder, cookies, doing, asks, device, assertions, removals>>

-----------------------------------------------------------------------------
(* Account management, by somebody with the right to it.                   *)

\* POST /api/users: an account with a password, or ready for an e-mail.
AsksAccount(t, rec) ==
    /\ Takes(t, "writing", [kind |-> "create", rec |-> rec])
    /\ UNCHANGED <<holder, cookies, device, assertions, provider, removals>>

\* Under cfgMu: the e-mail is nobody's, and there is room.
WritesHolder(t) ==
    LET r == asks[t] IN
    /\ doing[t] = "writing" /\ r.kind = "create"
    /\ r.rec.source = "oidc" => \A u \in Members : IsOidc(u) => holder[u].email # r.rec.email
    /\ Cardinality(OthersHeld) < usersMax
    /\ \E u \in Members :
          /\ Fresh(u)
          /\ holder' = [holder EXCEPT ![u] = r.rec]
          /\ cookies' = IF r.rec.source = "local" THEN cookies \cup {PasswordCookie(u)} ELSE cookies
    /\ Answers(t)
    /\ UNCHANGED <<device, assertions, provider, removals, served>>

\* PUT /api/users/{uid}: one field.  The e-mail changes as long as nobody has signed in;
\* the passkeys can be taken away.
Changes(u) ==
    {[field |-> "enabled", value |-> b] : b \in BOOLEAN}
    \cup {[field |-> "passkeys", value |-> {}]}
    \cup IF IsOidc(u) /\ holder[u].who = NoIdentity THEN {[field |-> "email", value |-> e] : e \in Emails} ELSE {}

EditHolder(t, u, change) ==
    /\ Held(u) /\ change \in Changes(u)
    /\ Takes(t, "writing", [kind |-> "edit", uid |-> u, change |-> change])
    /\ UNCHANGED <<holder, cookies, device, assertions, provider, removals>>

\* The account may have been linked, or deleted, since.
WritesChange(t) ==
    LET r == asks[t] IN
    /\ doing[t] = "writing" /\ r.kind = "edit"
    /\ holder' = [holder EXCEPT ![r.uid] =
          IF ~Held(r.uid) THEN @
          ELSE CASE r.change.field = "enabled" -> [@ EXCEPT !.enabled = r.change.value]
                 [] r.change.field = "passkeys" -> [@ EXCEPT !.passkeys = {}]
                 [] r.change.field = "email" -> [@ EXCEPT !.email = r.change.value]]
    /\ Answers(t)
    /\ UNCHANGED <<cookies, device, assertions, provider, removals, served>>

RemoveHolder(t, u) ==
    /\ Held(u)
    /\ Takes(t, "writing", [kind |-> "remove", uid |-> u])
    /\ UNCHANGED <<holder, cookies, device, assertions, provider, removals>>

WritesRemoval(t) ==
    LET r == asks[t] IN
    /\ doing[t] = "writing" /\ r.kind = "remove"
    /\ holder' = [holder EXCEPT ![r.uid] = NoHolder]
    /\ removals' = removals \cup {r.uid}
    /\ Answers(t)
    /\ UNCHANGED <<cookies, device, assertions, provider, served>>

\* A check under cfgMu fails, the provider does not answer, or the configuration cannot be
\* written: an error, no change.
SignInRefused(t) ==
    /\ doing[t] \in {"writing", "resolving"}
    /\ Answers(t)
    /\ UNCHANGED <<holder, cookies, device, assertions, provider, removals, served>>

-----------------------------------------------------------------------------
Asked(t) ==
    \/ \E u \in Holders, k \in PasskeyIds : AddPasskey(t, u, k) \/ DropPasskey(t, u, k)
    \/ \E u \in Holders, a \in assertions : PasskeyLogin(t, u, a)
    \/ \E sub \in Subjects, e \in Emails \cup {NoEmail} : OidcCallback(t, sub, e)
    \/ \E rec \in {LocalHolder({})} \cup {OidcHolder(e) : e \in Emails} : AsksAccount(t, rec)
    \/ \E u \in Members : RemoveHolder(t, u) \/ \E c \in Changes(u) : EditHolder(t, u, c)

Written(t) ==
    \/ WritesPasskey(t) \/ WritesDrop(t) \/ WritesCount(t)
    \/ Resolve(t) \/ OpenSession(t)
    \/ WritesHolder(t) \/ WritesChange(t) \/ WritesRemoval(t) \/ SignInRefused(t)

SignInsNext ==
    \/ \E t \in Handlers : Asked(t) \/ Written(t)
    \/ \E k \in PasskeyIds : DeviceSigns(k) \/ DeviceSignsCountless(k)
    \/ \E s \in Settings : SavesProvider(s)

SignInsSpec == SignInsInit /\ [][SignInsNext]_signInVars

-----------------------------------------------------------------------------
(* What must hold.                                                         *)

SignInRequests ==
    {NoRequest}
    \cup [kind: {"add"}, uid: Holders, pk: PasskeyIds, count: SignCounts]
    \cup [kind: {"drop"}, uid: Holders, pk: PasskeyIds]
    \cup [kind: {"passkey"}, uid: Holders, pk: PasskeyIds, who: {NoIdentity}, count: SignCounts, stored: SignCounts]
    \cup [kind: {"oidc"}, who: Identities, email: Emails \cup {NoEmail}, auto_create: BOOLEAN]
    \cup [kind: {"linked"}, uid: Members, pk: {NoPasskey}, who: Identities]
    \cup [kind: {"create"}, rec: {r \in HolderRecords : r.passkeys = {} /\ r.who = NoIdentity}]
    \cup [kind: {"edit"}, uid: Members, change:
            [field: {"enabled"}, value: BOOLEAN] \cup [field: {"passkeys"}, value: {{}}]
            \cup [field: {"email"}, value: Emails]]
    \cup [kind: {"remove"}, uid: Members]

\* Types, and what a handler keeps at each place.
SignInsTypeOK ==
    /\ holder \in [Holders -> HolderRecords \cup {NoHolder}]
    /\ cookies \subseteq [uid: Holders, pk: PasskeyIds \cup {NoPasskey}, who: Identities \cup {NoIdentity},
                          shown: Identities \cup {NoIdentity}]
    /\ asks \in [Handlers -> SignInRequests]
    /\ doing \in [Handlers -> {"idle", "writing", "counting", "resolving", "opening"}]
    /\ \A t \in Handlers :
          /\ (doing[t] = "idle") = (asks[t] = NoRequest)
          /\ doing[t] = "counting" => asks[t].kind = "passkey"
          /\ doing[t] = "resolving" => asks[t].kind = "oidc"
          /\ doing[t] = "opening" => asks[t].kind \in {"passkey", "linked"}
    /\ device \in [PasskeyIds -> SignCounts]
    /\ assertions \subseteq [pk: PasskeyIds, count: SignCounts]
    /\ provider \in Settings
    /\ removals \subseteq Members
    /\ served \in 0..MaxServed

\* A passkey is on one account, once, and an account has no more of them than it may.
PasskeysDiffer ==
    /\ \A u, v \in Holders : Held(u) /\ Held(v) =>
          \A p \in holder[u].passkeys, q \in holder[v].passkeys : p.id = q.id => u = v /\ p = q
    /\ \A u \in Holders : Held(u) => Cardinality(holder[u].passkeys) <= passkeysMax

\* An identity opens one account.
IdentitiesDiffer ==
    \A u, v \in Holders : Held(u) /\ Held(v) /\ holder[u].who = holder[v].who => u = v \/ holder[u].who = NoIdentity

\* A session that opens an account was opened with the identity the account is linked to.
SessionsShowIdentity ==
    \A u \in Holders, s \in cookies : CookieOpens(s, u) => s.shown = holder[u].who

\* What somebody signs in with is theirs: whatever additions, first sign-ins, edits and
\* deletions mix, a passkey and an identity lead to one account, and a session that is
\* open is one of the identity of its account (the checks under cfgMu at passkeys.go:762,
\* oidcResolveUser, startSession after it).
CredentialsAreOnesOwn == PasskeysDiffer /\ IdentitiesDiffer /\ SessionsShowIdentity

\* The counter stored with a passkey goes back only by a sign-in that was checked against
\* another one: "it must advance" (passkeys.go:648) is asked of the passkey read at the
\* beginning, and sign-ins that overlap may be written in another order.
CounterOnlyOvertaken ==
    [][\A u \in Holders : Held(u) /\ Held(u)' =>
          \A p \in holder[u].passkeys, q \in holder'[u].passkeys :
             p.id = q.id /\ q.count < p.count =>
                \E t \in Handlers : doing[t] = "counting" /\ doing'[t] # "counting"
                    /\ asks[t].uid = u /\ asks[t].pk = p.id /\ asks[t].stored # p.count]_signInVars
=============================================================================
