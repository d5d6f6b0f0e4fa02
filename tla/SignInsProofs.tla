---------------------------- MODULE SignInsProofs ----------------------------
(***************************************************************************)
(* Proofs about SignIns.tla, for any accounts, passkeys, identities and    *)
(* handlers, any number of requests and any limits: what somebody signs in *)
(* with leads to one account, and a passkey's counter goes back only by a  *)
(* sign-in that was overtaken.  With AccountsProofs, what MCAccounts       *)
(* explores side by side.                                                  *)
(***************************************************************************)
EXTENDS MCAccounts, AccountsProofs, FiniteSetTheorems, TLAPS

-----------------------------------------------------------------------------
(* The inductive invariant.                                                *)

\* The owner's account stays, and no account with a password is linked.
LocalsUnlinked == IsLocal("owner") /\ \A u \in Holders : IsLocal(u) => holder[u].who = NoIdentity

GoneStayGone == \A u \in removals : ~Held(u)

\* What a sign-in has verified is true of the account it is about, until the session is
\* opened, unless that account is gone; and nobody is given its identifier again.
SignInHolds(t) ==
    asks[t].kind \in {"passkey", "linked"} =>
        /\ Held(asks[t].uid) \/ asks[t].uid \in removals
        /\ Held(asks[t].uid) => holder[asks[t].uid].who = asks[t].who
        /\ asks[t].kind = "passkey" =>
              /\ Held(asks[t].uid) => IsLocal(asks[t].uid)
              /\ Ahead(asks[t].count, asks[t].stored)
SignInsHold == \A t \in Handlers : SignInHolds(t)

CookiesShow == \A s \in cookies : s.who = s.shown

FewPasskeys ==
    \A u \in Holders : Held(u) => IsFiniteSet(holder[u].passkeys) /\ Cardinality(holder[u].passkeys) <= passkeysMax

OnePasskey ==
    \A u, v \in Holders : Held(u) /\ Held(v) =>
        \A p \in holder[u].passkeys, q \in holder[v].passkeys : p.id = q.id => u = v /\ p = q

SignInsIInv ==
    /\ SignInsTypeOK /\ LocalsUnlinked /\ GoneStayGone /\ SignInsHold
    /\ CookiesShow /\ FewPasskeys /\ OnePasskey /\ IdentitiesDiffer

USE DEF signInVars

LEMMA InitSignIns == SignInsInit => SignInsIInv
<1> SUFFICES ASSUME SignInsInit PROVE SignInsIInv
  OBVIOUS
<1> DEFINE First == {{}} \cup {{[id |-> k, count |-> 0]} : k \in PasskeyIds}
<1>1. \A u \in Holders : Held(u) =>
         /\ holder[u].who = NoIdentity
         /\ holder[u].passkeys \in First
         /\ IsOidc(u) => holder[u].passkeys = {}
         /\ holder[u] \in HolderRecords
  <2> SUFFICES ASSUME NEW u \in Holders, Held(u)
               PROVE  /\ holder[u].who = NoIdentity
                      /\ holder[u].passkeys \in First
                      /\ IsOidc(u) => holder[u].passkeys = {}
                      /\ holder[u] \in HolderRecords
    OBVIOUS
  <2>1. CASE \E keys \in First : holder[u] = LocalHolder(keys)
    <3>1. PICK keys \in First : holder[u] = LocalHolder(keys)
      BY <2>1
    <3>2. keys \in SUBSET [id: PasskeyIds, count: SignCounts]
      BY SignInsAssumption DEF SignCounts
    <3> QED
      BY <3>1, <3>2 DEF LocalHolder, HolderRecords, IsOidc
  <2>2. CASE \E e \in Emails : holder[u] = OidcHolder(e)
    BY <2>2 DEF OidcHolder, HolderRecords
  <2> QED
    BY <2>1, <2>2 DEF SignInsInit, Held
<1>2. SignInsTypeOK
  <2>1. holder \in [Holders -> HolderRecords \cup {NoHolder}]
    BY <1>1 DEF SignInsInit, Held
  <2>2. device \in [PasskeyIds -> SignCounts] /\ served \in 0..MaxServed
    BY SignInsAssumption DEF SignInsInit, SignCounts
  <2>3. cookies \subseteq [uid: Holders, pk: PasskeyIds \cup {NoPasskey}, who: Identities \cup {NoIdentity},
                           shown: Identities \cup {NoIdentity}]
    BY DEF SignInsInit, PasswordCookie
  <2> QED
    BY <2>1, <2>2, <2>3 DEF SignInsInit, SignInsTypeOK, SignInRequests, NoRequest
<1>3. FewPasskeys
  <2>1. \A keys \in First : IsFiniteSet(keys)
    BY FS_EmptySet, FS_Singleton
  <2> QED
    BY <1>1, <2>1 DEF SignInsInit, FewPasskeys
<1>4. OnePasskey
  <2> SUFFICES ASSUME NEW u \in Holders, NEW v \in Holders, Held(u), Held(v),
                      NEW p \in holder[u].passkeys, NEW q \in holder[v].passkeys, p.id = q.id
               PROVE  u = v /\ p = q
    BY DEF OnePasskey
  <2>1. p = q
    BY <1>1
  <2>2. IsLocal(u) /\ IsLocal(v)
    BY <1>1 DEF IsLocal, IsOidc, HolderRecords
  <2> QED
    BY <2>1, <2>2 DEF SignInsInit
<1>5. LocalsUnlinked /\ GoneStayGone /\ CookiesShow /\ IdentitiesDiffer
  BY <1>1 DEF SignInsInit, LocalsUnlinked, GoneStayGone, CookiesShow, IdentitiesDiffer, IsLocal, PasswordCookie
<1>6. SignInsHold
  BY DEF SignInsInit, SignInsHold, SignInHolds, NoRequest
<1> QED
  BY <1>2, <1>3, <1>4, <1>5, <1>6 DEF SignInsIInv

-----------------------------------------------------------------------------
\* Every step keeps the types.
LEMMA TakesTypes ==
  ASSUME SignInsTypeOK, NEW t \in Handlers, NEW step \in {"writing", "counting", "resolving"},
         NEW r \in SignInRequests, Takes(t, step, r), r # NoRequest,
         step = "counting" => r.kind = "passkey", step = "resolving" => r.kind = "oidc",
         UNCHANGED <<holder, cookies, device, provider, removals>>,
         assertions' \subseteq assertions
  PROVE  SignInsTypeOK'
<1>1. served' \in 0..MaxServed
  BY SignInsAssumption DEF SignInsTypeOK, Takes
<1>2. /\ asks' \in [Handlers -> SignInRequests]
      /\ doing' \in [Handlers -> {"idle", "writing", "counting", "resolving", "opening"}]
  BY DEF SignInsTypeOK, Takes
<1>3. \A o \in Handlers :
        /\ (doing'[o] = "idle") = (asks'[o] = NoRequest)
        /\ doing'[o] = "counting" => asks'[o].kind = "passkey"
        /\ doing'[o] = "resolving" => asks'[o].kind = "oidc"
        /\ doing'[o] = "opening" => asks'[o].kind \in {"passkey", "linked"}
  BY DEF SignInsTypeOK, Takes
<1> QED
  BY <1>1, <1>2, <1>3 DEF SignInsTypeOK

LEMMA AnswersTypes ==
  ASSUME SignInsTypeOK, NEW t \in Handlers, Answers(t)
  PROVE  /\ asks' \in [Handlers -> SignInRequests]
         /\ doing' \in [Handlers -> {"idle", "writing", "counting", "resolving", "opening"}]
         /\ \A o \in Handlers :
               /\ (doing'[o] = "idle") = (asks'[o] = NoRequest)
               /\ doing'[o] = "counting" => asks'[o].kind = "passkey"
               /\ doing'[o] = "resolving" => asks'[o].kind = "oidc"
               /\ doing'[o] = "opening" => asks'[o].kind \in {"passkey", "linked"}
<1>1. NoRequest \in SignInRequests
  BY DEF SignInRequests
<1> QED
  BY <1>1 DEF SignInsTypeOK, Answers

LEMMA UpdateTypes ==
  ASSUME SignInsTypeOK, NEW u \in Holders, NEW keys \in SUBSET [id: PasskeyIds, count: SignCounts],
         PasskeysUpdate(u, keys)
  PROVE  holder' \in [Holders -> HolderRecords \cup {NoHolder}]
<1>1. Held(u) => [holder[u] EXCEPT !.passkeys = keys] \in HolderRecords
  BY DEF SignInsTypeOK, Held, HolderRecords
<1> QED
  BY <1>1 DEF SignInsTypeOK, PasskeysUpdate, Held

LEMMA PasskeysOfType ==
  ASSUME SignInsTypeOK, NEW u \in Holders
  PROVE  PasskeysOf(u) \in SUBSET [id: PasskeyIds, count: SignCounts]
BY DEF SignInsTypeOK, PasskeysOf, Held, HolderRecords

LEMMA SignInsStepTypes == SignInsIInv /\ [SignInsNext]_signInVars => SignInsTypeOK'
<1> SUFFICES ASSUME SignInsIInv, [SignInsNext]_signInVars
             PROVE  SignInsTypeOK'
  OBVIOUS
<1>t. SignInsTypeOK
  BY DEF SignInsIInv
<1>1. ASSUME NEW t \in Handlers, NEW u \in Holders, NEW k \in PasskeyIds, AddPasskey(t, u, k)
      PROVE  SignInsTypeOK'
  <2> DEFINE r == [kind |-> "add", uid |-> u, pk |-> k, count |-> device[k]]
  <2>1. r \in SignInRequests /\ r # NoRequest
    BY <1>t DEF SignInsTypeOK, SignInRequests, NoRequest
  <2> QED
    BY <1>t, <1>1, <2>1, TakesTypes DEF AddPasskey
<1>2. ASSUME NEW t \in Handlers, NEW u \in Holders, NEW k \in PasskeyIds, DropPasskey(t, u, k)
      PROVE  SignInsTypeOK'
  <2> DEFINE r == [kind |-> "drop", uid |-> u, pk |-> k]
  <2>1. r \in SignInRequests /\ r # NoRequest
    BY DEF SignInRequests, NoRequest
  <2> QED
    BY <1>t, <1>2, <2>1, TakesTypes DEF DropPasskey
<1>3. ASSUME NEW t \in Handlers, NEW u \in Holders, NEW a \in assertions, PasskeyLogin(t, u, a)
      PROVE  SignInsTypeOK'
  <2>1. PICK p \in passkeyByID(u, a.pk) :
           Takes(t, "counting", [kind |-> "passkey", uid |-> u, pk |-> a.pk, who |-> NoIdentity,
                                 count |-> a.count, stored |-> p.count])
    BY <1>3 DEF PasskeyLogin
  <2> DEFINE r == [kind |-> "passkey", uid |-> u, pk |-> a.pk, who |-> NoIdentity, count |-> a.count, stored |-> p.count]
  <2>2. p.count \in SignCounts
    BY <1>t DEF SignInsTypeOK, passkeyByID, Held, HolderRecords
  <2>3. r \in SignInRequests /\ r # NoRequest /\ r.kind = "passkey"
    BY <1>t, <2>2 DEF SignInsTypeOK, SignInRequests, NoRequest
  <2> QED
    BY <1>t, <1>3, <2>1, <2>3, TakesTypes DEF PasskeyLogin
<1>4. ASSUME NEW t \in Handlers, NEW sub \in Subjects, NEW e \in Emails \cup {NoEmail}, OidcCallback(t, sub, e)
      PROVE  SignInsTypeOK'
  <2> DEFINE r == [kind |-> "oidc", who |-> <<provider.issuer, sub>>, email |-> e, auto_create |-> provider.auto_create]
  <2>1. r \in SignInRequests /\ r # NoRequest /\ r.kind = "oidc"
    BY <1>t DEF SignInsTypeOK, SignInRequests, NoRequest, Settings, Identities
  <2> QED
    BY <1>t, <1>4, <2>1, TakesTypes DEF OidcCallback
<1>5. ASSUME NEW t \in Handlers, NEW rec \in {LocalHolder({})} \cup {OidcHolder(e) : e \in Emails}, AsksAccount(t, rec)
      PROVE  SignInsTypeOK'
  <2> DEFINE r == [kind |-> "create", rec |-> rec]
  <2>1. rec \in HolderRecords /\ rec.passkeys = {} /\ rec.who = NoIdentity
    <3>1. CASE rec = LocalHolder({})
      BY <3>1 DEF LocalHolder, HolderRecords
    <3>2. CASE \E e \in Emails : rec = OidcHolder(e)
      BY <3>2 DEF OidcHolder, HolderRecords
    <3> QED
      BY <3>1, <3>2
  <2>2. r \in SignInRequests /\ r # NoRequest
    BY <2>1 DEF SignInRequests, NoRequest
  <2> QED
    BY <1>t, <1>5, <2>2, TakesTypes DEF AsksAccount
<1>6. ASSUME NEW t \in Handlers, NEW u \in Members, RemoveHolder(t, u)
      PROVE  SignInsTypeOK'
  <2> DEFINE r == [kind |-> "remove", uid |-> u]
  <2>1. r \in SignInRequests /\ r # NoRequest
    BY DEF SignInRequests, NoRequest
  <2> QED
    BY <1>t, <1>6, <2>1, TakesTypes DEF RemoveHolder
<1>7. ASSUME NEW t \in Handlers, NEW u \in Members, NEW c \in Changes(u), EditHolder(t, u, c)
      PROVE  SignInsTypeOK'
  <2> DEFINE r == [kind |-> "edit", uid |-> u, change |-> c]
  <2>1. c \in [field: {"enabled"}, value: BOOLEAN] \cup [field: {"passkeys"}, value: {{}}]
              \cup [field: {"email"}, value: Emails]
    BY DEF Changes
  <2>2. r \in SignInRequests /\ r # NoRequest
    BY <2>1 DEF SignInRequests, NoRequest
  <2> QED
    BY <1>t, <1>7, <2>2, TakesTypes DEF EditHolder
<1>8. ASSUME NEW t \in Handlers, WritesPasskey(t) PROVE SignInsTypeOK'
  <2> DEFINE r == asks[t]
  <2>1. r.uid \in Holders /\ [id |-> r.pk, count |-> r.count] \in [id: PasskeyIds, count: SignCounts]
    BY <1>t, <1>8 DEF SignInsTypeOK, WritesPasskey, SignInRequests, NoRequest
  <2>2. PasskeysOf(r.uid) \cup {[id |-> r.pk, count |-> r.count]} \in SUBSET [id: PasskeyIds, count: SignCounts]
    BY <1>t, <2>1, PasskeysOfType
  <2>3. holder' \in [Holders -> HolderRecords \cup {NoHolder}]
    BY <1>t, <1>8, <2>1, <2>2, UpdateTypes DEF WritesPasskey
  <2> QED
    BY <1>t, <1>8, <2>3, AnswersTypes DEF WritesPasskey, SignInsTypeOK
<1>9. ASSUME NEW t \in Handlers, WritesDrop(t) PROVE SignInsTypeOK'
  <2> DEFINE r == asks[t]
  <2>1. r.uid \in Holders
    BY <1>t, <1>9 DEF SignInsTypeOK, WritesDrop, SignInRequests, NoRequest
  <2>2. PasskeysOf(r.uid) \ passkeyByID(r.uid, r.pk) \in SUBSET [id: PasskeyIds, count: SignCounts]
    BY <1>t, <2>1, PasskeysOfType
  <2>3. holder' \in [Holders -> HolderRecords \cup {NoHolder}]
    BY <1>t, <1>9, <2>1, <2>2, UpdateTypes DEF WritesDrop
  <2> QED
    BY <1>t, <1>9, <2>3, AnswersTypes DEF WritesDrop, SignInsTypeOK
<1>10. ASSUME NEW t \in Handlers, WritesCount(t) PROVE SignInsTypeOK'
  <2> DEFINE r == asks[t]
             counted(p) == IF p.id = r.pk THEN [p EXCEPT !.count = r.count] ELSE p
  <2>1. r.kind = "passkey" /\ r.uid \in Holders /\ r.count \in SignCounts
    BY <1>t, <1>10 DEF SignInsTypeOK, WritesCount, SignInRequests, NoRequest
  <2>2. \A p \in [id: PasskeyIds, count: SignCounts] : counted(p) \in [id: PasskeyIds, count: SignCounts]
    BY <2>1
  <2>3. {counted(p) : p \in PasskeysOf(r.uid)} \in SUBSET [id: PasskeyIds, count: SignCounts]
    BY <1>t, <2>1, <2>2, PasskeysOfType
  <2>4. PasskeysUpdate(r.uid, {counted(p) : p \in PasskeysOf(r.uid)}) \/ holder' = holder
    BY <1>10 DEF WritesCount
  <2>5. holder' \in [Holders -> HolderRecords \cup {NoHolder}]
    <3>1. CASE holder' = holder
      BY <1>t, <3>1 DEF SignInsTypeOK
    <3>2. CASE PasskeysUpdate(r.uid, {counted(p) : p \in PasskeysOf(r.uid)})
      BY <1>t, <2>1, <2>3, <3>2, UpdateTypes
    <3> QED
      BY <2>4, <3>1, <3>2
  <2>6. /\ doing' = [doing EXCEPT ![t] = "opening"] /\ doing[t] = "counting"
        /\ UNCHANGED <<asks, cookies, device, assertions, provider, removals, served>>
    BY <1>10 DEF WritesCount
  <2>7. doing' \in [Handlers -> {"idle", "writing", "counting", "resolving", "opening"}]
    BY <1>t, <2>6 DEF SignInsTypeOK
  <2>8. \A o \in Handlers :
          /\ (doing'[o] = "idle") = (asks'[o] = NoRequest)
          /\ doing'[o] = "counting" => asks'[o].kind = "passkey"
          /\ doing'[o] = "resolving" => asks'[o].kind = "oidc"
          /\ doing'[o] = "opening" => asks'[o].kind \in {"passkey", "linked"}
    BY <1>t, <2>1, <2>6 DEF SignInsTypeOK, NoRequest
  <2> QED
    BY <1>t, <2>5, <2>6, <2>7, <2>8 DEF SignInsTypeOK
<1>11. ASSUME NEW t \in Handlers, Resolve(t) PROVE SignInsTypeOK'
  <2> DEFINE r == asks[t]
  <2>1. r.kind = "oidc" /\ r.who \in Identities /\ r.email \in Emails \cup {NoEmail}
    BY <1>t, <1>11 DEF SignInsTypeOK, Resolve, SignInRequests, NoRequest
  <2>2. PICK u \in AccountFor(r) :
          /\ holder' = [holder EXCEPT ![u] = LinkedTo(IF Held(u) THEN @ ELSE OidcHolder(NoEmail), r)]
          /\ asks' = [asks EXCEPT ![t] = [kind |-> "linked", uid |-> u, pk |-> NoPasskey, who |-> r.who]]
    BY <1>11 DEF Resolve
  <2> DEFINE old == IF Held(u) THEN holder[u] ELSE OidcHolder(NoEmail)
  <2>3. u \in Members /\ u \in Holders
    BY DEF AccountFor, Linked, Pending, Holders
  <2>4. old \in HolderRecords
    BY <1>t, <2>3 DEF SignInsTypeOK, Held, OidcHolder, HolderRecords
  <2>5. LinkedTo(old, r) \in HolderRecords
    BY <2>1, <2>4 DEF HolderRecords, LinkedTo
  <2>6. holder' \in [Holders -> HolderRecords \cup {NoHolder}]
    BY <1>t, <2>2, <2>3, <2>5 DEF SignInsTypeOK
  <2>7. [kind |-> "linked", uid |-> u, pk |-> NoPasskey, who |-> r.who] \in SignInRequests
    BY <2>1, <2>3 DEF SignInRequests
  <2>8. doing' = [doing EXCEPT ![t] = "opening"] /\ UNCHANGED <<cookies, device, assertions, provider, removals, served>>
    BY <1>11 DEF Resolve
  <2>9. \A o \in Handlers :
          /\ (doing'[o] = "idle") = (asks'[o] = NoRequest)
          /\ doing'[o] = "counting" => asks'[o].kind = "passkey"
          /\ doing'[o] = "resolving" => asks'[o].kind = "oidc"
          /\ doing'[o] = "opening" => asks'[o].kind \in {"passkey", "linked"}
    BY <1>t, <2>2, <2>8 DEF SignInsTypeOK, NoRequest
  <2>10. /\ asks' \in [Handlers -> SignInRequests]
         /\ doing' \in [Handlers -> {"idle", "writing", "counting", "resolving", "opening"}]
    BY <1>t, <2>2, <2>7, <2>8 DEF SignInsTypeOK
  <2> QED
    BY <1>t, <2>6, <2>8, <2>9, <2>10 DEF SignInsTypeOK
<1>12. ASSUME NEW t \in Handlers, OpenSession(t) PROVE SignInsTypeOK'
  <2> DEFINE r == asks[t]
  <2>1. /\ r.uid \in Holders /\ r.pk \in PasskeyIds \cup {NoPasskey}
        /\ r.who \in Identities \cup {NoIdentity}
    <3>1. CASE r.kind = "passkey"
      BY <1>t, <3>1 DEF SignInsTypeOK, SignInRequests, NoRequest
    <3>2. CASE r.kind = "linked"
      BY <1>t, <3>2 DEF SignInsTypeOK, SignInRequests, NoRequest, Holders
    <3> QED
      BY <1>t, <1>12, <3>1, <3>2 DEF SignInsTypeOK, OpenSession
  <2>2. Held(r.uid) => holder[r.uid].who \in Identities \cup {NoIdentity}
    BY <1>t, <2>1 DEF SignInsTypeOK, Held, HolderRecords
  <2>3. cookies' \subseteq [uid: Holders, pk: PasskeyIds \cup {NoPasskey}, who: Identities \cup {NoIdentity},
                            shown: Identities \cup {NoIdentity}]
    BY <1>t, <1>12, <2>1, <2>2 DEF SignInsTypeOK, OpenSession
  <2> QED
    BY <1>t, <1>12, <2>3, AnswersTypes DEF OpenSession, SignInsTypeOK
<1>13. ASSUME NEW t \in Handlers, WritesHolder(t) PROVE SignInsTypeOK'
  <2> DEFINE r == asks[t]
  <2>1. r.rec \in HolderRecords
    BY <1>t, <1>13 DEF SignInsTypeOK, WritesHolder, SignInRequests, NoRequest
  <2>2. PICK u \in Members :
          /\ holder' = [holder EXCEPT ![u] = r.rec]
          /\ cookies' = IF r.rec.source = "local" THEN cookies \cup {PasswordCookie(u)} ELSE cookies
    BY <1>13 DEF WritesHolder
  <2>3. holder' \in [Holders -> HolderRecords \cup {NoHolder}]
    BY <1>t, <2>1, <2>2 DEF SignInsTypeOK
  <2>4. cookies' \subseteq [uid: Holders, pk: PasskeyIds \cup {NoPasskey}, who: Identities \cup {NoIdentity},
                            shown: Identities \cup {NoIdentity}]
    BY <1>t, <2>2 DEF SignInsTypeOK, PasswordCookie, Holders
  <2> QED
    BY <1>t, <1>13, <2>3, <2>4, AnswersTypes DEF WritesHolder, SignInsTypeOK
<1>14. ASSUME NEW t \in Handlers, WritesChange(t) PROVE SignInsTypeOK'
  <2> DEFINE r == asks[t]
  <2>1. /\ r.uid \in Members /\ r.uid \in Holders
        /\ r.change \in [field: {"enabled"}, value: BOOLEAN] \cup [field: {"passkeys"}, value: {{}}]
                        \cup [field: {"email"}, value: Emails]
    BY <1>t, <1>14 DEF SignInsTypeOK, WritesChange, SignInRequests, NoRequest, Holders
  <2>2. \/ holder'[r.uid] = holder[r.uid] \/ holder'[r.uid] \in HolderRecords
    <3>1. CASE Held(r.uid) /\ r.change.field = "enabled"
      BY <1>t, <1>14, <2>1, <3>1 DEF SignInsTypeOK, WritesChange, Held, HolderRecords
    <3>2. CASE Held(r.uid) /\ r.change.field = "passkeys"
      BY <1>t, <1>14, <2>1, <3>2 DEF SignInsTypeOK, WritesChange, Held, HolderRecords
    <3>3. CASE Held(r.uid) /\ r.change.field = "email"
      BY <1>t, <1>14, <2>1, <3>3 DEF SignInsTypeOK, WritesChange, Held, HolderRecords
    <3>4. CASE ~Held(r.uid)
      BY <1>t, <1>14, <2>1, <3>4 DEF SignInsTypeOK, WritesChange
    <3> QED
      BY <2>1, <3>1, <3>2, <3>3, <3>4
  <2>3. holder' \in [Holders -> HolderRecords \cup {NoHolder}]
    BY <1>t, <1>14, <2>1, <2>2 DEF SignInsTypeOK, WritesChange
  <2> QED
    BY <1>t, <1>14, <2>3, AnswersTypes DEF WritesChange, SignInsTypeOK
<1>15. ASSUME NEW t \in Handlers, WritesRemoval(t) PROVE SignInsTypeOK'
  <2>1. asks[t].uid \in Members
    BY <1>t, <1>15 DEF SignInsTypeOK, WritesRemoval, SignInRequests, NoRequest
  <2> QED
    BY <1>t, <1>15, <2>1, AnswersTypes DEF WritesRemoval, SignInsTypeOK
<1>16. ASSUME NEW t \in Handlers, SignInRefused(t) PROVE SignInsTypeOK'
  BY <1>t, <1>16, AnswersTypes DEF SignInRefused, SignInsTypeOK
<1>17. ASSUME NEW k \in PasskeyIds, DeviceSigns(k) \/ DeviceSignsCountless(k) PROVE SignInsTypeOK'
  <2>1. /\ UNCHANGED <<holder, cookies, doing, asks, provider, removals, served>>
        /\ device' \in [PasskeyIds -> SignCounts] /\ assertions' \subseteq [pk: PasskeyIds, count: SignCounts]
    BY <1>t, <1>17, SignInsAssumption DEF SignInsTypeOK, DeviceSigns, DeviceSignsCountless, SignCounts
  <2> QED
    BY <1>t, <2>1 DEF SignInsTypeOK
<1>18. ASSUME NEW s \in Settings, SavesProvider(s) PROVE SignInsTypeOK'
  BY <1>t, <1>18, SignInsAssumption DEF SignInsTypeOK, SavesProvider
<1>19. CASE UNCHANGED signInVars
  BY <1>t, <1>19 DEF SignInsTypeOK
<1> QED
  BY <1>1, <1>2, <1>3, <1>4, <1>5, <1>6, <1>7, <1>8, <1>9, <1>10, <1>11, <1>12, <1>13, <1>14,
     <1>15, <1>16, <1>17, <1>18, <1>19 DEF SignInsNext, Asked, Written

-----------------------------------------------------------------------------
(* What a step does to an account.                                         *)

\* The steps that write accounts.
Writes ==
    \E t \in Handlers :
        \/ WritesPasskey(t) \/ WritesDrop(t) \/ WritesCount(t) \/ Resolve(t)
        \/ WritesHolder(t) \/ WritesChange(t) \/ WritesRemoval(t)

LEMMA OthersWriteNothing ==
  ASSUME [SignInsNext]_signInVars, ~Writes
  PROVE  holder' = holder /\ removals' = removals
BY DEF SignInsNext, Asked, Written, Writes, AddPasskey, DropPasskey, PasskeyLogin, OidcCallback, OpenSession,
       AsksAccount, EditHolder, RemoveHolder, SignInRefused, DeviceSigns, DeviceSignsCountless, SavesProvider

\* An account keeps its source, is linked at most once, and then for good; one that comes
\* has an identifier nobody had, and one that goes leaves it to nobody.
AccountGoesOn(u) ==
    /\ Held(u) /\ Held(u)' =>
          /\ holder'[u].source = holder[u].source
          /\ holder'[u].who = holder[u].who \/ (IsOidc(u) /\ holder[u].who = NoIdentity)
    /\ ~Held(u) /\ Held(u)' => u \notin removals /\ (IsLocal(u)' => holder'[u].who = NoIdentity)
    /\ Held(u) /\ ~Held(u)' => u \in removals'
    /\ u = "owner" => (Held(u)' = Held(u))

LEMMA UpdateGoesOn ==
  ASSUME SignInsTypeOK, NEW u \in Holders, NEW v \in Holders, NEW keys, PasskeysUpdate(u, keys)
  PROVE  /\ AccountGoesOn(v)
         /\ Held(v)' = Held(v)
         /\ Held(v) => holder'[v].who = holder[v].who
         /\ Held(v) => holder'[v].passkeys = IF v = u THEN keys ELSE holder[v].passkeys
<1>1. Held(v) => holder[v] \in HolderRecords
  BY DEF SignInsTypeOK, Held
<1>2. Held(v) => [holder[v] EXCEPT !.passkeys = keys] # NoHolder
  BY <1>1 DEF HolderRecords, NoHolder
<1>3. holder'[v] = IF v = u /\ Held(v) THEN [holder[v] EXCEPT !.passkeys = keys] ELSE holder[v]
  BY DEF SignInsTypeOK, PasskeysUpdate
<1>4. Held(v)' = Held(v)
  BY <1>2, <1>3 DEF Held
<1>5. Held(v) => /\ holder'[v].who = holder[v].who /\ holder'[v].source = holder[v].source
                 /\ holder'[v].passkeys = IF v = u THEN keys ELSE holder[v].passkeys
  BY <1>1, <1>3 DEF HolderRecords
<1> QED
  BY <1>4, <1>5 DEF AccountGoesOn

LEMMA AccountSteps ==
  ASSUME SignInsTypeOK, SignInsTypeOK', Writes
  PROVE  \A u \in Holders : removals \subseteq removals' /\ AccountGoesOn(u)
<1> SUFFICES ASSUME NEW v \in Holders
             PROVE  removals \subseteq removals' /\ AccountGoesOn(v)
  OBVIOUS
<1>1. ASSUME NEW t \in Handlers, WritesPasskey(t) PROVE removals \subseteq removals' /\ AccountGoesOn(v)
  <2>1. asks[t].uid \in Holders
    BY <1>1 DEF SignInsTypeOK, WritesPasskey, SignInRequests, NoRequest
  <2> QED
    BY <1>1, <2>1, UpdateGoesOn DEF WritesPasskey
<1>2. ASSUME NEW t \in Handlers, WritesDrop(t) PROVE removals \subseteq removals' /\ AccountGoesOn(v)
  <2>1. asks[t].uid \in Holders
    BY <1>2 DEF SignInsTypeOK, WritesDrop, SignInRequests, NoRequest
  <2> QED
    BY <1>2, <2>1, UpdateGoesOn DEF WritesDrop
<1>3. ASSUME NEW t \in Handlers, WritesCount(t) PROVE removals \subseteq removals' /\ AccountGoesOn(v)
  <2>1. asks[t].uid \in Holders
    BY <1>3 DEF SignInsTypeOK, WritesCount, SignInRequests, NoRequest
  <2>2. removals' = removals /\ (holder' = holder => AccountGoesOn(v))
    BY <1>3 DEF WritesCount, AccountGoesOn, Held
  <2> QED
    BY <1>3, <2>1, <2>2, UpdateGoesOn DEF WritesCount
<1>4. ASSUME NEW t \in Handlers, Resolve(t) PROVE removals \subseteq removals' /\ AccountGoesOn(v)
  <2> DEFINE r == asks[t]
  <2>1. PICK u \in AccountFor(r) :
          holder' = [holder EXCEPT ![u] = LinkedTo(IF Held(u) THEN @ ELSE OidcHolder(NoEmail), r)]
    BY <1>4 DEF Resolve
  <2>2. removals' = removals
    BY <1>4 DEF Resolve
  <2>3. /\ u \in Members /\ u \in Holders /\ u # "owner"
        /\ (IsOidc(u) /\ (holder[u].who = NoIdentity \/ holder[u].who = r.who)) \/ Fresh(u)
    BY SignInsAssumption DEF AccountFor, Linked, Pending, Holders
  <2>4. CASE v # u
    BY <2>1, <2>2, <2>3, <2>4 DEF SignInsTypeOK, AccountGoesOn, Held
  <2>5. CASE v = u /\ Held(u)
    <3>1. holder[u] \in HolderRecords
      BY <2>3, <2>5 DEF SignInsTypeOK, Held
    <3>2. holder'[u] = LinkedTo(holder[u], r)
      BY <2>1, <2>3, <2>5 DEF SignInsTypeOK
    <3>3. holder'[u].source = holder[u].source /\ holder'[u].who = r.who
      BY <3>1, <3>2 DEF LinkedTo, HolderRecords
    <3>4. Held(u)'
      BY <3>1, <3>3 DEF Held, NoHolder, HolderRecords
    <3> QED
      BY <2>2, <2>3, <2>5, <3>3, <3>4 DEF AccountGoesOn, Fresh
  <2>6. CASE v = u /\ ~Held(u)
    <3>1. holder'[u] = LinkedTo(OidcHolder(NoEmail), r)
      BY <2>1, <2>3, <2>6 DEF SignInsTypeOK
    <3>2. holder'[u].source = "oidc"
      BY <3>1 DEF LinkedTo, OidcHolder
    <3> QED
      BY <2>2, <2>3, <2>6, <3>2 DEF AccountGoesOn, Fresh, IsOidc, IsLocal
  <2> QED
    BY <2>2, <2>4, <2>5, <2>6
<1>5. ASSUME NEW t \in Handlers, WritesHolder(t) PROVE removals \subseteq removals' /\ AccountGoesOn(v)
  <2>1. PICK u \in Members : Fresh(u) /\ holder' = [holder EXCEPT ![u] = asks[t].rec]
    BY <1>5 DEF WritesHolder
  <2>2. asks[t].rec \in HolderRecords /\ asks[t].rec.who = NoIdentity
    BY <1>5 DEF SignInsTypeOK, WritesHolder, SignInRequests, NoRequest
  <2>3. u \in Holders /\ u # "owner" /\ removals' = removals
    BY <1>5, SignInsAssumption DEF WritesHolder, Holders
  <2> QED
    BY <2>1, <2>2, <2>3 DEF SignInsTypeOK, AccountGoesOn, Held, Fresh, IsLocal
<1>6. ASSUME NEW t \in Handlers, WritesChange(t) PROVE removals \subseteq removals' /\ AccountGoesOn(v)
  <2> DEFINE r == asks[t]
  <2>1. r.uid \in Members /\ r.uid \in Holders /\ r.uid # "owner"
        /\ r.change.field \in {"enabled", "passkeys", "email"}
    BY <1>6, SignInsAssumption DEF SignInsTypeOK, WritesChange, SignInRequests, NoRequest, Holders
  <2>2. Held(v) => holder[v] \in HolderRecords
    BY DEF SignInsTypeOK, Held
  <2>3. /\ Held(v)' = Held(v)
        /\ Held(v) => holder'[v].source = holder[v].source /\ holder'[v].who = holder[v].who
    <3>1. CASE v # r.uid \/ ~Held(v)
      BY <1>6, <2>1, <3>1 DEF SignInsTypeOK, WritesChange, Held
    <3>2. CASE v = r.uid /\ Held(v) /\ r.change.field = "enabled"
      BY <1>6, <2>1, <2>2, <3>2 DEF SignInsTypeOK, WritesChange, Held, HolderRecords, NoHolder
    <3>3. CASE v = r.uid /\ Held(v) /\ r.change.field = "passkeys"
      BY <1>6, <2>1, <2>2, <3>3 DEF SignInsTypeOK, WritesChange, Held, HolderRecords, NoHolder
    <3>4. CASE v = r.uid /\ Held(v) /\ r.change.field = "email"
      BY <1>6, <2>1, <2>2, <3>4 DEF SignInsTypeOK, WritesChange, Held, HolderRecords, NoHolder
    <3> QED
      BY <2>1, <3>1, <3>2, <3>3, <3>4
  <2>4. removals' = removals
    BY <1>6 DEF WritesChange
  <2> QED
    BY <2>3, <2>4 DEF AccountGoesOn
<1>7. ASSUME NEW t \in Handlers, WritesRemoval(t) PROVE removals \subseteq removals' /\ AccountGoesOn(v)
  <2>1. asks[t].uid \in Members /\ asks[t].uid \in Holders /\ asks[t].uid # "owner"
    BY <1>7, SignInsAssumption DEF SignInsTypeOK, WritesRemoval, SignInRequests, NoRequest, Holders
  <2> QED
    BY <1>7, <2>1 DEF SignInsTypeOK, WritesRemoval, AccountGoesOn, Held
<1> QED
  BY <1>1, <1>2, <1>3, <1>4, <1>5, <1>6, <1>7 DEF Writes

LEMMA StepLocals == SignInsIInv /\ [SignInsNext]_signInVars => LocalsUnlinked' /\ GoneStayGone'
<1> SUFFICES ASSUME SignInsIInv, [SignInsNext]_signInVars
             PROVE  LocalsUnlinked' /\ GoneStayGone'
  OBVIOUS
<1>t. SignInsTypeOK /\ SignInsTypeOK' /\ LocalsUnlinked /\ GoneStayGone
  BY SignInsStepTypes DEF SignInsIInv
<1>1. CASE ~Writes
  <2>1. holder' = holder /\ removals' = removals
    BY <1>1, OthersWriteNothing
  <2> QED
    BY <1>t, <2>1 DEF LocalsUnlinked, GoneStayGone, IsLocal, Held
<1>2. CASE Writes
  <2>1. \A u \in Holders : removals \subseteq removals' /\ AccountGoesOn(u)
    BY <1>t, <1>2, AccountSteps
  <2>2. ASSUME NEW u \in Holders, IsLocal(u)' PROVE holder'[u].who = NoIdentity
    BY <1>t, <2>1, <2>2 DEF LocalsUnlinked, AccountGoesOn, IsLocal, IsOidc
  <2>3. IsLocal("owner")'
    BY <1>t, <2>1 DEF LocalsUnlinked, AccountGoesOn, IsLocal, Holders
  <2>4. \A u \in removals' : u \in removals \/ ~Held(u)'
    BY <1>t, <1>2 DEF Writes, WritesPasskey, WritesDrop, WritesCount, Resolve, WritesHolder, WritesChange,
                      WritesRemoval, SignInsTypeOK, Held, Holders
  <2>5. \A u \in removals' : ~Held(u)'
    BY <1>t, <2>1, <2>4 DEF GoneStayGone, AccountGoesOn, SignInsTypeOK, Holders
  <2> QED
    BY <2>2, <2>3, <2>5 DEF LocalsUnlinked, GoneStayGone
<1> QED
  BY <1>1, <1>2

\* The requests that have something verified are those the sign-ins make.
LEMMA NewSignIns ==
  ASSUME SignInsTypeOK, [SignInsNext]_signInVars, NEW o \in Handlers, asks'[o] # asks[o],
         asks'[o].kind \in {"passkey", "linked"}
  PROVE  (\E u \in Holders : \E a \in assertions : PasskeyLogin(o, u, a)) \/ Resolve(o)
<1>1. ASSUME NEW t \in Handlers, NEW step, NEW r, Takes(t, step, r), r.kind \notin {"passkey", "linked"}
      PROVE  FALSE
  BY <1>1 DEF SignInsTypeOK, Takes
<1>2. ASSUME NEW t \in Handlers, Answers(t)
      PROVE  FALSE
  BY <1>2 DEF SignInsTypeOK, Answers, NoRequest
<1>3. ~UNCHANGED asks
  OBVIOUS
<1>4. ASSUME NEW t \in Handlers, Asked(t)
      PROVE  \E u \in Holders : \E a \in assertions : PasskeyLogin(o, u, a)
  <2>1. \E u \in Holders : \E a \in assertions : PasskeyLogin(t, u, a)
    BY <1>1, <1>4 DEF Asked, AddPasskey, DropPasskey, OidcCallback, AsksAccount, RemoveHolder, EditHolder
  <2>2. t = o
    BY <2>1 DEF PasskeyLogin, Takes, SignInsTypeOK
  <2> QED
    BY <2>1, <2>2
<1>5. ASSUME NEW t \in Handlers, Written(t)
      PROVE  Resolve(o)
  <2>1. Resolve(t)
    BY <1>2, <1>3, <1>5 DEF Written, WritesPasskey, WritesDrop, WritesCount, OpenSession, WritesHolder,
                            WritesChange, WritesRemoval, SignInRefused
  <2>2. t = o
    BY <2>1 DEF Resolve, SignInsTypeOK
  <2> QED
    BY <2>1, <2>2
<1>6. \A k \in PasskeyIds : ~DeviceSigns(k) /\ ~DeviceSignsCountless(k)
  BY <1>3 DEF DeviceSigns, DeviceSignsCountless
<1>7. \A s \in Settings : ~SavesProvider(s)
  BY <1>3 DEF SavesProvider
<1> QED
  BY <1>3, <1>4, <1>5, <1>6, <1>7 DEF SignInsNext

LEMMA StepSignIns == SignInsIInv /\ [SignInsNext]_signInVars => SignInsHold'
<1> SUFFICES ASSUME SignInsIInv, [SignInsNext]_signInVars, NEW o \in Handlers,
                    asks'[o].kind \in {"passkey", "linked"}
             PROVE  SignInHolds(o)'
  BY DEF SignInsHold, SignInHolds
<1>t. SignInsTypeOK /\ SignInsTypeOK' /\ LocalsUnlinked /\ GoneStayGone /\ SignInHolds(o)
  BY SignInsStepTypes DEF SignInsIInv, SignInsHold
<1>1. CASE asks'[o] = asks[o]
  <2>1. PICK u : u = asks[o].uid
    OBVIOUS
  <2>2. u \in Holders
    <3>1. CASE asks[o].kind = "passkey"
      BY <1>t, <2>1, <3>1 DEF SignInsTypeOK, SignInRequests, NoRequest
    <3>2. CASE asks[o].kind = "linked"
      BY <1>t, <2>1, <3>2 DEF SignInsTypeOK, SignInRequests, NoRequest, Holders
    <3> QED
      BY <1>1, <3>1, <3>2
  <2>3. asks[o].kind = "linked" => asks[o].who # NoIdentity
    <3>1. asks[o].kind = "linked" => asks[o].who \in Identities
      BY <1>t DEF SignInsTypeOK, SignInRequests, NoRequest
    <3> QED
      BY <3>1 DEF NoIdentity, Identities
  <2>4. /\ Held(u) \/ u \in removals
        /\ Held(u) => holder[u].who = asks[o].who
        /\ asks[o].kind = "passkey" => (Held(u) => IsLocal(u)) /\ Ahead(asks[o].count, asks[o].stored)
    BY <1>t, <1>1, <2>1 DEF SignInHolds
  <2>5. /\ Held(u)' \/ u \in removals'
        /\ Held(u)' => holder'[u].who = asks[o].who
        /\ asks[o].kind = "passkey" => (Held(u)' => IsLocal(u)')
    <3>1. CASE ~Writes
      <4>1. holder' = holder /\ removals' = removals
        BY <3>1, OthersWriteNothing
      <4> QED
        BY <2>4, <4>1 DEF Held, IsLocal
    <3>2. CASE Writes
      <4>1. removals \subseteq removals' /\ AccountGoesOn(u)
        BY <1>t, <2>2, <3>2, AccountSteps
      <4>2. asks[o].kind = "passkey" /\ Held(u) => ~IsOidc(u)
        BY <2>4 DEF IsLocal, IsOidc
      <4>3. Held(u)' => Held(u)
        BY <2>4, <4>1 DEF AccountGoesOn
      <4> QED
        BY <1>1, <2>3, <2>4, <4>1, <4>2, <4>3 DEF AccountGoesOn, IsLocal
    <3> QED
      BY <3>1, <3>2
  <2> QED
    BY <1>1, <2>1, <2>4, <2>5 DEF SignInHolds, Ahead
<1>2. ASSUME NEW u \in Holders, NEW a \in assertions, PasskeyLogin(o, u, a)
      PROVE  SignInHolds(o)'
  <2>1. PICK p \in passkeyByID(u, a.pk) :
          /\ Ahead(a.count, p.count)
          /\ Takes(o, "counting", [kind |-> "passkey", uid |-> u, pk |-> a.pk, who |-> NoIdentity,
                                   count |-> a.count, stored |-> p.count])
    BY <1>2 DEF PasskeyLogin
  <2>2. asks'[o] = [kind |-> "passkey", uid |-> u, pk |-> a.pk, who |-> NoIdentity,
                    count |-> a.count, stored |-> p.count]
    BY <1>t, <2>1 DEF Takes, SignInsTypeOK
  <2>3. IsLocal(u) /\ holder' = holder
    BY <1>2 DEF PasskeyLogin
  <2>4. Held(u)' /\ IsLocal(u)' /\ holder'[u].who = NoIdentity
    BY <1>t, <2>3 DEF IsLocal, Held, LocalsUnlinked
  <2> QED
    BY <2>1, <2>2, <2>4 DEF SignInHolds, Ahead
<1>3. ASSUME Resolve(o)
      PROVE  SignInHolds(o)'
  <2> DEFINE r == asks[o]
  <2>1. PICK u \in AccountFor(r) :
          /\ holder' = [holder EXCEPT ![u] = LinkedTo(IF Held(u) THEN @ ELSE OidcHolder(NoEmail), r)]
          /\ asks' = [asks EXCEPT ![o] = [kind |-> "linked", uid |-> u, pk |-> NoPasskey, who |-> r.who]]
    BY <1>3 DEF Resolve
  <2>2. u \in Holders
    BY DEF AccountFor, Linked, Pending, Holders
  <2> DEFINE old == IF Held(u) THEN holder[u] ELSE OidcHolder(NoEmail)
  <2>3. old \in HolderRecords
    BY <1>t, <2>2 DEF SignInsTypeOK, Held, OidcHolder, HolderRecords
  <2>4. holder'[u] = LinkedTo(old, r)
    BY <1>t, <2>1, <2>2 DEF SignInsTypeOK
  <2>5. holder'[u].who = r.who /\ holder'[u].source = old.source
    BY <2>3, <2>4 DEF LinkedTo, HolderRecords
  <2>6. Held(u)'
    BY <2>3, <2>5 DEF HolderRecords, NoHolder, Held
  <2>7. asks'[o] = [kind |-> "linked", uid |-> u, pk |-> NoPasskey, who |-> r.who]
    BY <1>t, <2>1 DEF SignInsTypeOK
  <2> QED
    BY <2>5, <2>6, <2>7 DEF SignInHolds
<1> QED
  BY <1>t, <1>1, <1>2, <1>3, NewSignIns

LEMMA StepCookies == SignInsIInv /\ [SignInsNext]_signInVars => CookiesShow'
<1> SUFFICES ASSUME SignInsIInv, [SignInsNext]_signInVars
             PROVE  CookiesShow'
  OBVIOUS
<1>t. SignInsTypeOK /\ SignInsHold /\ CookiesShow
  BY DEF SignInsIInv
<1>1. ASSUME NEW t \in Handlers, OpenSession(t) PROVE CookiesShow'
  <2>1. asks[t].kind \in {"passkey", "linked"}
    BY <1>t, <1>1 DEF SignInsTypeOK, OpenSession
  <2>2. Held(asks[t].uid) => holder[asks[t].uid].who = asks[t].who
    BY <1>t, <2>1 DEF SignInsHold, SignInHolds
  <2> QED
    BY <1>t, <1>1, <2>2 DEF OpenSession, CookiesShow
<1>2. ASSUME NEW t \in Handlers, WritesHolder(t) PROVE CookiesShow'
  BY <1>t, <1>2 DEF WritesHolder, CookiesShow, PasswordCookie
<1>3. CASE cookies' = cookies
  BY <1>t, <1>3 DEF CookiesShow
<1>4. cookies' = cookies \/ \E t \in Handlers : OpenSession(t) \/ WritesHolder(t)
  BY DEF SignInsNext, Asked, Written, AddPasskey, DropPasskey, PasskeyLogin, OidcCallback, AsksAccount,
         EditHolder, RemoveHolder, SignInRefused, DeviceSigns, DeviceSignsCountless, SavesProvider,
         WritesPasskey, WritesDrop, WritesCount, Resolve, WritesChange, WritesRemoval
<1> QED
  BY <1>1, <1>2, <1>3, <1>4

-----------------------------------------------------------------------------
(* Identities and passkeys.                                                *)

\* An account that is there has no passkey and no identity it had not.
Gains(v) ==
    Held(v)' => /\ holder'[v].passkeys \subseteq PasskeysOf(v)
                /\ (Held(v) /\ holder'[v].who = holder[v].who) \/ holder'[v].who = NoIdentity

LEMMA WritesGainNothing ==
  ASSUME SignInsTypeOK, NEW t \in Handlers,
         WritesDrop(t) \/ WritesHolder(t) \/ WritesChange(t) \/ WritesRemoval(t),
         NEW v \in Holders
  PROVE  Gains(v)
<1>t. Held(v) => holder[v] \in HolderRecords
  BY DEF SignInsTypeOK, Held
<1>0. CASE holder'[v] = holder[v]
  BY <1>0 DEF Gains, Held, PasskeysOf
<1>1. CASE WritesDrop(t)
  <2>1. asks[t].uid \in Holders
    BY <1>1 DEF SignInsTypeOK, WritesDrop, SignInRequests, NoRequest
  <2>2. PICK keys : keys = PasskeysOf(asks[t].uid) \ passkeyByID(asks[t].uid, asks[t].pk)
    OBVIOUS
  <2>3. PasskeysUpdate(asks[t].uid, keys)
    BY <1>1, <2>2 DEF WritesDrop
  <2>4. /\ Held(v)' = Held(v)
        /\ Held(v) => /\ holder'[v].who = holder[v].who
                      /\ holder'[v].passkeys = IF v = asks[t].uid THEN keys ELSE holder[v].passkeys
    BY <2>1, <2>3, UpdateGoesOn
  <2> QED
    BY <2>2, <2>4 DEF Gains, PasskeysOf
<1>2. CASE WritesHolder(t)
  <2>1. PICK u \in Members : Fresh(u) /\ holder' = [holder EXCEPT ![u] = asks[t].rec]
    BY <1>2 DEF WritesHolder
  <2>2. asks[t].rec.who = NoIdentity /\ asks[t].rec.passkeys = {}
    BY <1>2 DEF SignInsTypeOK, WritesHolder, SignInRequests, NoRequest
  <2> QED
    BY <1>0, <2>1, <2>2 DEF SignInsTypeOK, Gains
<1>3. CASE WritesChange(t)
  <2> DEFINE r == asks[t]
  <2>1. r.uid \in Holders /\ r.change.field \in {"enabled", "passkeys", "email"}
    BY <1>3 DEF SignInsTypeOK, WritesChange, SignInRequests, NoRequest, Holders
  <2>2. CASE v # r.uid \/ ~Held(v)
    <3>1. holder'[v] = holder[v]
      BY <1>3, <2>1, <2>2 DEF SignInsTypeOK, WritesChange
    <3> QED
      BY <1>0, <3>1
  <2>3. CASE v = r.uid /\ Held(v)
    <3>1. /\ holder'[v].who = holder[v].who
          /\ holder'[v].passkeys = holder[v].passkeys \/ holder'[v].passkeys = {}
      <4>1. CASE r.change.field = "enabled"
        BY <1>3, <1>t, <2>1, <2>3, <4>1 DEF SignInsTypeOK, WritesChange, HolderRecords
      <4>2. CASE r.change.field = "passkeys"
        BY <1>3, <1>t, <2>1, <2>3, <4>2 DEF SignInsTypeOK, WritesChange, HolderRecords
      <4>3. CASE r.change.field = "email"
        BY <1>3, <1>t, <2>1, <2>3, <4>3 DEF SignInsTypeOK, WritesChange, HolderRecords
      <4> QED
        BY <2>1, <4>1, <4>2, <4>3
    <3> QED
      BY <2>3, <3>1 DEF Gains, PasskeysOf
  <2> QED
    BY <2>2, <2>3
<1>4. CASE WritesRemoval(t)
  <2>1. holder'[v] = holder[v] \/ holder'[v] = NoHolder
    BY <1>4 DEF SignInsTypeOK, WritesRemoval
  <2> QED
    BY <1>0, <2>1 DEF Gains, Held
<1> QED
  BY <1>1, <1>2, <1>3, <1>4

\* A first sign-in links one account to an identity no other account has.
LEMMA ResolveLinks ==
  ASSUME SignInsTypeOK, LocalsUnlinked, NEW t \in Handlers, Resolve(t)
  PROVE  \E u \in Holders :
            /\ \A v \in Holders \ {u} : holder'[v] = holder[v]
            /\ Held(u)' /\ holder'[u].who = asks[t].who
            /\ holder'[u].passkeys = PasskeysOf(u)
            /\ \A v \in Holders : Held(v) /\ holder[v].who = asks[t].who => Held(u) /\ holder[u].who = asks[t].who
<1> DEFINE r == asks[t]
<1>1. PICK u \in AccountFor(r) :
        holder' = [holder EXCEPT ![u] = LinkedTo(IF Held(u) THEN @ ELSE OidcHolder(NoEmail), r)]
  BY DEF Resolve
<1>2. u \in Holders
  BY DEF AccountFor, Linked, Pending, Holders
<1> DEFINE old == IF Held(u) THEN holder[u] ELSE OidcHolder(NoEmail)
<1>3. old \in HolderRecords /\ old.passkeys = PasskeysOf(u)
  BY <1>2 DEF SignInsTypeOK, Held, OidcHolder, HolderRecords, PasskeysOf
<1>4. holder'[u] = LinkedTo(old, r)
  BY <1>1, <1>2 DEF SignInsTypeOK
<1>5. holder'[u].who = r.who /\ holder'[u].passkeys = old.passkeys /\ holder'[u].source = old.source
  BY <1>3, <1>4 DEF LinkedTo, HolderRecords
<1>6. Held(u)'
  BY <1>3, <1>5 DEF HolderRecords, NoHolder, Held
<1>7. \A v \in Holders \ {u} : holder'[v] = holder[v]
  BY <1>1 DEF SignInsTypeOK
<1>8. r.who # NoIdentity
  <2>1. r.who \in Identities
    BY DEF Resolve, SignInsTypeOK, SignInRequests, NoRequest
  <2> QED
    BY <2>1 DEF NoIdentity, Identities
<1>9. ASSUME NEW v \in Holders, Held(v), holder[v].who = r.who
      PROVE  v \in Linked(r.who)
  <2>1. ~IsLocal(v)
    BY <1>8, <1>9 DEF LocalsUnlinked
  <2>2. v # "owner" /\ holder[v] \in HolderRecords
    BY <1>9, <2>1 DEF SignInsTypeOK, LocalsUnlinked, Held
  <2> QED
    BY <1>9, <2>1, <2>2 DEF Linked, Holders, IsLocal, IsOidc, HolderRecords
<1>10. ASSUME NEW v \in Holders, Held(v), holder[v].who = r.who
       PROVE  Held(u) /\ holder[u].who = r.who
  <2>1. u \in Linked(r.who)
    BY <1>9, <1>10 DEF AccountFor
  <2> QED
    BY <2>1 DEF Linked, IsOidc
<1> QED
  BY <1>2, <1>3, <1>5, <1>6, <1>7, <1>10

\* The accounts that have a passkey more, or another counter.
LEMMA UpdateKeepsWho ==
  ASSUME SignInsTypeOK, NEW t \in Handlers, WritesPasskey(t) \/ WritesCount(t), NEW v \in Holders
  PROVE  Held(v)' = Held(v) /\ (Held(v) => holder'[v].who = holder[v].who)
<1>1. asks[t].uid \in Holders
  BY DEF SignInsTypeOK, WritesPasskey, WritesCount, SignInRequests, NoRequest
<1>2. (\E keys : PasskeysUpdate(asks[t].uid, keys)) \/ holder' = holder
  BY DEF WritesPasskey, WritesCount
<1> QED
  BY <1>1, <1>2, UpdateGoesOn DEF Held

LEMMA StepIdentities == SignInsIInv /\ [SignInsNext]_signInVars => IdentitiesDiffer'
<1> SUFFICES ASSUME SignInsIInv, [SignInsNext]_signInVars,
                    NEW u \in Holders, NEW v \in Holders, Held(u)', Held(v)',
                    holder'[u].who = holder'[v].who, holder'[u].who # NoIdentity
             PROVE  u = v
  BY DEF IdentitiesDiffer, Held
<1>t. SignInsTypeOK /\ LocalsUnlinked /\ IdentitiesDiffer
  BY DEF SignInsIInv
<1>1. CASE ~Writes
  <2>1. holder' = holder
    BY <1>1, OthersWriteNothing
  <2> QED
    BY <1>t, <2>1 DEF IdentitiesDiffer, Held
<1>2. ASSUME NEW t \in Handlers, WritesPasskey(t) \/ WritesCount(t) PROVE u = v
  <2>1. /\ Held(u) /\ holder'[u].who = holder[u].who
        /\ Held(v) /\ holder'[v].who = holder[v].who
    BY <1>t, <1>2, UpdateKeepsWho
  <2> QED
    BY <1>t, <2>1 DEF IdentitiesDiffer
<1>3. ASSUME NEW t \in Handlers, WritesDrop(t) \/ WritesHolder(t) \/ WritesChange(t) \/ WritesRemoval(t)
      PROVE  u = v
  <2>1. Gains(u) /\ Gains(v)
    BY <1>t, <1>3, WritesGainNothing
  <2> QED
    BY <1>t, <2>1 DEF Gains, IdentitiesDiffer
<1>4. ASSUME NEW t \in Handlers, Resolve(t) PROVE u = v
  <2>1. PICK w \in Holders :
           /\ \A x \in Holders \ {w} : holder'[x] = holder[x]
           /\ holder'[w].who = asks[t].who
           /\ \A x \in Holders : Held(x) /\ holder[x].who = asks[t].who => Held(w) /\ holder[w].who = asks[t].who
    BY <1>t, <1>4, ResolveLinks
  <2>2. ASSUME NEW x \in Holders, x # w, Held(x)', holder'[x].who = asks[t].who, asks[t].who # NoIdentity
        PROVE  FALSE
    <3>1. Held(x) /\ holder[x].who = asks[t].who
      BY <2>1, <2>2 DEF Held
    <3> QED
      BY <1>t, <2>1, <2>2, <3>1 DEF IdentitiesDiffer
  <2>3. CASE u # w /\ v # w
    BY <1>t, <2>1, <2>3 DEF IdentitiesDiffer, Held
  <2> QED
    BY <2>1, <2>2, <2>3
<1> QED
  BY <1>1, <1>2, <1>3, <1>4 DEF Writes

-----------------------------------------------------------------------------
\* What WritesPasskey and WritesCount leave on the accounts.
LEMMA PasskeyAdded ==
  ASSUME SignInsTypeOK, NEW t \in Handlers, WritesPasskey(t), NEW v \in Holders
  PROVE  /\ Held(v)' = Held(v)
         /\ Held(v) /\ v # asks[t].uid => holder'[v].passkeys = holder[v].passkeys
         /\ Held(v) /\ v = asks[t].uid =>
               /\ Cardinality(holder[v].passkeys) < passkeysMax
               /\ holder'[v].passkeys = holder[v].passkeys \cup {[id |-> asks[t].pk, count |-> asks[t].count]}
         /\ Held(v) => \A p \in holder[v].passkeys : p.id # asks[t].pk
<1>1. asks[t].uid \in Holders
  BY DEF SignInsTypeOK, WritesPasskey, SignInRequests, NoRequest
<1>2. PICK keys : keys = PasskeysOf(asks[t].uid) \cup {[id |-> asks[t].pk, count |-> asks[t].count]}
  OBVIOUS
<1>3. PasskeysUpdate(asks[t].uid, keys)
  BY <1>2 DEF WritesPasskey
<1>4. /\ Held(v)' = Held(v)
      /\ Held(v) => holder'[v].passkeys = IF v = asks[t].uid THEN keys ELSE holder[v].passkeys
  BY <1>1, <1>3, UpdateGoesOn
<1>5. /\ Cardinality(PasskeysOf(asks[t].uid)) < passkeysMax
      /\ Held(v) => \A p \in holder[v].passkeys : p.id # asks[t].pk
  BY DEF WritesPasskey, passkeyByID
<1> QED
  BY <1>2, <1>4, <1>5 DEF PasskeysOf

Counted(p, r) == IF p.id = r.pk THEN [p EXCEPT !.count = r.count] ELSE p

LEMMA CountWritten ==
  ASSUME SignInsTypeOK, NEW t \in Handlers, WritesCount(t), NEW v \in Holders
  PROVE  /\ Held(v)' = Held(v)
         /\ Held(v) => \/ holder'[v].passkeys = holder[v].passkeys
                       \/ /\ v = asks[t].uid
                          /\ holder'[v].passkeys = {Counted(p, asks[t]) : p \in holder[v].passkeys}
<1>1. asks[t].uid \in Holders
  BY DEF SignInsTypeOK, WritesCount, SignInRequests, NoRequest
<1>2. CASE holder' = holder
  BY <1>2 DEF Held
<1>3. CASE holder' # holder
  <2>1. PICK keys : keys = {Counted(p, asks[t]) : p \in PasskeysOf(asks[t].uid)}
    OBVIOUS
  <2>2. PasskeysUpdate(asks[t].uid, keys)
    BY <1>3, <2>1 DEF WritesCount, Counted
  <2>3. /\ Held(v)' = Held(v)
        /\ Held(v) => holder'[v].passkeys = IF v = asks[t].uid THEN keys ELSE holder[v].passkeys
    BY <1>1, <2>2, UpdateGoesOn
  <2> QED
    BY <2>1, <2>3 DEF PasskeysOf
<1> QED
  BY <1>2, <1>3

LEMMA StepFew == SignInsIInv /\ [SignInsNext]_signInVars => FewPasskeys'
<1> DEFINE Few(S) == IsFiniteSet(S) /\ Cardinality(S) <= passkeysMax
<1> SUFFICES ASSUME SignInsIInv, [SignInsNext]_signInVars, NEW v \in Holders, Held(v)'
             PROVE  Few(holder'[v].passkeys)
  BY DEF FewPasskeys, Held
<1>t. SignInsTypeOK /\ LocalsUnlinked /\ passkeysMax \in Nat
  BY SignInsAssumption DEF SignInsIInv
<1>p. Few(PasskeysOf(v))
  BY <1>t, FS_EmptySet DEF SignInsIInv, FewPasskeys, PasskeysOf
<1>s. \A S : S \subseteq PasskeysOf(v) => Few(S)
  <2> SUFFICES ASSUME NEW S, S \subseteq PasskeysOf(v) PROVE Few(S)
    OBVIOUS
  <2>1. IsFiniteSet(S) /\ Cardinality(S) <= Cardinality(PasskeysOf(v))
    BY <1>p, FS_Subset
  <2>2. Cardinality(S) \in Nat /\ Cardinality(PasskeysOf(v)) \in Nat
    BY <1>p, <2>1, FS_CardinalityType
  <2> QED
    BY <1>t, <1>p, <2>1, <2>2
<1>1. CASE ~Writes
  <2>1. holder' = holder
    BY <1>1, OthersWriteNothing
  <2> QED
    BY <1>s, <2>1 DEF PasskeysOf, Held
<1>2. ASSUME NEW t \in Handlers, WritesPasskey(t) PROVE Few(holder'[v].passkeys)
  <2>1. CASE v = asks[t].uid
    <3> DEFINE p == [id |-> asks[t].pk, count |-> asks[t].count]
    <3>1. Held(v) /\ Cardinality(PasskeysOf(v)) < passkeysMax /\ holder'[v].passkeys = PasskeysOf(v) \cup {p}
      BY <1>t, <1>2, <2>1, PasskeyAdded DEF PasskeysOf
    <3>2. /\ IsFiniteSet(PasskeysOf(v) \cup {p})
          /\ Cardinality(PasskeysOf(v) \cup {p}) =
                IF p \in PasskeysOf(v) THEN Cardinality(PasskeysOf(v)) ELSE Cardinality(PasskeysOf(v)) + 1
      BY <1>p, FS_AddElement
    <3>3. Cardinality(PasskeysOf(v)) \in Nat
      BY <1>p, FS_CardinalityType
    <3> QED
      BY <1>t, <3>1, <3>2, <3>3
  <2>2. CASE v # asks[t].uid
    BY <1>t, <1>2, <1>s, <2>2, PasskeyAdded DEF PasskeysOf
  <2> QED
    BY <2>1, <2>2
<1>3. ASSUME NEW t \in Handlers, WritesCount(t) PROVE Few(holder'[v].passkeys)
  <2>1. Held(v) /\ PasskeysOf(v) = holder[v].passkeys
    BY <1>t, <1>3, CountWritten DEF PasskeysOf
  <2>2. CASE holder'[v].passkeys = holder[v].passkeys
    BY <1>p, <2>1, <2>2
  <2>3. CASE holder'[v].passkeys = {Counted(p, asks[t]) : p \in holder[v].passkeys}
    <3> DEFINE S == holder[v].passkeys
               T == {Counted(p, asks[t]) : p \in S}
               f == [p \in S |-> Counted(p, asks[t])]
    <3>1. f \in [S -> T] /\ \A x \in T : \E p \in S : f[p] = x
      OBVIOUS
    <3>2. f \in Surjection(S, T)
      BY <3>1 DEF Surjection
    <3>3. IsFiniteSet(T) /\ Cardinality(T) <= Cardinality(S)
      <4> HIDE DEF f, S, T
      <4>1. IsFiniteSet(S)
        BY <1>p, <2>1 DEF S
      <4> QED
        BY <3>2, <4>1, FS_Surjection
    <3>4. Cardinality(T) \in Nat /\ Cardinality(S) \in Nat
      BY <1>p, <2>1, <3>3, FS_CardinalityType
    <3> QED
      BY <1>t, <1>p, <2>1, <2>3, <3>3, <3>4
  <2> QED
    BY <1>t, <1>3, <2>1, <2>2, <2>3, CountWritten
<1>4. ASSUME NEW t \in Handlers, WritesDrop(t) \/ WritesHolder(t) \/ WritesChange(t) \/ WritesRemoval(t)
      PROVE  Few(holder'[v].passkeys)
  BY <1>t, <1>s, <1>4, WritesGainNothing DEF Gains
<1>5. ASSUME NEW t \in Handlers, Resolve(t) PROVE Few(holder'[v].passkeys)
  <2>1. PICK w \in Holders :
           /\ \A x \in Holders \ {w} : holder'[x] = holder[x]
           /\ holder'[w].passkeys = PasskeysOf(w)
    BY <1>t, <1>5, ResolveLinks
  <2> QED
    BY <1>p, <2>1 DEF PasskeysOf, Held
<1> QED
  BY <1>1, <1>2, <1>3, <1>4, <1>5 DEF Writes

\* The passkeys a step leaves: they were there, but for the one it adds or the counter it
\* writes.
WasThere(v, q) == Held(v) /\ q \in holder[v].passkeys

LEMMA StepPasskeysKept ==
  ASSUME SignInsTypeOK, LocalsUnlinked, [SignInsNext]_signInVars, NEW v \in Holders, Held(v)',
         NEW q \in holder'[v].passkeys, ~WasThere(v, q)
  PROVE  \E t \in Handlers :
            \/ WritesPasskey(t) /\ v = asks[t].uid /\ q = [id |-> asks[t].pk, count |-> asks[t].count]
            \/ /\ WritesCount(t) /\ v = asks[t].uid /\ Held(v)
               /\ \E p \in holder[v].passkeys : p.id = asks[t].pk /\ q = [p EXCEPT !.count = asks[t].count]
<1>1. holder' # holder
  BY DEF WasThere, Held
<1>2. PICK t \in Handlers :
        \/ WritesPasskey(t) \/ WritesDrop(t) \/ WritesCount(t) \/ Resolve(t)
        \/ WritesHolder(t) \/ WritesChange(t) \/ WritesRemoval(t)
  BY <1>1, OthersWriteNothing DEF Writes
<1>3. CASE WritesPasskey(t)
  BY <1>3, PasskeyAdded DEF WasThere
<1>4. CASE WritesCount(t)
  <2>1. Held(v) /\ v = asks[t].uid /\ holder'[v].passkeys = {Counted(p, asks[t]) : p \in holder[v].passkeys}
    BY <1>4, CountWritten DEF WasThere
  <2>2. PICK p \in holder[v].passkeys : q = Counted(p, asks[t])
    BY <2>1
  <2> QED
    BY <1>4, <2>1, <2>2 DEF Counted, WasThere
<1>5. CASE WritesDrop(t) \/ WritesHolder(t) \/ WritesChange(t) \/ WritesRemoval(t)
  <2>1. Gains(v)
    BY <1>5, WritesGainNothing
  <2> QED
    BY <2>1 DEF Gains, WasThere, PasskeysOf
<1>6. CASE Resolve(t)
  <2>1. PICK w \in Holders :
           /\ \A x \in Holders \ {w} : holder'[x] = holder[x]
           /\ holder'[w].passkeys = PasskeysOf(w)
    BY <1>6, ResolveLinks
  <2> QED
    BY <2>1 DEF PasskeysOf, WasThere, Held
<1> QED
  BY <1>2, <1>3, <1>4, <1>5, <1>6

\* A passkey stays on one account, once.
LEMMA StepOne == SignInsIInv /\ [SignInsNext]_signInVars => OnePasskey'
<1> SUFFICES ASSUME SignInsIInv, [SignInsNext]_signInVars,
                    NEW u \in Holders, NEW v \in Holders, Held(u)', Held(v)',
                    NEW p \in holder'[u].passkeys, NEW q \in holder'[v].passkeys, p.id = q.id
             PROVE  u = v /\ p = q
  BY DEF OnePasskey, Held
<1>t. SignInsTypeOK /\ LocalsUnlinked /\ OnePasskey
  BY DEF SignInsIInv
<1>o. ASSUME NEW a \in PasskeysOf(u), NEW b \in PasskeysOf(v), a.id = b.id PROVE u = v /\ a = b
  BY <1>t, <1>o DEF OnePasskey, PasskeysOf
<1>1. CASE ~Writes
  <2>1. holder' = holder
    BY <1>1, OthersWriteNothing
  <2> QED
    BY <1>o, <2>1 DEF PasskeysOf, Held
<1>2. ASSUME NEW t \in Handlers, WritesPasskey(t) PROVE u = v /\ p = q
  <2> DEFINE n == [id |-> asks[t].pk, count |-> asks[t].count]
  <2>1. (p \in PasskeysOf(u) /\ p.id # n.id) \/ (u = asks[t].uid /\ p = n)
    BY <1>t, <1>2, PasskeyAdded DEF PasskeysOf
  <2>2. (q \in PasskeysOf(v) /\ q.id # n.id) \/ (v = asks[t].uid /\ q = n)
    BY <1>t, <1>2, PasskeyAdded DEF PasskeysOf
  <2> QED
    BY <1>o, <2>1, <2>2
<1>3. ASSUME NEW t \in Handlers, WritesCount(t) PROVE u = v /\ p = q
  <2> DEFINE Image(w) == {Counted(x, asks[t]) : x \in PasskeysOf(w)}
  <2>1. ASSUME NEW w \in Holders, Held(w)'
        PROVE  holder'[w].passkeys = PasskeysOf(w) \/ holder'[w].passkeys = Image(w)
    BY <1>t, <1>3, <2>1, CountWritten DEF PasskeysOf
  <2>2. ASSUME NEW w \in Holders, NEW x \in PasskeysOf(w) PROVE Counted(x, asks[t]).id = x.id
    <3>1. x \in [id: PasskeyIds, count: SignCounts]
      BY <1>t, <2>2, PasskeysOfType
    <3> QED
      BY <3>1 DEF Counted
  <2>3. PICK a \in PasskeysOf(u) : a.id = p.id
    BY <2>1, <2>2
  <2>4. PICK b \in PasskeysOf(v) : b.id = q.id
    BY <2>1, <2>2
  <2>5. u = v
    BY <1>o, <2>3, <2>4
  <2>6. CASE holder'[u].passkeys = PasskeysOf(u)
    BY <1>o, <2>5, <2>6
  <2>7. CASE holder'[u].passkeys = Image(u)
    <3>1. PICK x \in PasskeysOf(u) : p = Counted(x, asks[t])
      BY <2>7
    <3>2. PICK y \in PasskeysOf(u) : q = Counted(y, asks[t])
      BY <2>5, <2>7
    <3>3. x = y
      BY <1>o, <2>2, <2>5, <3>1, <3>2
    <3> QED
      BY <2>5, <3>1, <3>2, <3>3
  <2> QED
    BY <2>1, <2>6, <2>7
<1>4. ASSUME NEW t \in Handlers, WritesDrop(t) \/ WritesHolder(t) \/ WritesChange(t) \/ WritesRemoval(t)
      PROVE  u = v /\ p = q
  <2>1. Gains(u) /\ Gains(v)
    BY <1>t, <1>4, WritesGainNothing
  <2> QED
    BY <1>o, <2>1 DEF Gains
<1>5. ASSUME NEW t \in Handlers, Resolve(t) PROVE u = v /\ p = q
  <2>1. PICK w \in Holders :
           /\ \A x \in Holders \ {w} : holder'[x] = holder[x]
           /\ holder'[w].passkeys = PasskeysOf(w)
    BY <1>t, <1>5, ResolveLinks
  <2>2. p \in PasskeysOf(u) /\ q \in PasskeysOf(v)
    BY <2>1 DEF PasskeysOf, Held
  <2> QED
    BY <1>o, <2>2
<1> QED
  BY <1>1, <1>2, <1>3, <1>4, <1>5 DEF Writes

-----------------------------------------------------------------------------
(* The theorems.                                                           *)

LEMMA StepIInv == SignInsIInv /\ [SignInsNext]_signInVars => SignInsIInv'
BY SignInsStepTypes, StepLocals, StepSignIns, StepCookies, StepFew, StepOne, StepIdentities DEF SignInsIInv

LEMMA AlwaysIInv == SignInsSpec => []SignInsIInv
<1>1. SignInsInit => SignInsIInv
  BY InitSignIns
<1>2. SignInsIInv /\ [SignInsNext]_signInVars => SignInsIInv'
  BY StepIInv
<1> QED
  BY <1>1, <1>2, PTL DEF SignInsSpec

\* The types hold, and what a handler keeps agrees with where it is (the handlers of
\* passkeys.go, oidc.go and users.go).
THEOREM SignInsTypeCorrect == SignInsSpec => []SignInsTypeOK
<1>1. SignInsIInv => SignInsTypeOK
  BY DEF SignInsIInv
<1> QED
  BY <1>1, AlwaysIInv, PTL

\* A passkey and an identity lead to one account, and a session that is open was opened
\* with the identity of its account: the checks made again under cfgMu (passkeys.go:762,
\* oidc.go:345) are enough, whatever requests run together, and however many.
THEOREM OwnCredentials == SignInsSpec => []CredentialsAreOnesOwn
<1>1. SignInsIInv => CredentialsAreOnesOwn
  <2> SUFFICES ASSUME SignInsIInv PROVE CredentialsAreOnesOwn
    OBVIOUS
  <2>1. PasskeysDiffer
    BY DEF SignInsIInv, OnePasskey, FewPasskeys, PasskeysDiffer
  <2>2. SessionsShowIdentity
    BY DEF SignInsIInv, CookiesShow, SessionsShowIdentity, CookieOpens
  <2> QED
    BY <2>1, <2>2 DEF SignInsIInv, CredentialsAreOnesOwn
<1> QED
  BY <1>1, AlwaysIInv, PTL

\* A counter goes back only when a sign-in by that passkey is written which was checked
\* against another counter (passkeys.go:648 and the write after it): a counter nobody has
\* changed meanwhile advances.
THEOREM CounterGoesBackOnlyOvertaken == SignInsSpec => CounterOnlyOvertaken
<1> DEFINE Overtaken(u, p) ==
      \E t \in Handlers : doing[t] = "counting" /\ doing'[t] # "counting"
          /\ asks[t].uid = u /\ asks[t].pk = p.id /\ asks[t].stored # p.count
<1>1. ASSUME SignInsIInv, [SignInsNext]_signInVars, NEW u \in Holders, Held(u), Held(u)',
             NEW p \in holder[u].passkeys, NEW q \in holder'[u].passkeys, p.id = q.id, q.count < p.count
      PROVE  Overtaken(u, p)
  <2>t. SignInsTypeOK /\ LocalsUnlinked
    BY <1>1 DEF SignInsIInv
  <2>c. p.count \in Nat /\ q.count \in Nat
    <3>1. p.count \in SignCounts
      BY <1>1, <2>t DEF SignInsTypeOK, Held, HolderRecords
    <3>2. SignInsTypeOK'
      BY <1>1, SignInsStepTypes
    <3>3. q.count \in SignCounts
      BY <1>1, <3>2 DEF SignInsTypeOK, Held, HolderRecords
    <3> QED
      BY <3>1, <3>3, SignInsAssumption DEF SignCounts
  <2>1. ~WasThere(u, q)
    BY <1>1, <2>c DEF WasThere, SignInsIInv, OnePasskey
  <2>2. PICK t \in Handlers :
          \/ WritesPasskey(t) /\ u = asks[t].uid /\ q = [id |-> asks[t].pk, count |-> asks[t].count]
          \/ /\ WritesCount(t) /\ u = asks[t].uid
             /\ \E o \in holder[u].passkeys : o.id = asks[t].pk /\ q = [o EXCEPT !.count = asks[t].count]
    BY <1>1, <2>t, <2>1, StepPasskeysKept
  <2>3. ~WritesPasskey(t) \/ q.id # asks[t].pk
    BY <1>1, <2>t, PasskeyAdded
  <2>4. WritesCount(t) /\ u = asks[t].uid
    BY <2>2, <2>3
  <2>5. PICK o \in holder[u].passkeys : o.id = asks[t].pk /\ q = [o EXCEPT !.count = asks[t].count]
    BY <2>2, <2>3
  <2>6. q.id = asks[t].pk /\ q.count = asks[t].count
    <3>1. o \in [id: PasskeyIds, count: SignCounts]
      BY <1>1, <2>t DEF SignInsTypeOK, Held, HolderRecords
    <3> QED
      BY <2>5, <3>1
  <2>7. doing[t] = "counting" /\ doing'[t] # "counting"
    BY <2>4, <2>t DEF WritesCount, SignInsTypeOK
  <2>8. asks[t].stored # p.count
    <3>1. asks[t].kind = "passkey"
      BY <2>7, <2>t DEF SignInsTypeOK
    <3>2. Ahead(asks[t].count, asks[t].stored)
      BY <1>1, <3>1 DEF SignInsIInv, SignInsHold, SignInHolds
    <3> QED
      BY <1>1, <2>c, <2>6, <3>2 DEF Ahead
  <2> QED
    BY <1>1, <2>4, <2>6, <2>7, <2>8
<1>2. SignInsIInv /\ [SignInsNext]_signInVars =>
         [\A u \in Holders : Held(u) /\ Held(u)' =>
            \A p \in holder[u].passkeys, q \in holder'[u].passkeys :
               p.id = q.id /\ q.count < p.count => Overtaken(u, p)]_signInVars
  BY <1>1
<1> QED
  BY <1>2, InitSignIns, StepIInv, PTL DEF SignInsSpec, CounterOnlyOvertaken

-----------------------------------------------------------------------------
(* Passwords and sign-ins side by side: what is proved of each holds of    *)
(* the behaviours the two are explored in together.                        *)
LEMMA SideBySide == AccountsSpec => Spec /\ SignInsSpec
<1>1. AccountsInit => Init /\ SignInsInit
  BY DEF AccountsInit
<1>2. [InPasswords \/ InSignIns]_accountsVars => [Next]_vars /\ [SignInsNext]_signInVars
  BY DEF InPasswords, InSignIns, accountsVars
<1> QED
  BY <1>1, <1>2, PTL DEF AccountsSpec, Spec, SignInsSpec

(* Accounts, requests under way, hashes, passkeys, sign-ins and their      *)
(* numbers keep to their types and bounds in both parts.                   *)
THEOREM AccountsTypeCorrect == AccountsSpec => []AccountsTypeOK
  BY SideBySide, TypeCorrect, SignInsTypeCorrect, PTL DEF AccountsTypeOK
=============================================================================
