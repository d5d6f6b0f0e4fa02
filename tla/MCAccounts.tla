----------------------------- MODULE MCAccounts -----------------------------
(***************************************************************************)
(* Accounts and SignIns for TLC, side by side: a behaviour is one of the   *)
(* part that was picked, the other stays at its first state (each has its  *)
(* own picture of an account's record, and they share no variable).        *)
(*                                                                         *)
(* Nothing in them tells two identifiers, two names, two passwords or two  *)
(* threads apart, nor two subjects, and their properties are safety only.  *)
(* (Members are the Uids, Handlers the Threads and Subjects the Passwords: *)
(* one permutation serves both parts.)  In "signins" the owner has no      *)
(* passkey at first; others may have one.                                  *)
(***************************************************************************)
EXTENDS Accounts, SignIns, TLC

VARIABLE part

accountsVars == <<part, vars, signInVars>>

Symmetry ==
    Permutations(Uids) \cup Permutations(Names) \cup Permutations(Passwords)
    \cup Permutations(Threads)

OnlyTheOwner == [u \in Holders |-> IF u = "owner" THEN LocalHolder({}) ELSE NoHolder]

AccountsInit ==
    /\ part \in {"passwords", "signins"}
    /\ Init /\ SignInsInit
    /\ provider.auto_create
    /\ part = "passwords" => holder = OnlyTheOwner
    /\ part = "signins" => account = [u \in Ids |-> Nobody] /\ holder["owner"].passkeys = {}

InPasswords == part = "passwords" /\ Next /\ UNCHANGED <<part, signInVars>>
InSignIns == part = "signins" /\ SignInsNext /\ UNCHANGED <<part, vars>>

AccountsSpec == AccountsInit /\ [][InPasswords \/ InSignIns]_accountsVars

(* Both parts keep to their types and their bounds. *)
AccountsTypeOK == TypeOK /\ SignInsTypeOK
=============================================================================
