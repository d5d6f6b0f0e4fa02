--------------------------- MODULE EventDelivery ----------------------------
(***************************************************************************)
(* What the notifications promise a webhook, without a queue, a worker,    *)
(* attempts or cooldowns: the events that happen are numbered, each is due *)
(* to every hook, and a hook is sent the first event due to it, once or    *)
(* several times, until it is done with or lost.  What is lost is the      *)
(* first event due, to some hooks, or all that is due, when the panel      *)
(* starts again; nothing is ever due again.                                *)
(***************************************************************************)
EXTENDS Naturals

CONSTANT Hooks

VARIABLES
    sent,      \* number of the last event
    due,       \* per hook: the events it has yet to be sent, or is being sent
    received   \* per hook: the last event it received

vars == <<sent, due, received>>

Init == /\ sent = 0
        /\ due = [h \in Hooks |-> {}]
        /\ received = [h \in Hooks |-> 0]

\* n is the next event for h.
First(n, h) == n \in due[h] /\ \A m \in due[h] : n <= m

Happens == /\ sent' = sent + 1
           /\ due' = [h \in Hooks |-> due[h] \cup {sent + 1}]
           /\ UNCHANGED received

\* A hook receives the first event due to it, and the panel learns it, or does not.
Deliver(h, n) == /\ First(n, h)
                 /\ received' = [received EXCEPT ![h] = n]
                 /\ due' = due \/ due' = [due EXCEPT ![h] = @ \ {n}]
                 /\ UNCHANGED sent

\* The hooks of H are not sent event n, the first that is due to them.
Lose(H, n) == /\ \A h \in H : First(n, h)
              /\ due' = [h \in Hooks |-> IF h \in H THEN due[h] \ {n} ELSE due[h]]
              /\ UNCHANGED <<sent, received>>

Forget == /\ due' = [h \in Hooks |-> {}]
          /\ UNCHANGED <<sent, received>>

Next == \/ Happens \/ Forget
        \/ \E h \in Hooks : \E n \in due[h] : Deliver(h, n)
        \/ \E H \in SUBSET Hooks : \E n \in UNION {due[h] : h \in H} : Lose(H, n)

Spec == Init /\ [][Next]_vars
=============================================================================
