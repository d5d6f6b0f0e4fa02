--------------------------- MODULE InstanceStatus ---------------------------
(***************************************************************************)
(* What standalone mode promises about an instance, without timers, locks  *)
(* or processes: the state the panel shows for it, and the orders to start *)
(* it that requests have given.  An instance that was stopped runs again   *)
(* only by carrying out an order; an instance that fell on its own comes   *)
(* back, or is given up.                                                   *)
(***************************************************************************)
CONSTANTS Procs, Threads

VARIABLES
    status,   \* per instance: see States
    orders    \* per instance: the threads with an order to start it

vars == <<status, orders>>

\* "stopping" is shown as active: the program runs and must not any longer.
States == {"inactive", "active", "stopping", "activating"}

TypeOK == /\ status \in [Procs -> States]
          /\ orders \in [Procs -> SUBSET Threads]

Init == /\ status = [p \in Procs |-> "inactive"]
        /\ orders = [p \in Procs |-> {}]

Becomes(p, s) == status' = [status EXCEPT ![p] = s]

Order(p, t) == /\ t \notin orders[p]
               /\ orders' = [orders EXCEPT ![p] = @ \cup {t}]
               /\ UNCHANGED status

\* An order is carried out whatever the state: the instance is active.
CarryOut(p, t) == /\ t \in orders[p]
                  /\ orders' = [orders EXCEPT ![p] = @ \ {t}]
                  /\ Becomes(p, "active")

\* An order that cannot be carried out: nothing else changes.
Withdraw(p, t) == /\ t \in orders[p]
                  /\ orders' = [orders EXCEPT ![p] = @ \ {t}]
                  /\ UNCHANGED status

Stop(p) == /\ \/ status[p] = "active" /\ Becomes(p, "stopping")
              \/ status[p] = "activating" /\ Becomes(p, "inactive")
           /\ UNCHANGED orders

\* The program ends.
End(p) == /\ \/ status[p] = "active" /\ Becomes(p, "activating")
             \/ status[p] = "stopping" /\ Becomes(p, "inactive")
          /\ UNCHANGED orders

\* The restart after an unexpected end, or its abandon.
Restart(p) == /\ status[p] = "activating"
              /\ Becomes(p, "active") \/ Becomes(p, "inactive")
              /\ UNCHANGED orders

Next == \E p \in Procs :
            \/ \E t \in Threads : Order(p, t) \/ CarryOut(p, t) \/ Withdraw(p, t)
            \/ Stop(p) \/ End(p) \/ Restart(p)

Spec == Init /\ [][Next]_vars
=============================================================================
