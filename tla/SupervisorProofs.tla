-------------------------- MODULE SupervisorProofs --------------------------
(***************************************************************************)
(* What the supervisor guarantees for every set of instances, every number *)
(* of threads and every number of requests.                                *)
(***************************************************************************)
EXTENDS Supervisor, TLAPS

\* p.retry names an armed timer only while there is one.
RetryCounted == \A p \in Procs : retry[p] = "armed" => timers[p] > 0

\* The inductive invariant.  Types need RetryCounted (cancelling an armed timer leaves
\* a natural number); OneProcess and WatchesTheProcess need each other's cmd.
IInv == TypeOK /\ RetryCounted /\ OneProcess /\ WatchesTheProcess

USE DEF vars, procVars, relaunchVars, fileVars, threadVars

\* Init satisfies the inductive invariant.
LEMMA InitIInv == Init => IInv
  BY SupervisorAssumption
  DEF Init, IInv, TypeOK, RetryCounted, OneProcess, WatchesTheProcess, Ops, StartOps, PCs, Waiting

\* Every step keeps the types, and the timer p.retry names counted.
LEMMA StepTypes == IInv /\ [Next]_vars => TypeOK' /\ RetryCounted'
<1> SUFFICES ASSUME IInv, [Next]_vars
             PROVE  TypeOK' /\ RetryCounted'
  OBVIOUS
<1> USE DEF IInv, TypeOK, RetryCounted, Ops, StartOps, PCs, Waiting
<1>1. ASSUME NEW t \in Threads, NEW o \in Ops, NEW p \in Procs, Request(t, o, p)
      PROVE  TypeOK' /\ RetryCounted'
  BY <1>1 DEF Request, Goto
<1>2. ASSUME NEW t \in Threads, StartFindsRunning(t)
      PROVE  TypeOK' /\ RetryCounted'
  BY <1>2 DEF StartFindsRunning, NoLaunch, Goto, AtStart
<1>3. ASSUME NEW t \in Threads, StartFails(t)
      PROVE  TypeOK' /\ RetryCounted'
  BY <1>3 DEF StartFails, CancelRetry, NoLaunch, Goto, AtStart
<1>4. ASSUME NEW t \in Threads, StartLaunches(t)
      PROVE  TypeOK' /\ RetryCounted'
  BY <1>4 DEF StartLaunches, CancelRetry, Launch, Goto, AtStart
<1>5. ASSUME NEW t \in Threads, StartReturns(t)
      PROVE  TypeOK' /\ RetryCounted'
  BY <1>5 DEF StartReturns, Goto
<1>6. ASSUME NEW t \in Threads, StopLocks(t)
      PROVE  TypeOK' /\ RetryCounted'
  BY <1>6 DEF StopLocks, CancelRetry, NoLaunch, Goto, AtStop, AfterStop
<1>7. ASSUME NEW t \in Threads, StopSucceeds(t)
      PROVE  TypeOK' /\ RetryCounted'
  BY <1>7 DEF StopSucceeds, Goto, AfterStop
<1>8. ASSUME NEW t \in Threads, StopKills(t)
      PROVE  TypeOK' /\ RetryCounted'
  BY <1>8 DEF StopKills, Goto
<1>9. ASSUME NEW t \in Threads, StopGivesUp(t)
      PROVE  TypeOK' /\ RetryCounted'
  BY <1>9 DEF StopGivesUp, Goto, AfterFailedStop
<1>10. ASSUME NEW t \in Threads, SetAutostart(t)
      PROVE  TypeOK' /\ RetryCounted'
  BY <1>10 DEF SetAutostart, Lists, Goto
<1>11. ASSUME NEW t \in Threads, Forget(t)
      PROVE  TypeOK' /\ RetryCounted'
  BY <1>11 DEF Forget, Lists, Goto
<1>12. ASSUME NEW t \in Threads, Remove(t)
      PROVE  TypeOK' /\ RetryCounted'
  BY <1>12 DEF Remove, Goto
<1>13. ASSUME NEW t \in Threads, RemoveRefused(t)
      PROVE  TypeOK' /\ RetryCounted'
  BY <1>13 DEF RemoveRefused, Goto
<1>14. ASSUME NEW p \in Procs, Dies(p)
      PROVE  TypeOK' /\ RetryCounted'
  BY <1>14 DEF Dies
<1>15. ASSUME NEW p \in Procs, Reap(p)
      PROVE  TypeOK' /\ RetryCounted'
  BY <1>15 DEF Reap, ArmRetry
<1>16. ASSUME NEW p \in Procs, RetryFires(p)
      PROVE  TypeOK' /\ RetryCounted'
  BY <1>16 DEF RetryFires
<1>17. ASSUME NEW p \in Procs, StrayTimerFires(p)
      PROVE  TypeOK' /\ RetryCounted'
  BY <1>17 DEF StrayTimerFires
<1>18. ASSUME NEW p \in Procs, RelaunchReads(p)
      PROVE  TypeOK' /\ RetryCounted'
  BY <1>18 DEF RelaunchReads
<1>19. ASSUME NEW p \in Procs, RelaunchFound(p)
      PROVE  TypeOK' /\ RetryCounted'
  <2>1. FoundEnds(p)
    BY <1>19 DEF RelaunchFound
  <2>2. CASE RelaunchUseless(p)
    BY <2>1, <2>2 DEF FoundEnds, RelaunchUseless, NoLaunch
  <2>3. CASE RelaunchLaunches(p)
    BY <2>1, <2>3 DEF FoundEnds, RelaunchLaunches, Launch
  <2>4. CASE RelaunchFails(p)
    BY <2>1, <2>4 DEF FoundEnds, RelaunchFails, ArmRetry, NoLaunch
  <2>5. QED
    BY <1>19, <2>2, <2>3, <2>4 DEF RelaunchFound
<1>20. ASSUME NEW p \in Procs, RelaunchGone(p)
      PROVE  TypeOK' /\ RetryCounted'
  <2>1. GoneEnds(p)
    BY <1>20 DEF RelaunchGone
  <2>2. CASE RelaunchUseless(p)
    BY <2>1, <2>2 DEF GoneEnds, RelaunchUseless, NoLaunch
  <2>3. CASE RelaunchGivesUp(p)
    BY <2>1, <2>3 DEF GoneEnds, RelaunchGivesUp, NoLaunch
  <2>4. QED
    BY <1>20, <2>2, <2>3 DEF RelaunchGone
<1>21. ASSUME NEW p \in Procs, FilesAppear(p)
      PROVE  TypeOK' /\ RetryCounted'
  BY <1>21 DEF FilesAppear
<1>22. ASSUME NEW p \in Procs, ProgramBreaks(p)
      PROVE  TypeOK' /\ RetryCounted'
  BY <1>22 DEF ProgramBreaks
<1>23. CASE UNCHANGED vars
  BY <1>23
<1>24. QED
  BY <1>1, <1>2, <1>3, <1>4, <1>5, <1>6, <1>7, <1>8, <1>9, <1>10, <1>11, <1>12,
     <1>13, <1>14, <1>15, <1>16, <1>17, <1>18, <1>19, <1>20, <1>21, <1>22, <1>23
  DEF Next, ThreadStep, StartStep, StopStep, FileStep, ProcStep, Outside

\* Every step keeps one process per instance, and the watchers on it.
LEMMA StepProcesses == IInv /\ [Next]_vars => OneProcess' /\ WatchesTheProcess'
<1> SUFFICES ASSUME IInv, [Next]_vars
             PROVE  OneProcess' /\ WatchesTheProcess'
  OBVIOUS
<1> USE DEF IInv, TypeOK, OneProcess, WatchesTheProcess, Waiting
<1>1. ASSUME NEW t \in Threads, NEW o \in Ops, NEW p \in Procs, Request(t, o, p)
      PROVE  OneProcess' /\ WatchesTheProcess'
  BY <1>1 DEF Request, Goto
<1>2. ASSUME NEW t \in Threads, StartFindsRunning(t)
      PROVE  OneProcess' /\ WatchesTheProcess'
  BY <1>2 DEF StartFindsRunning, NoLaunch, Goto, AtStart
<1>3. ASSUME NEW t \in Threads, StartFails(t)
      PROVE  OneProcess' /\ WatchesTheProcess'
  BY <1>3 DEF StartFails, CancelRetry, NoLaunch, Goto, AtStart
<1>4. ASSUME NEW t \in Threads, StartLaunches(t)
      PROVE  OneProcess' /\ WatchesTheProcess'
  BY <1>4 DEF StartLaunches, CancelRetry, Launch, Goto, AtStart
<1>5. ASSUME NEW t \in Threads, StartReturns(t)
      PROVE  OneProcess' /\ WatchesTheProcess'
  BY <1>5 DEF StartReturns, Goto
<1>6. ASSUME NEW t \in Threads, StopLocks(t)
      PROVE  OneProcess' /\ WatchesTheProcess'
  BY <1>6 DEF StopLocks, CancelRetry, NoLaunch, Goto, AtStop, AfterStop
<1>7. ASSUME NEW t \in Threads, StopSucceeds(t)
      PROVE  OneProcess' /\ WatchesTheProcess'
  BY <1>7 DEF StopSucceeds, Goto, AfterStop
<1>8. ASSUME NEW t \in Threads, StopKills(t)
      PROVE  OneProcess' /\ WatchesTheProcess'
  BY <1>8 DEF StopKills, Goto
<1>9. ASSUME NEW t \in Threads, StopGivesUp(t)
      PROVE  OneProcess' /\ WatchesTheProcess'
  BY <1>9 DEF StopGivesUp, Goto, AfterFailedStop
<1>10. ASSUME NEW t \in Threads, SetAutostart(t)
      PROVE  OneProcess' /\ WatchesTheProcess'
  BY <1>10 DEF SetAutostart, Lists, Goto
<1>11. ASSUME NEW t \in Threads, Forget(t)
      PROVE  OneProcess' /\ WatchesTheProcess'
  BY <1>11 DEF Forget, Lists, Goto
<1>12. ASSUME NEW t \in Threads, Remove(t)
      PROVE  OneProcess' /\ WatchesTheProcess'
  BY <1>12 DEF Remove, Goto
<1>13. ASSUME NEW t \in Threads, RemoveRefused(t)
      PROVE  OneProcess' /\ WatchesTheProcess'
  BY <1>13 DEF RemoveRefused, Goto
<1>14. ASSUME NEW p \in Procs, Dies(p)
      PROVE  OneProcess' /\ WatchesTheProcess'
  BY <1>14 DEF Dies
<1>15. ASSUME NEW p \in Procs, Reap(p)
      PROVE  OneProcess' /\ WatchesTheProcess'
  <2>1. OneProcess'
    BY <1>15 DEF Reap
  <2>2. ASSUME NEW t \in Threads, open'[t]
        PROVE  pc'[t] \in Waiting /\ cmd'[on'[t]]
    <3>1. open[t] /\ on[t] # p
      BY <1>15, <2>2, Zenon DEF Reap
    <3>2. QED
      BY <1>15, <3>1 DEF Reap
  <2>3. QED
    BY <2>1, <2>2
<1>16. ASSUME NEW p \in Procs, RetryFires(p)
      PROVE  OneProcess' /\ WatchesTheProcess'
  BY <1>16 DEF RetryFires
<1>17. ASSUME NEW p \in Procs, StrayTimerFires(p)
      PROVE  OneProcess' /\ WatchesTheProcess'
  BY <1>17 DEF StrayTimerFires
<1>18. ASSUME NEW p \in Procs, RelaunchReads(p)
      PROVE  OneProcess' /\ WatchesTheProcess'
  BY <1>18 DEF RelaunchReads
<1>19. ASSUME NEW p \in Procs, RelaunchFound(p)
      PROVE  OneProcess' /\ WatchesTheProcess'
  <2>1. FoundEnds(p)
    BY <1>19 DEF RelaunchFound
  <2>2. CASE RelaunchUseless(p)
    BY <2>1, <2>2 DEF FoundEnds, RelaunchUseless, NoLaunch
  <2>3. CASE RelaunchLaunches(p)
    BY <2>1, <2>3 DEF FoundEnds, RelaunchLaunches, Launch
  <2>4. CASE RelaunchFails(p)
    BY <2>1, <2>4 DEF FoundEnds, RelaunchFails, ArmRetry, NoLaunch
  <2>5. QED
    BY <1>19, <2>2, <2>3, <2>4 DEF RelaunchFound
<1>20. ASSUME NEW p \in Procs, RelaunchGone(p)
      PROVE  OneProcess' /\ WatchesTheProcess'
  <2>1. GoneEnds(p)
    BY <1>20 DEF RelaunchGone
  <2>2. CASE RelaunchUseless(p)
    BY <2>1, <2>2 DEF GoneEnds, RelaunchUseless, NoLaunch
  <2>3. CASE RelaunchGivesUp(p)
    BY <2>1, <2>3 DEF GoneEnds, RelaunchGivesUp, NoLaunch
  <2>4. QED
    BY <1>20, <2>2, <2>3 DEF RelaunchGone
<1>21. ASSUME NEW p \in Procs, FilesAppear(p)
      PROVE  OneProcess' /\ WatchesTheProcess'
  BY <1>21 DEF FilesAppear
<1>22. ASSUME NEW p \in Procs, ProgramBreaks(p)
      PROVE  OneProcess' /\ WatchesTheProcess'
  BY <1>22 DEF ProgramBreaks
<1>23. CASE UNCHANGED vars
  BY <1>23
<1>24. QED
  BY <1>1, <1>2, <1>3, <1>4, <1>5, <1>6, <1>7, <1>8, <1>9, <1>10, <1>11, <1>12,
     <1>13, <1>14, <1>15, <1>16, <1>17, <1>18, <1>19, <1>20, <1>21, <1>22, <1>23
  DEF Next, ThreadStep, StartStep, StopStep, FileStep, ProcStep, Outside

\* The inductive invariant holds in every reachable state.
LEMMA Inductive == Spec => []IInv
<1>1. Init => IInv
  BY InitIInv
<1>2. IInv /\ [Next]_vars => IInv'
  BY StepTypes, StepProcesses DEF IInv
<1>3. QED
  BY <1>1, <1>2, PTL DEF Spec

\* Every variable keeps its type, for all instances, threads and requests.
THEOREM TypeCorrect == Spec => []TypeOK
<1>1. IInv => TypeOK
  BY DEF IInv
<1>2. QED
  BY <1>1, Inductive, PTL

\* launchLocked is never reached twice: no instance ever has two processes.
THEOREM OneProcessAlways == Spec => []OneProcess
<1>1. IInv => OneProcess
  BY DEF IInv
<1>2. QED
  BY <1>1, Inductive, PTL

\* A stop in progress waits for the process that runs, or for none.
THEOREM WatchersAlways == Spec => []WatchesTheProcess
<1>1. IInv => WatchesTheProcess
  BY DEF IInv
<1>2. QED
  BY <1>1, Inductive, PTL

-----------------------------------------------------------------------------
(* The supervisor implements InstanceStatus.                               *)

\* Only a restart reaches p.start after its stop.
StartingIsRestart == \A t \in Threads : pc[t] = "starting" => op[t] = "restart"

\* A thread that is past its stop and starts is the thread of a restart.
LEMMA StartingInvariant == Spec => []StartingIsRestart
<1>1. Init => StartingIsRestart
  BY DEF Init, StartingIsRestart
<1>2. TypeOK /\ StartingIsRestart /\ [Next]_vars => StartingIsRestart'
  <2> SUFFICES ASSUME TypeOK, StartingIsRestart, [Next]_vars
               PROVE  StartingIsRestart'
    OBVIOUS
  <2> USE DEF TypeOK, StartingIsRestart, Goto
  <2>1. ASSUME NEW t \in Threads, NEW o \in Ops, NEW p \in Procs, Request(t, o, p)
        PROVE  StartingIsRestart'
    BY <2>1 DEF Request
  <2>2. ASSUME NEW t \in Threads, StartStep(t)
        PROVE  StartingIsRestart'
    BY <2>2 DEF StartStep, StartFindsRunning, StartFails, StartLaunches, StartReturns
  <2>3. ASSUME NEW t \in Threads, StopStep(t)
        PROVE  StartingIsRestart'
    BY <2>3 DEF StopStep, StopLocks, StopSucceeds, StopKills, StopGivesUp, AfterStop, AfterFailedStop
  <2>4. ASSUME NEW t \in Threads, FileStep(t)
        PROVE  StartingIsRestart'
    BY <2>4 DEF FileStep, SetAutostart, Forget, Lists, Remove, RemoveRefused
  <2>5. ASSUME NEW p \in Procs, ProcStep(p) \/ Outside(p)
        PROVE  UNCHANGED <<pc, op>>
    BY <2>5 DEF ProcStep, Outside, Reap, RetryFires, StrayTimerFires, RelaunchReads,
       RelaunchFound, RelaunchGone, RelaunchUseless, RelaunchGivesUp, RelaunchLaunches,
       RelaunchFails, Dies, FilesAppear, ProgramBreaks
  <2>6. CASE UNCHANGED vars
    BY <2>6
  <2>7. QED
    BY <2>1, <2>2, <2>3, <2>4, <2>5, <2>6 DEF Next, ThreadStep
<1>3. QED
  BY <1>1, <1>2, TypeCorrect, PTL DEF Spec

\* The threads of Ordering(t), and their instances, decide the orders.
LEMMA OrdersFrame ==
    ASSUME \A t \in Threads : Ordering(t)' <=> Ordering(t),
           \A t \in Threads : Ordering(t) => on'[t] = on[t]
    PROVE  \A p \in Procs : OrdersFor(p)' = OrdersFor(p)
  BY DEF OrdersFor

\* cmd and wanted decide the status.
LEMMA StatusFrame ==
    ASSUME UNCHANGED <<cmd, wanted>>
    PROVE  \A p \in Procs : StatusOf(p)' = StatusOf(p)
  BY DEF StatusOf

\* A step that changes neither is a stuttering step of InstanceStatus.
LEMMA Stutter ==
    ASSUME \A p \in Procs : StatusOf(p)' = StatusOf(p),
           \A p \in Procs : OrdersFor(p)' = OrdersFor(p)
    PROVE  UNCHANGED Status!vars
  BY DEF Status!vars

\* A thread that gives up an order without effect withdraws it.
LEMMA Withdraws ==
    ASSUME NEW t \in Threads, on[t] \in Procs, UNCHANGED <<cmd, wanted, on, op>>,
           Ordering(t), ~Ordering(t)',
           \A u \in Threads \ {t} : Ordering(u)' <=> Ordering(u)
    PROVE  Status!Next
<1>1. \A p \in Procs : StatusOf(p)' = StatusOf(p)
  BY StatusFrame
<1>2. /\ t \in OrdersFor(on[t])
      /\ OrdersFor(on[t])' = OrdersFor(on[t]) \ {t}
      /\ \A p \in Procs : p # on[t] => OrdersFor(p)' = OrdersFor(p)
  BY DEF OrdersFor
<1>3. Status!Withdraw(on[t], t)
  BY <1>1, <1>2 DEF Status!Withdraw
<1>4. QED
  BY <1>3 DEF Status!Next

\* A thread that makes its instance run and wanted carries out its order.
LEMMA CarriesOut ==
    ASSUME NEW t \in Threads, on[t] \in Procs, UNCHANGED <<on, op>>,
           Ordering(t), ~Ordering(t)',
           \A u \in Threads \ {t} : Ordering(u)' <=> Ordering(u),
           StatusOf(on[t])' = "active",
           \A p \in Procs : p # on[t] => StatusOf(p)' = StatusOf(p)
    PROVE  Status!Next
<1>1. /\ t \in OrdersFor(on[t])
      /\ OrdersFor(on[t])' = OrdersFor(on[t]) \ {t}
      /\ \A p \in Procs : p # on[t] => OrdersFor(p)' = OrdersFor(p)
  BY DEF OrdersFor
<1>2. Status!CarryOut(on[t], t)
  BY <1>1 DEF Status!CarryOut, Status!Becomes
<1>3. QED
  BY <1>2 DEF Status!Next

\* A step of one instance that no order is about.
LEMMA Moves ==
    ASSUME NEW p \in Procs,
           \A q \in Procs : OrdersFor(q)' = OrdersFor(q),
           \A q \in Procs : q # p => StatusOf(q)' = StatusOf(q),
           <<StatusOf(p), StatusOf(p)'>> \in
              {<<"active", "stopping">>, <<"activating", "inactive">>,
               <<"active", "activating">>, <<"stopping", "inactive">>,
               <<"activating", "active">>}
    PROVE  Status!Next
<1>1. Status!Stop(p) \/ Status!End(p) \/ Status!Restart(p)
  BY DEF Status!Stop, Status!End, Status!Restart, Status!Becomes
<1>2. QED
  BY <1>1 DEF Status!Next

\* Every step of the supervisor is a step of InstanceStatus, or none.
LEMMA StepRefines ==
    IInv /\ StartingIsRestart /\ [Next]_vars => [Status!Next]_(Status!vars)
<1> SUFFICES ASSUME IInv, StartingIsRestart, [Next]_vars
             PROVE  Status!Next \/ UNCHANGED Status!vars
  OBVIOUS
<1> USE DEF IInv, TypeOK
<1>1. ASSUME NEW t \in Threads, NEW o \in Ops, NEW p \in Procs, Request(t, o, p)
      PROVE  Status!Next \/ UNCHANGED Status!vars
  <2>1. \A q \in Procs : StatusOf(q)' = StatusOf(q)
    BY <1>1, StatusFrame DEF Request
  <2>2. ~Ordering(t) /\ \A u \in Threads \ {t} : Ordering(u)' <=> Ordering(u)
    BY <1>1 DEF Request, Ordering, Goto
  <2>3. CASE o \in StartOps
    <3>1. Ordering(t)'
      BY <1>1, <2>3 DEF Request, Ordering, Goto
    <3>2. /\ t \notin OrdersFor(p)
          /\ OrdersFor(p)' = OrdersFor(p) \cup {t}
          /\ \A q \in Procs : q # p => OrdersFor(q)' = OrdersFor(q)
      BY <1>1, <2>2, <3>1 DEF Request, OrdersFor
    <3>3. Status!Order(p, t)
      BY <2>1, <3>2 DEF Status!Order
    <3>4. QED
      BY <3>3 DEF Status!Next
  <2>4. CASE o \notin StartOps
    <3>1. ~Ordering(t)'
      BY <1>1, <2>4 DEF Request, Ordering, Goto, StartOps
    <3>2. \A u \in Threads : Ordering(u) => on'[u] = on[u]
      BY <1>1, <2>2 DEF Request
    <3>3. QED
      BY <2>1, <2>2, <3>1, <3>2, OrdersFrame, Stutter
  <2>5. QED
    BY <2>3, <2>4
<1>2. ASSUME NEW t \in Threads, StartFindsRunning(t) \/ StartLaunches(t)
      PROVE  Status!Next
  <2>1. Ordering(t) /\ ~Ordering(t)' /\ \A u \in Threads \ {t} : Ordering(u)' <=> Ordering(u)
    BY <1>2 DEF StartingIsRestart, StartFindsRunning, StartLaunches, AtStart, Goto, Ordering, StartOps
  <2>2. /\ StatusOf(on[t])' = "active"
        /\ \A p \in Procs : p # on[t] => StatusOf(p)' = StatusOf(p)
    BY <1>2 DEF StartFindsRunning, StartLaunches, Launch, NoLaunch, StatusOf
  <2>3. on[t] \in Procs /\ UNCHANGED <<on, op>>
    BY <1>2 DEF StartFindsRunning, StartLaunches
  <2>4. QED
    BY <2>1, <2>2, <2>3, CarriesOut
<1>3. ASSUME NEW t \in Threads, StartFails(t)
      PROVE  Status!Next
  <2>1. Ordering(t) /\ ~Ordering(t)' /\ \A u \in Threads \ {t} : Ordering(u)' <=> Ordering(u)
    BY <1>3 DEF StartingIsRestart, StartFails, AtStart, Goto, Ordering, StartOps
  <2>2. on[t] \in Procs /\ UNCHANGED <<cmd, wanted, on, op>>
    BY <1>3 DEF StartFails, NoLaunch
  <2>3. QED
    BY <2>1, <2>2, Withdraws
<1>4. ASSUME NEW t \in Threads,
             StartReturns(t) \/ StopSucceeds(t) \/ StopKills(t) \/ FileStep(t)
      PROVE  UNCHANGED Status!vars
  <2>1. \A u \in Threads : Ordering(u)' <=> Ordering(u)
    BY <1>4 DEF StartReturns, StopSucceeds, StopKills, FileStep, SetAutostart, Forget, Remove,
       RemoveRefused, AfterStop, Goto, Ordering, StartOps
  <2>2. UNCHANGED <<cmd, wanted, on, op>>
    BY <1>4 DEF StartReturns, StopSucceeds, StopKills, FileStep, SetAutostart, Forget, Remove,
       RemoveRefused
  <2>3. QED
    BY <2>1, <2>2, OrdersFrame, StatusFrame, Stutter
<1>5. ASSUME NEW t \in Threads, StopLocks(t)
      PROVE  Status!Next \/ UNCHANGED Status!vars
  <2>1. \A u \in Threads : Ordering(u)' <=> Ordering(u)
    BY <1>5 DEF StopLocks, AtStop, AfterStop, Goto, Ordering, StartOps
  <2>2. \A q \in Procs : OrdersFor(q)' = OrdersFor(q)
    BY <1>5, <2>1, OrdersFrame DEF StopLocks
  <2>3. PICK p \in Procs : p = on[t]
    OBVIOUS
  <2>4. \A q \in Procs : q # p => StatusOf(q)' = StatusOf(q)
    BY <1>5, <2>3 DEF StopLocks, NoLaunch, StatusOf
  <2>5. CASE wanted[p]
    <3>1. <<StatusOf(p), StatusOf(p)'>> \in
             {<<"active", "stopping">>, <<"activating", "inactive">>}
      BY <1>5, <2>3, <2>5 DEF StopLocks, NoLaunch, StatusOf
    <3>2. QED
      BY <2>2, <2>4, <3>1, Moves
  <2>6. CASE ~wanted[p]
    <3>1. StatusOf(p)' = StatusOf(p)
      BY <1>5, <2>3, <2>6 DEF StopLocks, NoLaunch, StatusOf
    <3>2. QED
      BY <2>2, <2>4, <3>1, Stutter
  <2>7. QED
    BY <2>5, <2>6
<1>6. ASSUME NEW t \in Threads, StopGivesUp(t)
      PROVE  Status!Next \/ UNCHANGED Status!vars
  <2>1. UNCHANGED <<cmd, wanted, on, op>> /\ on[t] \in Procs
    BY <1>6 DEF StopGivesUp
  <2>2. ~Ordering(t)' /\ \A u \in Threads \ {t} : Ordering(u)' <=> Ordering(u)
    BY <1>6 DEF StopGivesUp, AfterFailedStop, Goto, Ordering, StartOps
  <2>3. CASE Ordering(t)
    BY <2>1, <2>2, <2>3, Withdraws
  <2>4. CASE ~Ordering(t)
    BY <2>1, <2>2, <2>4, OrdersFrame, StatusFrame, Stutter
  <2>5. QED
    BY <2>3, <2>4
<1>7. ASSUME NEW p \in Procs, Reap(p)
      PROVE  Status!Next
  <2>1. \A q \in Procs : OrdersFor(q)' = OrdersFor(q)
    BY <1>7, OrdersFrame DEF Reap, Ordering
  <2>2. cmd[p]
    BY <1>7 DEF Reap, OneProcess
  <2>3. \A q \in Procs : q # p => StatusOf(q)' = StatusOf(q)
    BY <1>7 DEF Reap, StatusOf
  <2>4. <<StatusOf(p), StatusOf(p)'>> \in {<<"active", "activating">>, <<"stopping", "inactive">>}
    BY <1>7, <2>2 DEF Reap, StatusOf
  <2>5. QED
    BY <2>1, <2>3, <2>4, Moves
<1>8. ASSUME NEW p \in Procs, RelaunchGivesUp(p) \/ RelaunchLaunches(p)
      PROVE  Status!Next
  <2>1. \A q \in Procs : OrdersFor(q)' = OrdersFor(q)
    BY <1>8, OrdersFrame DEF RelaunchGivesUp, RelaunchLaunches, Ordering
  <2>2. \A q \in Procs : q # p => StatusOf(q)' = StatusOf(q)
    BY <1>8 DEF RelaunchGivesUp, RelaunchLaunches, Launch, NoLaunch, StatusOf
  <2>3. <<StatusOf(p), StatusOf(p)'>> \in {<<"activating", "inactive">>, <<"activating", "active">>}
    BY <1>8 DEF RelaunchGivesUp, RelaunchLaunches, Launch, NoLaunch, StatusOf
  <2>4. QED
    BY <2>1, <2>2, <2>3, Moves
<1>9. ASSUME UNCHANGED <<cmd, wanted, on, op, pc>>
      PROVE  UNCHANGED Status!vars
  <2>1. \A u \in Threads : Ordering(u)' <=> Ordering(u)
    BY <1>9 DEF Ordering
  <2>2. QED
    BY <1>9, <2>1, OrdersFrame, StatusFrame, Stutter
<1>10. ASSUME NEW p \in Procs,
              \/ RetryFires(p) \/ StrayTimerFires(p) \/ RelaunchReads(p)
              \/ RelaunchUseless(p) \/ RelaunchFails(p) \/ Outside(p)
       PROVE  UNCHANGED <<cmd, wanted, on, op, pc>>
  BY <1>10 DEF RetryFires, StrayTimerFires, RelaunchReads, RelaunchUseless, RelaunchFails,
     Outside, Dies, FilesAppear, ProgramBreaks, NoLaunch
<1>11. ASSUME UNCHANGED vars
       PROVE  UNCHANGED Status!vars
  BY <1>9, <1>11
<1>12. QED
  BY <1>1, <1>2, <1>3, <1>4, <1>5, <1>6, <1>7, <1>8, <1>9, <1>10, <1>11
  DEF Next, ThreadStep, StartStep, StopStep, ProcStep, Outside, RelaunchFound, RelaunchGone

\* A stopped instance runs again only because a request starts it: the supervisor,
\* with its timers and goroutines, implements InstanceStatus.
THEOREM StatusRefinement == Spec => KeepsStatusPromise
<1>1. Init => Status!Init
  BY DEF Init, Status!Init, StatusOf, OrdersFor, Ordering
<1>2. IInv /\ StartingIsRestart /\ [Next]_vars => [Status!Next]_(Status!vars)
  BY StepRefines
<1>3. QED
  BY <1>1, <1>2, Inductive, StartingInvariant, PTL DEF Spec, KeepsStatusPromise, Status!Spec

-----------------------------------------------------------------------------
(* The restart of a wanted instance.                                       *)

\* p waits for its restart.
Awaits(p) == wanted[p] /\ ~cmd[p]

\* A step that leaves the restart calls of p, or replaces one by another, keeps it due.
Kept(p) == Awaits(p)' => RestartDue(p)'

\* A request loses no restart of p, unless it is a start of p that fails.
LEMMA RequestsKeep ==
    ASSUME IInv, NEW p \in Procs, Awaits(p), RestartDue(p),
           NEW t \in Threads, ThreadStep(t), ~(on[t] = p /\ StartFails(t))
    PROVE  Kept(p)
<1> USE DEF IInv, TypeOK, Kept, Awaits, RestartDue
<1>1. CASE StartFindsRunning(t) \/ StartReturns(t) \/ StopSucceeds(t) \/ StopKills(t) \/ StopGivesUp(t)
           \/ FileStep(t)
  BY <1>1 DEF StartFindsRunning, NoLaunch, StartReturns, StopSucceeds, StopKills, StopGivesUp,
     FileStep, SetAutostart, Forget, Remove, RemoveRefused
<1>2. CASE StartFails(t)
  BY <1>2 DEF StartFails, CancelRetry, NoLaunch
<1>3. CASE StartLaunches(t)
  BY <1>3 DEF StartLaunches, CancelRetry, Launch
<1>4. CASE StopLocks(t)
  BY <1>4 DEF StopLocks, CancelRetry, NoLaunch
<1>5. QED
  BY <1>1, <1>2, <1>3, <1>4 DEF ThreadStep, StartStep, StopStep

\* A timer and a call of relaunch hand the restart on, or make it useless.
LEMMA RelaunchesKeep ==
    ASSUME IInv, NEW p \in Procs, Awaits(p), RestartDue(p), NEW q \in Procs, ProcStep(q) \/ Outside(q)
    PROVE  Kept(p)
<1> USE DEF IInv, TypeOK, Kept, Awaits, RestartDue
<1>1. CASE Outside(q)
  BY <1>1 DEF Outside, Dies, FilesAppear, ProgramBreaks
<1>2. CASE Reap(q)
  BY <1>2 DEF Reap, ArmRetry
<1>3. CASE RetryFires(q)
  BY <1>3 DEF RetryFires
<1>4. CASE StrayTimerFires(q)
  BY <1>4 DEF StrayTimerFires
<1>5. CASE RelaunchReads(q)
  BY <1>5 DEF RelaunchReads
<1>6. CASE RelaunchFound(q)
  <2>1. FoundEnds(q)
    BY <1>6 DEF RelaunchFound
  <2>2. CASE RelaunchUseless(q)
    BY <2>1, <2>2 DEF FoundEnds, RelaunchUseless, NoLaunch
  <2>3. CASE RelaunchLaunches(q)
    BY <2>1, <2>3 DEF FoundEnds, RelaunchLaunches, Launch
  <2>4. CASE RelaunchFails(q)
    BY <2>1, <2>4 DEF FoundEnds, RelaunchFails, ArmRetry, NoLaunch
  <2>5. QED
    BY <1>6, <2>2, <2>3, <2>4 DEF RelaunchFound
<1>7. CASE RelaunchGone(q)
  <2>1. GoneEnds(q)
    BY <1>7 DEF RelaunchGone
  <2>2. CASE RelaunchUseless(q)
    BY <2>1, <2>2 DEF GoneEnds, RelaunchUseless, NoLaunch
  <2>3. CASE RelaunchGivesUp(q)
    BY <2>1, <2>3 DEF GoneEnds, RelaunchGivesUp, NoLaunch
  <2>4. QED
    BY <1>7, <2>2, <2>3 DEF RelaunchGone
<1>8. QED
  BY <1>1, <1>2, <1>3, <1>4, <1>5, <1>6, <1>7 DEF ProcStep

\* The restart of a wanted instance is lost only when a start request fails to launch it
\* (start cancels p.retry before launchLocked): neither a stop that lost a race nor a
\* call of relaunch that came too late loses it.
THEOREM OnlyFailedStartsLoseRestarts == Spec => RestartOnlyLostByFailedStart
<1> DEFINE Lost(p) ==
      /\ wanted[p] /\ ~cmd[p] /\ RestartDue(p)
      /\ wanted'[p] /\ ~cmd'[p] /\ ~RestartDue(p)'
<1>1. ASSUME IInv, [Next]_vars, NEW p \in Procs, Lost(p)
      PROVE  \E t \in Threads : on[t] = p /\ StartFails(t)
  <2>1. Awaits(p) /\ RestartDue(p) /\ ~Kept(p)
    BY <1>1 DEF Awaits, Kept
  <2>2. CASE \E t \in Threads : ThreadStep(t)
    BY <1>1, <2>1, <2>2, RequestsKeep
  <2>3. CASE \E q \in Procs : ProcStep(q) \/ Outside(q)
    BY <1>1, <2>1, <2>3, RelaunchesKeep
  <2>4. CASE \E t \in Threads, o \in Ops, q \in Procs : Request(t, o, q)
    BY <2>1, <2>4 DEF Request, Kept, RestartDue
  <2>5. CASE UNCHANGED vars
    BY <2>1, <2>5 DEF Kept, RestartDue
  <2>6. QED
    BY <1>1, <2>2, <2>3, <2>4, <2>5 DEF Next
<1>2. IInv /\ [Next]_vars =>
        [\A p \in Procs : Lost(p) => \E t \in Threads : on[t] = p /\ StartFails(t)]_vars
  BY <1>1
<1>3. IInv /\ [Next]_vars => IInv'
  BY StepTypes, StepProcesses DEF IInv
<1>4. QED
  BY <1>2, <1>3, InitIInv, PTL DEF Spec, RestartOnlyLostByFailedStart

-----------------------------------------------------------------------------
(* The end of a stopped instance.                                          *)

\* p runs although it is stopped.
Stopping(p) == cmd[p] /\ ~wanted[p]

\* A stop that will still send SIGKILL to the process of p.
Awaited(p, t) == on[t] = p /\ open[t] /\ pc[t] = "terminating"

\* What StopUnderWay says of one instance.
Reached(p) == killed[p] \/ ended[p] > 0 \/ \E t \in Threads : Awaited(p, t)

\* A step that does not stop p, and takes no process, SIGKILL or stop from it, leaves it in reach.
LEMMA LeftInReach ==
    ASSUME NEW p \in Procs, Stopping(p)' => Stopping(p) /\ Reached(p),
           Stopping(p)' => (killed[p] => killed'[p]) /\ (ended[p] > 0 => ended'[p] > 0),
           \A t \in Threads : Awaited(p, t) => Awaited(p, t)'
    PROVE  Stopping(p)' => Reached(p)'
  BY DEF Reached

\* Every step of a request keeps a stopped process in reach of some stop: the stop that
\* leaves its wait at the timeout is the one that has sent SIGKILL.
LEMMA RequestsReach ==
    ASSUME IInv, StopUnderWay, NEW p \in Procs, NEW t \in Threads, ThreadStep(t)
    PROVE  Stopping(p)' => Reached(p)'
<1>1. Stopping(p) => Reached(p)
  BY DEF StopUnderWay, Stopping, Reached, Awaited
<1> USE DEF IInv, TypeOK
<1>2. CASE StartFindsRunning(t) \/ StartLaunches(t)
  <2>1. CASE p = on[t]
    BY <1>2, <2>1 DEF StartFindsRunning, StartLaunches, Stopping
  <2>2. CASE p # on[t]
    <3>1. \A u \in Threads : Awaited(p, u) => Awaited(p, u)'
      BY <1>2, <2>2 DEF StartFindsRunning, StartLaunches, Goto, Awaited
    <3>2. UNCHANGED <<cmd[p], wanted[p], killed[p], ended[p]>>
      BY <1>2, <2>2 DEF StartFindsRunning, StartLaunches, Launch, NoLaunch
    <3>3. QED
      BY <1>1, <3>1, <3>2, LeftInReach DEF Stopping
  <2>3. QED
    BY <2>1, <2>2
<1>3. CASE StartFails(t) \/ StartReturns(t) \/ FileStep(t) \/ StopGivesUp(t) \/ StopSucceeds(t)
  <2>1. \A u \in Threads : Awaited(p, u) => Awaited(p, u)'
    BY <1>3 DEF StartFails, AtStart, StartReturns, FileStep, SetAutostart, Forget, Remove,
       RemoveRefused, StopGivesUp, StopSucceeds, Goto, Awaited
  <2>2. UNCHANGED <<cmd, wanted, killed, ended>>
    BY <1>3 DEF StartFails, NoLaunch, StartReturns, FileStep, SetAutostart, Forget, Remove,
       RemoveRefused, StopGivesUp, StopSucceeds
  <2>3. QED
    BY <1>1, <2>1, <2>2, LeftInReach DEF Stopping
<1>4. CASE StopLocks(t)
  <2>1. UNCHANGED <<cmd, killed, ended, on>>
    BY <1>4 DEF StopLocks, NoLaunch
  <2>2. CASE p = on[t] /\ cmd[p]
    <3>1. Awaited(p, t)'
      BY <1>4, <2>1, <2>2 DEF StopLocks, Goto, Awaited
    <3>2. QED
      BY <3>1 DEF Reached
  <2>3. CASE p = on[t] /\ ~cmd[p]
    BY <2>1, <2>3 DEF Stopping
  <2>4. CASE p # on[t]
    <3>1. \A u \in Threads : Awaited(p, u) => Awaited(p, u)'
      BY <1>4, <2>4 DEF StopLocks, Goto, Awaited
    <3>2. wanted'[p] = wanted[p]
      BY <1>4, <2>4 DEF StopLocks
    <3>3. QED
      BY <1>1, <2>1, <3>1, <3>2, LeftInReach DEF Stopping
  <2>5. QED
    BY <2>2, <2>3, <2>4
<1>5. CASE StopKills(t)
  <2>1. UNCHANGED <<cmd, wanted, ended, on, open>>
    BY <1>5 DEF StopKills
  <2>2. \A u \in Threads \ {t} : Awaited(p, u) => Awaited(p, u)'
    BY <1>5 DEF StopKills, Goto, Awaited
  <2>3. Awaited(p, t) => killed'[p]
    BY <1>5 DEF StopKills, Awaited
  <2>4. killed[p] => killed'[p]
    BY <1>5 DEF StopKills
  <2>5. QED
    BY <1>1, <2>1, <2>2, <2>3, <2>4 DEF Stopping, Reached
<1>6. QED
  BY <1>2, <1>3, <1>4, <1>5 DEF ThreadStep, StartStep, StopStep

\* So does every step of its goroutine and of its timers: a relaunch only starts a
\* process that is wanted.
LEMMA GoroutinesReach ==
    ASSUME IInv, StopUnderWay, NEW p \in Procs, NEW q \in Procs, ProcStep(q) \/ Outside(q)
    PROVE  Stopping(p)' => Reached(p)'
<1>1. Stopping(p) => Reached(p)
  BY DEF StopUnderWay, Stopping, Reached, Awaited
<1> USE DEF IInv, TypeOK
<1>2. CASE Reap(q)
  <2>1. CASE p = q
    BY <1>2, <2>1 DEF Reap, Stopping
  <2>2. CASE p # q
    <3>1. \A u \in Threads : on[u] = p => open'[u] = open[u]
      BY <1>2, <2>2, Zenon DEF Reap
    <3>2. \A u \in Threads : Awaited(p, u) => Awaited(p, u)'
      BY <1>2, <3>1 DEF Reap, Awaited
    <3>3. UNCHANGED <<cmd[p], wanted[p], killed[p], ended[p]>>
      BY <1>2, <2>2 DEF Reap
    <3>4. QED
      BY <1>1, <3>2, <3>3, LeftInReach DEF Stopping
  <2>3. QED
    BY <2>1, <2>2
<1>3. CASE RelaunchLaunches(q)
  <2>1. CASE p = q
    BY <1>3, <2>1 DEF RelaunchLaunches, Stopping
  <2>2. CASE p # q
    <3>1. UNCHANGED <<cmd[p], wanted[p], killed[p], ended[p], on, open, pc>>
      BY <1>3, <2>2 DEF RelaunchLaunches, Launch
    <3>2. QED
      BY <1>1, <3>1, LeftInReach DEF Stopping, Awaited
  <2>3. QED
    BY <2>1, <2>2
<1>4. CASE RelaunchGivesUp(q)
  BY <1>1, <1>4 DEF RelaunchGivesUp, NoLaunch, Stopping, Reached, Awaited
<1>5. CASE \/ RetryFires(q) \/ StrayTimerFires(q) \/ RelaunchReads(q)
           \/ RelaunchUseless(q) \/ RelaunchFails(q) \/ Outside(q)
  <2>1. UNCHANGED <<cmd, wanted, killed, on, open, pc>>
    BY <1>5 DEF RetryFires, StrayTimerFires, RelaunchReads, RelaunchUseless, RelaunchFails,
       Outside, Dies, FilesAppear, ProgramBreaks, NoLaunch
  <2>2. ended[p] > 0 => ended'[p] > 0
    BY <1>5 DEF RetryFires, StrayTimerFires, RelaunchReads, RelaunchUseless, RelaunchFails,
       Outside, Dies, FilesAppear, ProgramBreaks, NoLaunch
  <2>3. QED
    BY <1>1, <2>1, <2>2, LeftInReach DEF Stopping, Awaited
<1>6. QED
  BY <1>2, <1>3, <1>4, <1>5 DEF ProcStep, RelaunchFound, RelaunchGone

\* A process whose instance is stopped is never out of reach, for any number of
\* instances, threads and requests: some stop will kill it, or it is killed, or it has ended.
LEMMA StoppedInReach == Spec => []StopUnderWay
<1>1. Init => StopUnderWay
  BY DEF Init, StopUnderWay
<1>2. IInv /\ StopUnderWay /\ [Next]_vars => StopUnderWay'
  <2> SUFFICES ASSUME IInv, StopUnderWay, [Next]_vars, NEW p \in Procs
               PROVE  Stopping(p)' => Reached(p)'
    BY DEF StopUnderWay, Stopping, Reached, Awaited
  <2>1. Stopping(p) => Reached(p)
    BY DEF StopUnderWay, Stopping, Reached, Awaited
  <2>2. CASE \E t \in Threads : ThreadStep(t)
    BY <2>2, RequestsReach
  <2>3. CASE \E q \in Procs : ProcStep(q) \/ Outside(q)
    BY <2>3, GoroutinesReach
  <2>4. CASE \E t \in Threads, o \in Ops, q \in Procs : Request(t, o, q)
    <3>1. PICK t \in Threads, o \in Ops, q \in Procs : Request(t, o, q)
      BY <2>4
    <3>2. \A u \in Threads : Awaited(p, u) => Awaited(p, u)'
      BY <3>1 DEF Request, Goto, Awaited, IInv, TypeOK
    <3>3. UNCHANGED <<cmd, wanted, killed, ended>>
      BY <3>1 DEF Request
    <3>4. QED
      BY <2>1, <3>2, <3>3, LeftInReach DEF Stopping
  <2>5. CASE UNCHANGED vars
    BY <2>1, <2>5 DEF Stopping, Reached, Awaited
  <2>6. QED
    BY <2>2, <2>3, <2>4, <2>5 DEF Next
<1>3. QED
  BY <1>1, <1>2, Inductive, PTL DEF Spec

\* Every stop acts on the process that runs, and every process that runs although it is
\* stopped is in the reach of a stop.
THEOREM StopReaches == Spec => []StopsReachTheirProcess
  BY StoppedInReach, WatchersAlways, PTL DEF StopsReachTheirProcess
=============================================================================
