--------------------------- MODULE FirewallProofs ---------------------------
(***************************************************************************)
(* Proofs about Firewall.tla: for every set of rules, ports and savers and *)
(* every bound, the variables keep their types and fwApplied never lies    *)
(* about a table that is there.                                            *)
(***************************************************************************)
EXTENDS Firewall, TLAPS

\* fwRuleset always returns a text nft may be given.
LEMMA RulesetIsText ==
    ASSUME NEW c \in Configs, NEW k \in SUBSET Ports, NEW s \in BOOLEAN
    PROVE  fwRuleset(c, k, s) \in Texts
  BY DEF Configs, fwRuleset, Texts, Nothing

\* fwKnownPorts keeps the type of its cache.
LEMMA KnownTypes ==
    ASSUME TypeOK, NEW k \in SUBSET Ports, fwKnownPorts(k)
    PROVE  known' \in SUBSET Ports /\ fresh' \in BOOLEAN
  BY DEF TypeOK, fwKnownPorts, cacheVars

\* A successful fwApply loads a text and remembers that very text.
LEMMA LoadsEffect ==
    ASSUME TypeOK, NEW c \in Configs, Loads(c)
    PROVE  /\ table' \in Texts /\ applied' = table' /\ seenOK' \in BOOLEAN
           /\ known' \in SUBSET Ports /\ fresh' \in BOOLEAN
           /\ faults' \in Nat
<1>1. PICK k \in SUBSET Ports, s \in BOOLEAN :
         /\ fwKnownPorts(k)
         /\ table' = fwRuleset(c, k, s) /\ applied' = table' /\ seenOK' = s
         /\ faults' \in {faults, faults + 1}
  BY Zenon DEF Loads
<1>2. table' \in Texts
  BY <1>1, RulesetIsText
<1>3. known' \in SUBSET Ports /\ fresh' \in BOOLEAN
  BY <1>1, KnownTypes
<1>4. faults' \in Nat
  BY <1>1 DEF TypeOK
<1> QED
  BY <1>1, <1>2, <1>3, <1>4

\* A refused fwApply leaves the table and what is known of it.
LEMMA RefusesEffect ==
    ASSUME TypeOK, NEW c \in Configs, Refuses(c)
    PROVE  /\ UNCHANGED <<table, applied, seenOK>>
           /\ known' \in SUBSET Ports /\ fresh' \in BOOLEAN
           /\ faults' \in Nat
<1>1. PICK k \in SUBSET Ports :
         fwKnownPorts(k) /\ faults' = faults + 1 /\ UNCHANGED kernelVars
  BY DEF Refuses
<1>2. known' \in SUBSET Ports /\ fresh' \in BOOLEAN
  BY <1>1, KnownTypes
<1> QED
  BY <1>1, <1>2 DEF kernelVars, TypeOK

-----------------------------------------------------------------------------
LEMMA InitTypes == Init => TypeOK
<1> SUFFICES ASSUME Init PROVE TypeOK
  OBVIOUS
<1>1. config \in Configs /\ next \in [Savers -> Configs] /\ snap \in Configs
  BY DEF Init
<1>2. table \in Texts
  BY RulesetIsText DEF Init, Texts
<1>3. text \in Texts /\ applied \in Texts \cup {Unset}
  BY DEF Init, Texts
<1> QED
  BY <1>1, <1>2, <1>3 DEF Init, TypeOK

\* Every step keeps the types.
LEMMA StepTypes == TypeOK /\ [Next]_vars => TypeOK'
<1> SUFFICES ASSUME TypeOK, [Next]_vars PROVE TypeOK'
  OBVIOUS
<1> USE DEF kernelVars, cacheVars, saverVars, passVars, hostVars, bounds
<1>1. ASSUME NEW s \in Savers, NEW c \in Configs, Save(s, c) PROVE TypeOK'
  BY <1>1 DEF Save, TypeOK
<1>2. ASSUME NEW s \in Savers, SaveLoads(s) PROVE TypeOK'
  <2>1. Loads(next[s]) /\ next[s] \in Configs
    BY <1>2 DEF SaveLoads, TypeOK
  <2>2. /\ table' \in Texts /\ applied' = table' /\ seenOK' \in BOOLEAN
        /\ known' \in SUBSET Ports /\ fresh' \in BOOLEAN /\ faults' \in Nat
    BY <2>1, LoadsEffect
  <2> QED
    BY <1>2, <2>2 DEF SaveLoads, TypeOK
<1>3. ASSUME NEW s \in Savers, SaveRefused(s) PROVE TypeOK'
  <2>1. Refuses(next[s]) /\ next[s] \in Configs
    BY <1>3 DEF SaveRefused, TypeOK
  <2>2. /\ UNCHANGED <<table, applied, seenOK>>
        /\ known' \in SUBSET Ports /\ fresh' \in BOOLEAN /\ faults' \in Nat
    BY <2>1, RefusesEffect
  <2> QED
    BY <1>3, <2>2 DEF SaveRefused, TypeOK
<1>4. ASSUME NEW s \in Savers, SaveWrites(s) \/ SaveNotWritten(s) PROVE TypeOK'
  BY <1>4 DEF SaveWrites, SaveNotWritten, TypeOK
<1>5. CASE PassBegins
  BY <1>5 DEF PassBegins, TypeOK
<1>6. CASE PassComputes
  <2>1. PICK k \in SUBSET Ports : fwKnownPorts(k) /\ text' = fwRuleset(snap, k, seenOK)
    BY <1>6 DEF PassComputes
  <2>2. text' \in Texts
    BY <2>1, RulesetIsText DEF TypeOK
  <2>3. known' \in SUBSET Ports /\ fresh' \in BOOLEAN
    BY <2>1, KnownTypes
  <2> QED
    BY <1>6, <2>2, <2>3 DEF PassComputes, TypeOK
<1>7. CASE PassCompares \/ PassLooks
  BY <1>7 DEF PassCompares, PassLooks, TypeOK
<1>8. CASE PassLoads
  <2>1. Loads(snap) /\ snap \in Configs
    BY <1>8 DEF PassLoads, TypeOK
  <2>2. /\ table' \in Texts /\ applied' = table' /\ seenOK' \in BOOLEAN
        /\ known' \in SUBSET Ports /\ fresh' \in BOOLEAN /\ faults' \in Nat
    BY <2>1, LoadsEffect
  <2> QED
    BY <1>8, <2>2 DEF PassLoads, TypeOK
<1>9. CASE PassRefused
  <2>1. Refuses(snap) /\ snap \in Configs
    BY <1>9 DEF PassRefused, TypeOK
  <2>2. /\ UNCHANGED <<table, applied, seenOK>>
        /\ known' \in SUBSET Ports /\ fresh' \in BOOLEAN /\ faults' \in Nat
    BY <2>1, RefusesEffect
  <2> QED
    BY <1>9, <2>2 DEF PassRefused, TypeOK
<1>10. ASSUME NEW k \in SUBSET Ports, PortsChange(k) PROVE TypeOK'
  BY <1>10 DEF PortsChange, TypeOK
<1>11. CASE KnownExpire
  BY <1>11 DEF KnownExpire, TypeOK
<1>12. CASE TableRemoved
  BY <1>12 DEF TableRemoved, TypeOK, Texts
<1>13. CASE Restart
  <2>1. table' \in Texts
    BY <1>13 DEF Restart, TypeOK, Texts
  <2>2. applied' \in Texts \cup {Unset}
    BY <1>13, Zenon DEF Restart
  <2>3. seenOK' \in BOOLEAN /\ fresh' \in BOOLEAN /\ known' \in SUBSET Ports
    BY <1>13, Zenon DEF Restart
  <2>4. faults' \in Nat /\ pass' = "asleep"
    BY <1>13 DEF Restart, TypeOK
  <2>5. saving' \in [Savers -> {"idle", "loading", "writing"}]
    BY <1>13 DEF Restart
  <2>6. UNCHANGED <<config, next, snap, text, dynamic, ports, saves, changes>>
    BY <1>13 DEF Restart
  <2> QED
    BY <2>1, <2>2, <2>3, <2>4, <2>5, <2>6 DEF TypeOK
<1>14. CASE UNCHANGED vars
  BY <1>14 DEF vars, TypeOK
<1> QED
  BY <1>1, <1>2, <1>3, <1>4, <1>5, <1>6, <1>7, <1>8, <1>9, <1>10, <1>11, <1>12,
     <1>13, <1>14 DEF Next, SaverStep, PassEnds

\* Whatever the constants, the variables keep their types and every text that
\* reaches nft either filters something or removes the table.
THEOREM TypeCorrect == Spec => []TypeOK
<1>1. TypeOK /\ [Next]_vars => TypeOK'
  BY StepTypes
<1> QED
  BY InitTypes, <1>1, PTL DEF Spec

-----------------------------------------------------------------------------
\* Every step keeps fwApplied true of a table that is there.
LEMMA StepApplied == TypeOK /\ AppliedIsLoaded /\ [Next]_vars => AppliedIsLoaded'
<1> SUFFICES ASSUME TypeOK, AppliedIsLoaded, [Next]_vars PROVE AppliedIsLoaded'
  OBVIOUS
<1> USE DEF AppliedIsLoaded
<1>1. ASSUME NEW c \in Configs, Loads(c) PROVE AppliedIsLoaded'
  BY <1>1, LoadsEffect
<1>2. ASSUME UNCHANGED <<table, applied>> PROVE AppliedIsLoaded'
  BY <1>2
<1>3. ASSUME NEW s \in Savers, SaverStep(s) PROVE AppliedIsLoaded'
  <2>1. next[s] \in Configs
    BY DEF TypeOK
  <2>2. CASE SaveLoads(s)
    BY <2>1, <2>2, <1>1 DEF SaveLoads
  <2>3. CASE SaveRefused(s)
    BY <2>1, <2>3, <1>2, RefusesEffect DEF SaveRefused
  <2>4. CASE SaveWrites(s) \/ SaveNotWritten(s)
    BY <2>4, <1>2 DEF SaveWrites, SaveNotWritten, kernelVars
  <2> QED
    BY <1>3, <2>2, <2>3, <2>4 DEF SaverStep
<1>4. CASE PassEnds
  <2>1. snap \in Configs
    BY DEF TypeOK
  <2>2. CASE PassLoads
    BY <2>1, <2>2, <1>1 DEF PassLoads
  <2>3. CASE PassRefused
    BY <2>1, <2>3, <1>2, RefusesEffect DEF PassRefused
  <2> QED
    BY <1>4, <2>2, <2>3 DEF PassEnds
<1>5. ASSUME NEW s \in Savers, NEW c \in Configs, Save(s, c) PROVE AppliedIsLoaded'
  BY <1>5, <1>2 DEF Save, kernelVars
<1>6. CASE PassBegins \/ PassComputes \/ PassCompares \/ PassLooks
  BY <1>6, <1>2 DEF PassBegins, PassComputes, PassCompares, PassLooks, kernelVars
<1>7. ASSUME NEW k \in SUBSET Ports, PortsChange(k) PROVE AppliedIsLoaded'
  BY <1>7, <1>2 DEF PortsChange, kernelVars
<1>8. CASE KnownExpire
  BY <1>8, <1>2 DEF KnownExpire, kernelVars
<1>9. CASE TableRemoved
  BY <1>9 DEF TableRemoved
<1>10. CASE Restart
  BY <1>10 DEF Restart
<1>11. CASE UNCHANGED vars
  BY <1>11, <1>2 DEF vars, kernelVars
<1> QED
  BY <1>3, <1>4, <1>5, <1>6, <1>7, <1>8, <1>9, <1>10, <1>11 DEF Next

\* Whatever the constants, fwApplied equals the table that is there, unless this
\* panel process has not loaded one: skipping fwApply because the texts are equal
\* never leaves other rules in the kernel.
THEOREM AppliedAlways == Spec => []AppliedIsLoaded
<1>1. Init => AppliedIsLoaded
  BY DEF Init, AppliedIsLoaded
<1>2. TypeOK /\ AppliedIsLoaded /\ [Next]_vars => AppliedIsLoaded'
  BY StepApplied
<1> QED
  BY <1>1, <1>2, TypeCorrect, PTL DEF Spec
=============================================================================
