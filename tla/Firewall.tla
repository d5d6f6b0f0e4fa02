------------------------------ MODULE Firewall ------------------------------
(***************************************************************************)
(* The panel's firewall (src/panel/firewall.go): an nftables table that is *)
(* replaced as a whole by whoever holds fwMu, a saved configuration, and a *)
(* loop (fwSyncLoop) that keeps the table up to date with it.  Saving      *)
(* loads the table first and writes the configuration afterwards; a pass   *)
(* of the loop works on the configuration it read when it began, while the *)
(* network refresh may take long.                                          *)
(*                                                                         *)
(* Abstracted: a rule is a model value; what the rules resolve to (ports   *)
(* known from frps, lists, prefixes) is one set of ports.  A save that is  *)
(* refused before fwApply (validation, unknown list) changes nothing and   *)
(* is left out.  nft loads a file entirely or not at all.                  *)
(***************************************************************************)
EXTENDS Naturals

CONSTANTS
    Rules,       \* the rules an administrator may write
    Ports,       \* the ports frps instances may open
    Savers,      \* goroutines that serve POST /api/firewall
    MaxSaves,    \* bound: saves in a behaviour
    MaxFaults,   \* bound: refused loads, failed writes, table removals, panel restarts
    MaxChanges   \* bound: changes of the open ports

ASSUME FirewallAssumption == MaxSaves \in Nat /\ MaxFaults \in Nat /\ MaxChanges \in Nat

VARIABLES
    config,          \* the "firewall" entry of the saved configuration
    table,           \* the nftables table of the kernel
    applied,         \* fwApplied: the text last loaded by this panel process
    seenOK,          \* fwSeenOK: record the blocked addresses in dynamic sets
    dynamic,         \* nft accepts dynamic sets
    ports,           \* the ports frps has open
    known, fresh,    \* fwKnownList, and whether it is younger than fwKnownTTL
    saving, next,    \* where a saver is ("idle", "loading", "writing") and its fwConfig
    pass, snap, text,\* where fwSyncPass is, the fwConfig it read, the text it computed
    saves, faults, changes

kernelVars == <<table, applied, seenOK>>
cacheVars == <<known, fresh>>
saverVars == <<saving, next>>
passVars == <<pass, snap, text>>
hostVars == <<dynamic, ports>>
bounds == <<saves, faults, changes>>
vars == <<config, kernelVars, cacheVars, saverVars, passVars, hostVars, bounds>>

Configs == [enabled: BOOLEAN, rules: SUBSET Rules]

\* What fwRuleset writes: a table with the rules, or the removal of the table.
Nothing == [rules |-> {}, ports |-> {}, seen |-> FALSE]
\* fwApplied before this panel process has loaded anything (the empty string).
Unset == [rules |-> {}, ports |-> {}, seen |-> TRUE]
Texts == {t \in [rules: SUBSET Rules, ports: SUBSET Ports, seen: BOOLEAN] :
            t.rules # {} /\ t.ports # {}} \cup {Nothing}

\* fwRuleset: nothing to filter with a disabled firewall, no rule or no port.
fwRuleset(c, k, s) ==
    IF c.enabled /\ c.rules # {} /\ k # {}
    THEN [rules |-> c.rules, ports |-> k, seen |-> s]
    ELSE Nothing

Init ==
    /\ config \in Configs
    /\ dynamic \in BOOLEAN
    /\ ports \in SUBSET Ports
    /\ table \in {Nothing} \cup {fwRuleset(config, k, FALSE) : k \in SUBSET Ports}
    /\ applied = Unset /\ seenOK = TRUE
    /\ known = {} /\ fresh = FALSE
    /\ saving = [s \in Savers |-> "idle"] /\ next = [s \in Savers |-> config]
    /\ pass = "asleep" /\ snap = config /\ text = Nothing
    /\ saves = 0 /\ faults = 0 /\ changes = 0

-----------------------------------------------------------------------------
\* fwKnownPorts returns k: the list kept for 15 s, or the ports read again.
fwKnownPorts(k) ==
    \/ fresh /\ k = known /\ UNCHANGED cacheVars
    \/ k = ports /\ known' = ports /\ fresh' = TRUE

\* nft accepts a text: a host without dynamic sets refuses those of the seen list.
Accepts(t) == t.seen => dynamic

\* (Variant: fwSeenOK is kept although dynamic sets were refused.)
LoadsForgettingRefusal(c) ==
    \E k \in SUBSET Ports, s \in BOOLEAN :
        LET first == fwRuleset(c, k, seenOK) IN
        /\ fwKnownPorts(k)
        /\ Accepts(fwRuleset(c, k, s))
        /\ s # seenOK => first.seen /\ ~s /\ ~Accepts(first)
        /\ table' = fwRuleset(c, k, s) /\ applied' = table'
        /\ UNCHANGED <<seenOK, faults>>

\* fwApply, under fwMu: the text is loaded and remembered.  When the first load is
\* refused and had dynamic sets, it is tried once more without them, for good.
Loads(c) ==
    \E k \in SUBSET Ports, s \in BOOLEAN :
        LET first == fwRuleset(c, k, seenOK) IN
        /\ fwKnownPorts(k)
        /\ Accepts(fwRuleset(c, k, s))
        /\ s # seenOK => first.seen /\ ~s /\ (~Accepts(first) \/ faults < MaxFaults)
        /\ table' = fwRuleset(c, k, s) /\ applied' = table'
        /\ seenOK' = s
        /\ faults' = IF s # seenOK /\ Accepts(first) THEN faults + 1 ELSE faults

\* (Variant: the text is remembered whatever nft answers.)
RefusesButRemembers(c) ==
    \E k \in SUBSET Ports :
        /\ fwKnownPorts(k)
        /\ faults < MaxFaults /\ faults' = faults + 1
        /\ applied' = fwRuleset(c, k, seenOK)
        /\ UNCHANGED <<table, seenOK>>

\* fwApply, nft refuses the text (twice if it had dynamic sets): nothing changes.
Refuses(c) ==
    \E k \in SUBSET Ports :
        /\ fwKnownPorts(k)
        /\ faults < MaxFaults /\ faults' = faults + 1
        /\ UNCHANGED kernelVars

-----------------------------------------------------------------------------
(* POST /api/firewall.                                                     *)

Save(s, c) ==
    /\ saving[s] = "idle" /\ saves < MaxSaves
    /\ saves' = saves + 1
    /\ saving' = [saving EXCEPT ![s] = "loading"]
    /\ next' = [next EXCEPT ![s] = c]
    /\ UNCHANGED <<config, kernelVars, cacheVars, passVars, hostVars, faults, changes>>

SaveLoads(s) ==
    /\ saving[s] = "loading"
    /\ Loads(next[s])
    /\ saving' = [saving EXCEPT ![s] = "writing"]
    /\ UNCHANGED <<config, next, passVars, hostVars, saves, changes>>

SaveRefused(s) ==
    /\ saving[s] = "loading"
    /\ Refuses(next[s])
    /\ saving' = [saving EXCEPT ![s] = "idle"]
    /\ UNCHANGED <<config, next, passVars, hostVars, saves, changes>>

\* cfgUpdate, then the reply "Firewall applied" or "Firewall disabled: no more filtering".
SaveWrites(s) ==
    /\ saving[s] = "writing"
    /\ config' = next[s]
    /\ saving' = [saving EXCEPT ![s] = "idle"]
    /\ UNCHANGED <<kernelVars, cacheVars, next, passVars, hostVars, bounds>>

\* The configuration file cannot be written: an error, with the table already loaded.
SaveNotWritten(s) ==
    /\ saving[s] = "writing"
    /\ faults < MaxFaults /\ faults' = faults + 1
    /\ saving' = [saving EXCEPT ![s] = "idle"]
    /\ UNCHANGED <<config, kernelVars, cacheVars, next, passVars, hostVars, saves, changes>>

-----------------------------------------------------------------------------
(* fwSyncLoop and fwSyncPass.                                              *)

\* The known ports are forgotten; a disabled firewall ends the pass at once.
PassBegins ==
    /\ pass = "asleep"
    /\ fresh' = FALSE
    /\ IF config.enabled
       THEN pass' = "resolving" /\ snap' = config
       ELSE UNCHANGED <<pass, snap>>
    /\ UNCHANGED <<config, kernelVars, known, saverVars, text, hostVars, bounds>>

\* After the refresh of lists and prefixes: the text the table should have.
PassComputes ==
    /\ pass = "resolving"
    /\ \E k \in SUBSET Ports : fwKnownPorts(k) /\ text' = fwRuleset(snap, k, seenOK)
    /\ pass' = "comparing"
    /\ UNCHANGED <<config, kernelVars, saverVars, snap, hostVars, bounds>>

\* (Variant: only the presence of the table is looked at.)
PassComparesNothing ==
    /\ pass = "comparing"
    /\ pass' = IF text # Nothing THEN "looking" ELSE "asleep"
    /\ UNCHANGED <<config, kernelVars, cacheVars, saverVars, snap, text, hostVars, bounds>>

\* fwApplied is read under fwMu; the presence of the table, afterwards.
PassCompares ==
    /\ pass = "comparing"
    /\ pass' = IF text # applied THEN "applying"
               ELSE IF text # Nothing THEN "looking" ELSE "asleep"
    /\ UNCHANGED <<config, kernelVars, cacheVars, saverVars, snap, text, hostVars, bounds>>

PassLooks ==
    /\ pass = "looking"
    /\ pass' = IF table = Nothing THEN "applying" ELSE "asleep"
    /\ UNCHANGED <<config, kernelVars, cacheVars, saverVars, snap, text, hostVars, bounds>>

\* fwApply(&c), with the configuration read when the pass began.
PassLoads ==
    /\ pass = "applying"
    /\ Loads(snap)
    /\ pass' = "asleep"
    /\ UNCHANGED <<config, saverVars, snap, text, hostVars, saves, changes>>

PassRefused ==
    /\ pass = "applying"
    /\ Refuses(snap)
    /\ pass' = "asleep"
    /\ UNCHANGED <<config, saverVars, snap, text, hostVars, saves, changes>>

-----------------------------------------------------------------------------
(* The outside.                                                            *)

\* frps opens or closes ports.
PortsChange(k) ==
    /\ changes < MaxChanges /\ changes' = changes + 1
    /\ k # ports /\ ports' = k
    /\ UNCHANGED <<config, kernelVars, cacheVars, saverVars, passVars, dynamic, saves, faults>>

\* The 15 s of the known ports have passed.
KnownExpire ==
    /\ fresh /\ fresh' = FALSE
    /\ UNCHANGED <<config, kernelVars, known, saverVars, passVars, hostVars, bounds>>

\* Another program reloads nftables: the table is gone.
TableRemoved ==
    /\ table # Nothing /\ table' = Nothing
    /\ faults < MaxFaults /\ faults' = faults + 1
    /\ UNCHANGED <<config, applied, seenOK, cacheVars, saverVars, passVars, hostVars,
                   saves, changes>>

\* The panel stops and starts again.  The table stays, unless the host restarts too.
Restart ==
    /\ faults < MaxFaults /\ faults' = faults + 1
    /\ table' \in {table, Nothing}
    /\ applied' = Unset /\ seenOK' = TRUE
    /\ known' = {} /\ fresh' = FALSE
    /\ saving' = [s \in Savers |-> "idle"]
    /\ pass' = "asleep"
    /\ UNCHANGED <<config, next, snap, text, hostVars, saves, changes>>

-----------------------------------------------------------------------------
SaverStep(s) == SaveLoads(s) \/ SaveRefused(s) \/ SaveWrites(s) \/ SaveNotWritten(s)
PassEnds == PassLoads \/ PassRefused

Next ==
    \/ \E s \in Savers : SaverStep(s) \/ \E c \in Configs : Save(s, c)
    \/ PassBegins \/ PassComputes \/ PassCompares \/ PassLooks \/ PassEnds
    \/ \E k \in SUBSET Ports : PortsChange(k)
    \/ KnownExpire \/ TableRemoved \/ Restart

\* The loop never ends and sleeps a bounded time; every goroutine goes on.  nft may
\* refuse a load MaxFaults times, not for ever.
Fairness ==
    /\ WF_vars(PassBegins) /\ WF_vars(PassComputes)
    /\ WF_vars(PassCompares) /\ WF_vars(PassLooks) /\ WF_vars(PassEnds)
    /\ \A s \in Savers : WF_vars(SaverStep(s))

Spec == Init /\ [][Next]_vars
FairSpec == Spec /\ Fairness

-----------------------------------------------------------------------------
(* Properties.                                                             *)

\* Every variable keeps its type; a text given to nft either filters or removes the table.
TypeOK ==
    /\ config \in Configs
    /\ table \in Texts /\ applied \in Texts \cup {Unset} /\ text \in Texts
    /\ seenOK \in BOOLEAN /\ dynamic \in BOOLEAN /\ fresh \in BOOLEAN
    /\ ports \in SUBSET Ports /\ known \in SUBSET Ports
    /\ saving \in [Savers -> {"idle", "loading", "writing"}]
    /\ next \in [Savers -> Configs] /\ snap \in Configs
    /\ pass \in {"asleep", "resolving", "comparing", "looking", "applying"}
    /\ saves \in Nat /\ faults \in Nat /\ changes \in Nat

\* fwApplied tells the truth about a table that is there: a pass that skips fwApply
\* because its text equals fwApplied never leaves other rules in the kernel.
AppliedIsLoaded == table # Nothing /\ applied # Unset => table = applied

\* Once saves, faults and port changes are over, the table of an enabled firewall is
\* the one its configuration asks for with the ports open now: whatever a stale
\* pass, concurrent saves, a removed table or a restart left is repaired.
FilterFollowsConfig ==
    <>[](config.enabled => table = fwRuleset(config, ports, seenOK))

\* The loop comes to rest: it does not load the table over and over (every load
\* empties the counters and the list of blocked addresses).
NoReloadForEver == <>[][~PassLoads]_vars

\* "Firewall disabled: no more filtering" is what a save answers.  (A pass that read
\* the enabled configuration loads it again behind the save; later passes stop at
\* once because the firewall is disabled, so the table stays.)
DisabledFiltersNothing ==
    ~config.enabled /\ pass = "asleep" /\ (\A s \in Savers : saving[s] = "idle")
        => table = Nothing
=============================================================================
