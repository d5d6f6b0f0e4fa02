---------------------------- MODULE FirewallPage ----------------------------
(***************************************************************************)
(* The Firewall page (assets/js/pages/firewall.js): a draft of all the     *)
(* rules, of which those of one frps are shown, applied as a whole after   *)
(* the server has been asked whether they would cut off the user's own     *)
(* address.                                                                *)
(*                                                                         *)
(* Abstracted: a rule applies to all the ports of its frps; its sources are*)
(* the user's address, another one, or both.  Left out: the list of blocked*)
(* connections but for the rule made from it, the catalogue but for the    *)
(* rule of a subscription, ports and counters.  The server (firewall.go) is*)
(* reduced to its answers.                                                 *)
(***************************************************************************)
EXTENDS Naturals, Sequences, FiniteSets

CONSTANTS
    Frps, NoFrps,      \* the frps instances; a rule for all of them
    FirstRules,        \* the rules applied at first
    MaxFwActs,         \* bound: what the user does, loads that fail and frps created
    MaxRules,          \* bound: rules made on the page
    MaxFwLoads         \* bound: loads under way

Sources == {"me", "other"}
RuleIds == 0..MaxRules

ASSUME FirewallPageAssumption ==
    /\ NoFrps \notin Frps /\ Frps # {} /\ {MaxFwActs, MaxRules} \subseteq Nat /\ MaxFwLoads \in Nat \ {0}
    /\ FirstRules \subseteq [id : {0}, frps : Frps \cup {NoFrps}, mode : {"allow", "block"},
                             sources : SUBSET Sources, quick : BOOLEAN, on : BOOLEAN]

VARIABLES
    aliveFrps,     \* the frps instances there are
    applied,       \* what the server applies: [enabled, rules]
    fwData,        \* S.data: <<>>, or what was applied and the frps there were
    frpsShown,     \* S.frps
    draft,         \* S.enabled, S.rules
    fwSnapshot,    \* S.snapshot: <<>>, or the draft it stands for
    fwLoads,       \* load() under way: <<>>, or its answer
    fwEditor,      \* the editor: closed, or the rule it edits; `gone`: no longer in the draft
    applying,      \* save() under way
    made,          \* rules made on the page
    cutOff,        \* ghost: rules that block the user were applied with no warning
    fwActs

fwPageVars == <<aliveFrps, applied, fwData, frpsShown, draft, fwSnapshot, fwLoads, fwEditor, applying, made,
                cutOff, fwActs>>

NoEditor == [open |-> FALSE]
NotApplying == [step |-> "none"]
\* What is written is no longer what was tested.
untestedNow == IF applying.step \in {"testing", "asking"} THEN [applying EXCEPT !.same = FALSE] ELSE applying
tries == fwActs < MaxFwActs /\ fwActs' = fwActs + 1
shownPage == fwData # <<>> /\ fwData[1].frps # {}
\* No dialog is open.
free == shownPage /\ ~fwEditor.open /\ applying.step # "asking" /\ tries
fwDirty == fwSnapshot # <<>> /\ draft # fwSnapshot[1]

\* ofFrps, orphan, shownRule.
ofFrps(rule, f) == rule.frps \in {NoFrps, f}
orphan(rule, frps) == rule.frps # NoFrps /\ rule.frps \notin frps
\* (Variant: rules of a deleted frps are hidden.)
shownOfFrps(rule, f, frps) == ofFrps(rule, f)

shownRule(rule, f, frps) == ofFrps(rule, f) \/ orphan(rule, frps)

\* The verdict of the server for the user's address, over the ports of every frps.
blocksMe(rules) ==
    \E f \in aliveFrps :
        LET on == {r \in rules : r.on /\ ofFrps(r, f)}
            allows == {r \in on : r.mode = "allow"}
        IN  \/ \E r \in on : r.mode = "block" /\ "me" \in r.sources
            \/ allows # {} /\ \A r \in allows : "me" \notin r.sources

FwPageInit ==
    /\ aliveFrps = Frps /\ applied \in [enabled : BOOLEAN, rules : {{}} \cup {{r} : r \in FirstRules}]
    /\ fwData = <<>> /\ frpsShown \in Frps /\ draft = [enabled |-> FALSE, rules |-> {}] /\ fwSnapshot = <<>>
    /\ fwLoads = {} /\ fwEditor = NoEditor /\ applying = NotApplying /\ made = 0 /\ cutOff = FALSE /\ fwActs = 0

askRules(n) ==
    /\ Cardinality(fwLoads) < MaxFwLoads
    /\ fwLoads' = fwLoads \cup {[n |-> n, answer |-> <<>>]}

\* mount, with the frps the address asks for; the page was shown before or not.
FwMount ==
    /\ ~fwEditor.open /\ applying.step # "asking" /\ tries
    /\ \E f \in Frps : frpsShown' = f
    /\ fwSnapshot' = <<>> /\ askRules(fwActs)
    /\ UNCHANGED <<aliveFrps, applied, fwData, draft, fwEditor, applying, made, cutOff>>

RulesAnswered ==
    /\ \E l \in fwLoads :
          /\ l.answer = <<>>
          /\ fwLoads' = (fwLoads \ {l}) \cup {[l EXCEPT !.answer = <<[applied |-> applied, frps |-> aliveFrps]>>]}
    /\ UNCHANGED <<aliveFrps, applied, fwData, frpsShown, draft, fwSnapshot, fwEditor, applying, made, cutOff, fwActs>>

\* load(), its end: the draft is what the answer says, edits under way or not.
RulesFilled ==
    /\ \E l \in fwLoads :
          /\ l.answer # <<>> /\ fwLoads' = fwLoads \ {l}
          /\ fwData' = l.answer /\ draft' = l.answer[1].applied /\ fwSnapshot' = <<l.answer[1].applied>>
          /\ frpsShown' \in IF frpsShown \in l.answer[1].frps THEN {frpsShown}
                            ELSE IF l.answer[1].frps = {} THEN {NoFrps} ELSE l.answer[1].frps
    /\ fwEditor' = IF fwEditor.open THEN [fwEditor EXCEPT !.gone = TRUE] ELSE fwEditor
    /\ applying' = untestedNow
    /\ UNCHANGED <<aliveFrps, applied, made, cutOff, fwActs>>

RulesFail ==
    /\ tries /\ \E l \in fwLoads : fwLoads' = fwLoads \ {l}
    /\ UNCHANGED <<aliveFrps, applied, fwData, frpsShown, draft, fwSnapshot, fwEditor, applying, made, cutOff>>

PickFrps ==
    /\ free
    /\ \E f \in fwData[1].frps : frpsShown' = f
    /\ UNCHANGED <<aliveFrps, applied, fwData, draft, fwSnapshot, fwLoads, fwEditor, applying, made, cutOff>>

----------------------------------------------------------------------------
\* A change of the draft; a save under way may then write what was not tested.
redraft(d) ==
    /\ draft' = d
    /\ applying' = untestedNow
    /\ UNCHANGED <<aliveFrps, applied, fwData, frpsShown, fwSnapshot, fwLoads, cutOff>>
withRules(rules) == [draft EXCEPT !.rules = rules]
newRuleFrps == frpsShown
make == made < MaxRules /\ made' = made + 1
visibleRules == {r \in draft.rules : shownRule(r, frpsShown, fwData[1].frps)}

ToggleFirewall ==
    /\ free
    /\ redraft([draft EXCEPT !.enabled = ~@]) /\ UNCHANGED <<fwEditor, made>>

ToggleRule ==
    /\ free
    /\ \E r \in visibleRules : redraft(withRules((draft.rules \ {r}) \cup {[r EXCEPT !.on = ~@]}))
    /\ UNCHANGED <<fwEditor, made>>

RemoveRule ==
    /\ free
    /\ \E r \in visibleRules : redraft(withRules(draft.rules \ {r}))
    /\ UNCHANGED <<fwEditor, made>>

\* quickBlock: the rule for that, of this frps or of all, made when there is none.
QuickBlock ==
    /\ free
    /\ \E s \in Sources :
          LET quick == {r \in draft.rules : r.mode = "block" /\ r.quick /\ ofFrps(r, frpsShown)}
          IN  IF quick = {}
              THEN make /\ redraft(withRules(draft.rules \cup
                     {[id |-> made', frps |-> newRuleFrps, mode |-> "block", sources |-> {s}, quick |-> TRUE, on |-> TRUE]}))
              ELSE \E r \in quick :
                     redraft(withRules((draft.rules \ {r}) \cup {[r EXCEPT !.sources = @ \cup {s}, !.on = TRUE]}))
                     /\ UNCHANGED made
    /\ UNCHANGED fwEditor

\* subscribe: a rule that follows a list of the catalogue, confirmed when it is one of those allowed.
Subscribe ==
    /\ free /\ make /\ UNCHANGED fwEditor
    /\ \E mode \in {"allow", "block"}, sources \in SUBSET Sources \ {{}} :
          redraft(withRules(draft.rules \cup
            {[id |-> made', frps |-> newRuleFrps, mode |-> mode, sources |-> sources, quick |-> FALSE, on |-> TRUE]}))

\* editRule: one of the list, or a new one.
OpenRuleEditor ==
    /\ free
    /\ \E of \in SUBSET visibleRules : Cardinality(of) <= 1 /\ fwEditor' = [open |-> TRUE, of |-> of, gone |-> FALSE]
    /\ UNCHANGED <<aliveFrps, applied, fwData, frpsShown, draft, fwSnapshot, fwLoads, applying, made, cutOff>>

\* A rule that a load replaced meanwhile is changed where nobody sees it.
SubmitRule ==
    /\ fwEditor.open /\ fwEditor' = NoEditor /\ UNCHANGED fwActs
    /\ \E mode \in {"allow", "block"}, f \in fwData[1].frps \cup {NoFrps}, sources \in SUBSET Sources :
          /\ mode = "block" => sources # {}
          /\ IF fwEditor.of = {}
             THEN make /\ redraft(withRules(draft.rules \cup
                    {[id |-> made', frps |-> f, mode |-> mode, sources |-> sources, quick |-> FALSE, on |-> TRUE]}))
             ELSE \E r \in fwEditor.of :
                    /\ UNCHANGED made
                    /\ redraft(IF fwEditor.gone THEN draft
                               ELSE withRules((draft.rules \ {r}) \cup
                                      {[r EXCEPT !.mode = mode, !.frps = f, !.sources = sources]}))

CloseRuleEditor ==
    /\ fwEditor.open /\ fwEditor' = NoEditor
    /\ UNCHANGED <<aliveFrps, applied, fwData, frpsShown, draft, fwSnapshot, fwLoads, applying, made, cutOff, fwActs>>

DiscardRules ==
    /\ free /\ fwDirty
    /\ redraft(fwData[1].applied) /\ UNCHANGED <<fwEditor, made>>

----------------------------------------------------------------------------
\* save(): the test first, when the firewall is on and the panel knows the user's address (client_ip:
\* none when the panel is reached from the machine itself).
\* `same`: the draft, and the frps, are still what was tested.  `told`: warned, or not held to it.
ApplyRules ==
    /\ free /\ fwDirty /\ applying = NotApplying
    /\ \/ draft.enabled /\ applying' = [step |-> "testing", rules |-> draft.rules, same |-> TRUE]
       \/ applying' = [step |-> "sent", content |-> draft, told |-> draft.enabled]
    /\ UNCHANGED <<aliveFrps, applied, fwData, frpsShown, draft, fwSnapshot, fwLoads, fwEditor, made, cutOff>>

next(record) ==
    /\ applying' = record
    /\ UNCHANGED <<aliveFrps, applied, fwData, frpsShown, draft, fwSnapshot, fwLoads, fwEditor, made, cutOff>>
\* The draft of this moment is sent.
sent(told) == next([step |-> "sent", content |-> draft, told |-> told])

TestAnswered ==
    /\ applying.step = "testing" /\ UNCHANGED fwActs
    /\ IF blocksMe(applying.rules) THEN next([applying EXCEPT !.step = "asking"]) ELSE sent(~applying.same)
\* No answer: the server is left to decide.
TestFails == applying.step = "testing" /\ sent(TRUE) /\ UNCHANGED fwActs
UserConfirms == applying.step = "asking" /\ sent(TRUE) /\ UNCHANGED fwActs
UserCancels == applying.step = "asking" /\ next(NotApplying) /\ UNCHANGED fwActs

\* Applied, and read again.
RulesApplied ==
    /\ applying.step = "sent" /\ applied' = applying.content /\ applying' = NotApplying
    /\ cutOff' = (cutOff \/ (applied'.enabled /\ blocksMe(applied'.rules) /\ ~applying.told))
    /\ askRules(MaxFwActs)
    /\ UNCHANGED <<aliveFrps, fwData, frpsShown, draft, fwSnapshot, fwEditor, made, fwActs>>
\* Refused, or no answer: the draft stays.
RulesRefused == applying.step = "sent" /\ next(NotApplying) /\ UNCHANGED fwActs

FrpsDeleted ==
    /\ \E f \in aliveFrps : aliveFrps' = aliveFrps \ {f}
    /\ UNCHANGED <<applied, fwData, frpsShown, draft, fwSnapshot, fwLoads, fwEditor, applying, made, cutOff, fwActs>>

\* On any page, or by a file: a port the rules were not tested for.
FrpsCreated ==
    /\ tries /\ \E f \in Frps \ aliveFrps : aliveFrps' = aliveFrps \cup {f}
    /\ applying' = IF applying.step = "sent" THEN [applying EXCEPT !.told = TRUE] ELSE untestedNow
    /\ UNCHANGED <<applied, fwData, frpsShown, draft, fwSnapshot, fwLoads, fwEditor, made, cutOff>>

FwPageNext ==
    \/ FwMount \/ RulesAnswered \/ RulesFilled \/ RulesFail \/ PickFrps \/ ToggleFirewall \/ ToggleRule \/ RemoveRule
    \/ QuickBlock \/ Subscribe \/ OpenRuleEditor \/ SubmitRule \/ CloseRuleEditor \/ DiscardRules \/ ApplyRules \/ TestAnswered
    \/ TestFails \/ UserConfirms \/ UserCancels \/ RulesApplied \/ RulesRefused \/ FrpsDeleted \/ FrpsCreated
FwPageSpec == FwPageInit /\ [][FwPageNext]_fwPageVars

FwPageTypeOK ==
    /\ aliveFrps \subseteq Frps /\ frpsShown \in Frps \cup {NoFrps} /\ made \in RuleIds /\ cutOff \in BOOLEAN
    /\ \A d \in {draft, applied} :
          /\ d.enabled \in BOOLEAN
          /\ \A r \in d.rules : /\ r.id \in RuleIds /\ r.frps \in Frps \cup {NoFrps} /\ r.sources \subseteq Sources
                                /\ r.mode \in {"allow", "block"} /\ r.quick \in BOOLEAN /\ r.on \in BOOLEAN
    /\ Cardinality(fwLoads) <= MaxFwLoads /\ fwActs \in 0..MaxFwActs
    /\ applying.step \in {"none", "testing", "asking", "sent"}

(* The user is not cut off by rules applied here without having been told: *)
(* not by a rule of another frps, nor by an allow list that leaves him out;*)
(* and every rule of the draft can be seen, and so changed, under one of   *)
(* the frps, whatever instances were deleted.  Not held to it: a draft     *)
(* changed while the test is under way, a test with no answer, an address  *)
(* the panel does not know, and a frps created since the test.             *)
RulesInTheOpen ==
    /\ ~cutOff
    /\ shownPage => \A r \in draft.rules : \E f \in fwData[1].frps : shownRule(r, f, fwData[1].frps)
=============================================================================
