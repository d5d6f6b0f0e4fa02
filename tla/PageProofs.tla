----------------------------- MODULE PageProofs -----------------------------
(***************************************************************************)
(* Proofs about pages of the web interface, for any instances, keys, rules,*)
(* requests under way and number of user's acts: what FirewallPage applies,*)
(* what ConfigPage and TunnelsPage write, what LogView shows, and what     *)
(* Dashboard says; that StatusFeed forgets no change; the types and bounds *)
(* of every page; and that a behaviour of Web is one of each of its parts. *)
(***************************************************************************)
EXTENDS Web, StatsWorkerProofs, SequenceTheorems, TLAPS

-----------------------------------------------------------------------------
(* The Firewall page.                                                      *)

\* What is sent was tested, or the user was told; and it is the test of the draft of this
\* moment as long as `same`.
Tested ==
    /\ applying.step \in {"none", "testing", "asking", "sent"}
    /\ applying.step \in {"testing", "asking"} =>
          applying \in [step : {"testing", "asking"}, rules : {applying.rules}, same : BOOLEAN]
    /\ applying.step = "testing" /\ applying.same => draft.rules = applying.rules
    /\ applying.step = "sent" /\ applying.content.enabled /\ ~applying.told => ~blocksMe(applying.content.rules)

FwInv == ~cutOff /\ Tested

LEMMA FwFirst == FwPageInit => FwInv
  BY DEF FwPageInit, FwInv, Tested, NotApplying

\* A verdict does not turn to "blocked" when an instance is deleted.
LEMMA FewerFrps == ASSUME NEW rules, aliveFrps' \subseteq aliveFrps, ~blocksMe(rules) PROVE ~blocksMe(rules)'
  BY DEF blocksMe, ofFrps

\* A new frps was not tested for.
LEMMA MoreFrps == FwInv /\ FrpsCreated => FwInv'
<1> SUFFICES ASSUME FwInv, FrpsCreated PROVE FwInv'
  OBVIOUS
<1>1. CASE applying.step \in {"testing", "asking"}
  BY <1>1 DEF FrpsCreated, untestedNow, FwInv, Tested
<1>2. CASE applying.step = "sent"
  <2>1. applying' = [applying EXCEPT !.told = TRUE] /\ cutOff' = cutOff
    BY <1>2 DEF FrpsCreated
  <2> QED
    BY <1>2, <2>1 DEF FwInv, Tested
<1>3. CASE applying.step = "none"
  <2>1. applying' = applying /\ cutOff' = cutOff
    BY <1>3 DEF FrpsCreated, untestedNow
  <2> QED
    BY <1>3, <2>1 DEF FwInv, Tested
<1> QED
  BY <1>1, <1>2, <1>3 DEF FwInv, Tested

\* A changed draft is not what was tested.
LEMMA Redrafted ==
    ASSUME FwInv, NEW d, redraft(d)
    PROVE  FwInv'
<1>1. aliveFrps' = aliveFrps /\ cutOff' = cutOff
  BY DEF redraft
<1>2. CASE applying.step \in {"testing", "asking"}
  BY <1>2 DEF redraft, untestedNow, FwInv, Tested
<1>3. CASE applying.step \notin {"testing", "asking"}
  <2>1. applying' = applying
    BY <1>3 DEF redraft, untestedNow
  <2> QED
    BY <1>1, <1>3, <2>1, FewerFrps DEF FwInv, Tested
<1> QED
  BY <1>2, <1>3

LEMMA FwKept ==
    ASSUME FwInv, aliveFrps' \subseteq aliveFrps, UNCHANGED <<applying, cutOff, draft>>
    PROVE  FwInv'
  BY FewerFrps DEF FwInv, Tested

LEMMA FwStep == FwInv /\ [FwPageNext]_fwPageVars => FwInv'
<1> SUFFICES ASSUME FwInv, [FwPageNext]_fwPageVars PROVE FwInv'
  OBVIOUS
<1>1. CASE \/ FwMount \/ RulesAnswered \/ RulesFail \/ PickFrps \/ OpenRuleEditor \/ CloseRuleEditor
           \/ FrpsDeleted \/ UNCHANGED fwPageVars
  BY <1>1, FwKept DEF FwMount, RulesAnswered, RulesFail, PickFrps, OpenRuleEditor, CloseRuleEditor,
     FrpsDeleted, fwPageVars
<1>2. CASE \/ ToggleFirewall \/ ToggleRule \/ RemoveRule \/ QuickBlock \/ Subscribe \/ SubmitRule \/ DiscardRules
  BY <1>2, Redrafted DEF ToggleFirewall, ToggleRule, RemoveRule, QuickBlock, Subscribe, SubmitRule, DiscardRules
<1>3. CASE RulesFilled
  <2>1. applying' = untestedNow /\ aliveFrps' = aliveFrps /\ cutOff' = cutOff
    BY <1>3 DEF RulesFilled
  <2>2. CASE applying.step \in {"testing", "asking"}
    BY <2>1, <2>2 DEF untestedNow, FwInv, Tested
  <2>3. CASE applying.step \notin {"testing", "asking"}
    <3>1. applying' = applying
      BY <2>1, <2>3 DEF untestedNow
    <3> QED
      BY <2>1, <2>3, <3>1, FewerFrps DEF FwInv, Tested
  <2> QED
    BY <2>2, <2>3
<1>4. CASE ApplyRules
  <2>1. CASE applying' = [step |-> "testing", rules |-> draft.rules, same |-> TRUE]
    BY <1>4, <2>1 DEF ApplyRules, FwInv, Tested
  <2>2. CASE applying' = [step |-> "sent", content |-> draft, told |-> draft.enabled]
    BY <1>4, <2>2 DEF ApplyRules, FwInv, Tested
  <2> QED
    BY <1>4, <2>1, <2>2 DEF ApplyRules
<1>5. CASE TestAnswered
  <2>1. CASE blocksMe(applying.rules)
    BY <1>5, <2>1 DEF TestAnswered, next, FwInv, Tested
  <2>2. CASE ~blocksMe(applying.rules)
    <3>1. applying' = [step |-> "sent", content |-> draft, told |-> ~applying.same] /\ aliveFrps' = aliveFrps /\ cutOff' = cutOff
      BY <1>5, <2>2 DEF TestAnswered, sent, next
    <3>2. applying.step = "testing" /\ applying.same \in BOOLEAN
      BY <1>5 DEF TestAnswered, FwInv, Tested
    <3>3. ~applying'.told => ~blocksMe(applying'.content.rules)
      BY <2>2, <3>1, <3>2 DEF FwInv, Tested
    <3> QED
      BY <3>1, <3>3, FewerFrps DEF FwInv, Tested, blocksMe, ofFrps
  <2> QED
    BY <2>1, <2>2
<1>6. CASE TestFails \/ UserConfirms \/ UserCancels \/ RulesRefused
  BY <1>6 DEF TestFails, UserConfirms, UserCancels, RulesRefused, sent, next, NotApplying, FwInv, Tested
<1>7. CASE RulesApplied
  BY <1>7 DEF RulesApplied, NotApplying, FwInv, Tested
<1>8. CASE FrpsCreated
  BY <1>8, MoreFrps
<1> QED
  BY <1>1, <1>2, <1>3, <1>4, <1>5, <1>6, <1>7, <1>8 DEF FwPageNext

(* Rules that block the user are applied only when he was told (tested and *)
(* confirmed), or could not be: changed since, a frps created since, no    *)
(* answer to the test, an address the panel does not know.  So it is       *)
(* whatever is edited, loaded or deleted meanwhile; and every rule of the  *)
(* draft is shown under some frps.                                         *)
THEOREM NobodyCutOffUnawares == FwPageSpec => []RulesInTheOpen
<1>1. FwInv => RulesInTheOpen
  <2>1. ASSUME NEW r, NEW frps, frps # {} PROVE \E f \in frps : shownRule(r, f, frps)
    BY <2>1 DEF shownRule, ofFrps, orphan
  <2> QED
    BY <2>1 DEF FwInv, RulesInTheOpen, shownPage
<1> QED
  BY <1>1, FwFirst, FwStep, PTL DEF FwPageSpec

-----------------------------------------------------------------------------
(* The Configuration page.                                                 *)

ConfigTypes ==
    /\ DOMAIN configFile = ConfigInstances /\ DOMAIN othersWrote = ConfigInstances
    /\ \A i \in ConfigInstances : /\ configFile[i] = NoFile \/ DOMAIN configFile[i] = ConfigKeys
                                  /\ DOMAIN othersWrote[i] \subseteq ConfigKeys
    /\ controls = NoForm \/ DOMAIN controls = FieldNames

\* A field that differs from what was loaded is one the user changed.
ChangesAreEdits ==
    controls # NoForm =>
        /\ \A k \in ConfigKeys : changed(k) => k \in editedKeys
        /\ changed(Switch) => SwitchedKeys \subseteq editedKeys

\* A save has the keys the user changed and no other; once it has read the file again, what
\* it will write has what others wrote.
SaveIsOwn ==
    saving # Idle =>
        /\ saving = [step |-> saving.step, iid |-> saving.iid, values |-> saving.values, touched |-> saving.touched,
                     mine |-> saving.mine, content |-> saving.content, crossed |-> saving.crossed]
        /\ saving.step \in {"reading", "writing", "written"} /\ saving.crossed \in BOOLEAN
        /\ ~saving.crossed => saving.iid = formOf
        /\ saving.touched \subseteq saving.mine
        /\ saving.step = "writing" => DOMAIN saving.content = ConfigKeys
        /\ saving.step = "writing" /\ ~saving.crossed /\ saving.iid \in ConfigInstances =>
              \A k \in DOMAIN othersWrote[saving.iid] \ saving.mine :
                 saving.content[k] = configFile[saving.iid][k]

ConfigInv == ConfigTypes /\ ChangesAreEdits /\ SaveIsOwn /\ SaveKeepsOthers

LEMMA ConfigFirst == ConfigInit => ConfigInv
  BY ConfigPageAssumption DEF ConfigInit, ConfigInv, ConfigTypes, ChangesAreEdits, SaveIsOwn, SaveKeepsOthers,
     NoFile, NoForm

LEMMA ConfigStep == ConfigInv /\ [ConfigNext]_configVars => ConfigInv'
<1> SUFFICES ASSUME ConfigInv, [ConfigNext]_configVars PROVE ConfigInv'
  OBVIOUS
<1> USE DEF ConfigInv, ConfigTypes
<1>1. CASE FileAnswered \/ FormLoadFails \/ ConfigUnmount \/ UNCHANGED configVars
  BY <1>1 DEF FileAnswered, FormLoadFails, ConfigUnmount, configVars, ChangesAreEdits, changed, SaveIsOwn, SaveKeepsOthers
<1>2. CASE ConfigMount \/ SelectForm \/ DiscardForm
  <2>1. controls' = NoForm /\ UNCHANGED <<configFile, othersWrote>>
    BY <1>2 DEF ConfigMount, SelectForm, DiscardForm, askFor
  <2>2. (saving' = saving /\ formOf' = formOf) \/ saving' = movedFrom
    BY <1>2 DEF ConfigMount, SelectForm, DiscardForm
  <2>3. SaveIsOwn'
    <3>1. CASE saving' = saving /\ formOf' = formOf
      BY <2>1, <3>1 DEF SaveIsOwn
    <3>2. CASE saving' = movedFrom /\ saving # Idle
      <4>1. saving' = [saving EXCEPT !.crossed = TRUE]
        BY <3>2 DEF movedFrom, SaveIsOwn
      <4> QED
        BY <2>1, <3>2, <4>1 DEF SaveIsOwn
    <3>3. CASE saving' = movedFrom /\ saving = Idle
      BY <3>3 DEF movedFrom, SaveIsOwn, Idle
    <3> QED
      BY <2>2, <3>1, <3>2, <3>3
  <2> QED
    BY <2>1, <2>3 DEF ChangesAreEdits, SaveKeepsOthers
<1>3. CASE FormFilled
  <2>1. CASE formMounted
    <3>1. PICK answer : controls' = filled(answer) /\ loaded' = filled(answer)
      BY <1>3, <2>1 DEF FormFilled
    <3>2. DOMAIN controls' = FieldNames
      BY <3>1 DEF filled
    <3> QED
      BY <1>3, <3>1, <3>2 DEF FormFilled, ChangesAreEdits, changed, SaveIsOwn, SaveKeepsOthers
  <2>2. CASE ~formMounted
    BY <1>3, <2>2 DEF FormFilled, ChangesAreEdits, changed, SaveIsOwn, SaveKeepsOthers
  <2> QED
    BY <2>1, <2>2
<1>4. CASE EditField
  <2>1. DOMAIN controls = FieldNames /\ DOMAIN controls' = FieldNames
    BY <1>4 DEF EditField
  <2>2. ChangesAreEdits'
    <3>1. CASE \E k \in ConfigKeys, v \in Typed : controls' = [controls EXCEPT ![k] = v] /\ editedKeys' = editedKeys \cup {k}
      <4>1. PICK k \in ConfigKeys, v \in Typed : controls' = [controls EXCEPT ![k] = v] /\ editedKeys' = editedKeys \cup {k}
        BY <3>1
      <4> QED
        BY <1>4, <2>1, <4>1, ConfigPageAssumption DEF EditField, ChangesAreEdits, changed, FieldNames, Switch
    <3>2. CASE editedKeys' = editedKeys \cup SwitchedKeys /\ \E v : controls' = [controls EXCEPT ![Switch] = v]
      BY <1>4, <2>1, <3>2, ConfigPageAssumption DEF EditField, ChangesAreEdits, changed, FieldNames, Switch
    <3> QED
      BY <1>4, <3>1, <3>2 DEF EditField
  <2> QED
    BY <1>4, <2>1, <2>2 DEF EditField, SaveIsOwn, SaveKeepsOthers
<1>5. CASE ClickSave
  <2>1. touchedKeys \subseteq editedKeys \cup bracketed
    BY <1>5 DEF ClickSave, touchedKeys, ChangesAreEdits
  <2> QED
    BY <1>5, <2>1 DEF ClickSave, SaveIsOwn, ChangesAreEdits, changed, SaveKeepsOthers, Idle
<1>6. CASE SaveReadsAgain
  <2> DEFINE content == mergeIntoFile(configFile[saving.iid], saving.values, saving.touched)
  <2>1. saving # Idle /\ saving' = [saving EXCEPT !.step = "writing", !.content = content]
    BY <1>6 DEF SaveReadsAgain, Idle
  <2>2. DOMAIN content = ConfigKeys
    BY DEF mergeIntoFile, generatedFrom
  <2>3. ASSUME saving.iid \in ConfigInstances, NEW k \in DOMAIN othersWrote[saving.iid] \ saving.mine
        PROVE  content[k] = configFile[saving.iid][k]
    <3>1. configFile[saving.iid] # NoFile /\ k \in ConfigKeys /\ k \notin saving.touched
      BY <2>1, <2>3 DEF SaveKeepsOthers, SaveIsOwn
    <3> QED
      BY <3>1 DEF mergeIntoFile
  <2>4. SaveIsOwn'
    <3> HIDE DEF content
    <3>1. UNCHANGED <<configFile, othersWrote, formOf>>
      BY <1>6 DEF SaveReadsAgain
    <3> QED
      BY <2>1, <2>2, <2>3, <3>1 DEF SaveIsOwn, Idle
  <2> QED
    BY <1>6, <2>4 DEF SaveReadsAgain, ChangesAreEdits, changed, SaveKeepsOthers
<1>7. CASE SaveFails
  BY <1>7 DEF SaveFails, ChangesAreEdits, changed, SaveIsOwn, SaveKeepsOthers
<1>8. CASE SaveWrites
  <2>1. saving # Idle /\ saving.step = "writing" /\ DOMAIN saving.content = ConfigKeys
    BY <1>8 DEF SaveWrites, Idle, SaveIsOwn
  <2>2. SaveKeepsOthers' /\ ConfigTypes'
    <3>1. ASSUME NEW i \in ConfigInstances
          PROVE  /\ configFile'[i] = NoFile \/ DOMAIN configFile'[i] = ConfigKeys
                 /\ DOMAIN othersWrote'[i] \subseteq ConfigKeys
                 /\ \A k \in DOMAIN othersWrote'[i] : configFile'[i] # NoFile /\ configFile'[i][k] = othersWrote'[i][k]
      <4>1. CASE i # formOf
        BY <1>8, <4>1 DEF SaveWrites, SaveKeepsOthers
      <4>2. CASE i = formOf /\ saving.crossed
        BY <1>8, <2>1, <4>2 DEF SaveWrites, NoFile, NoForm
      <4>3. CASE i = formOf /\ ~saving.crossed
        <5>1. configFile'[i] = saving.content /\ saving.iid = i
          BY <1>8, <2>1, <4>3 DEF SaveWrites, SaveIsOwn
        <5>2. othersWrote'[i] = [k \in DOMAIN othersWrote[i] \ saving.mine |-> othersWrote[i][k]]
          BY <1>8, <4>3 DEF SaveWrites
        <5>3. ASSUME NEW k \in DOMAIN othersWrote[i] \ saving.mine
              PROVE  saving.content # NoFile /\ saving.content[k] = othersWrote[i][k]
          BY <2>1, <4>3, <5>1 DEF SaveIsOwn, SaveKeepsOthers, NoFile, NoForm
        <5> QED
          BY <2>1, <5>1, <5>2, <5>3
      <4> QED
        BY <4>1, <4>2, <4>3, <2>1 DEF SaveIsOwn
    <3> QED
      BY <1>8, <3>1 DEF SaveWrites, SaveKeepsOthers
  <2>3. SaveIsOwn'
    BY <1>8, <2>1 DEF SaveWrites, SaveIsOwn
  <2> QED
    BY <1>8, <2>2, <2>3 DEF SaveWrites, ChangesAreEdits, changed
<1>9. CASE SaveAnswered
  BY <1>9 DEF SaveAnswered, ChangesAreEdits, changed, SaveIsOwn, SaveKeepsOthers
<1>10. CASE OthersWrite
  <2>1. UNCHANGED <<formOf, controls, loaded, editedKeys>>
    BY <1>10 DEF OthersWrite
  <2>2. SaveIsOwn'
    <3>1. CASE saving.step = "writing"
      <4>1. saving' = [saving EXCEPT !.crossed = TRUE] /\ saving # Idle
        BY <1>10, <3>1 DEF OthersWrite, Idle
      <4> QED
        BY <2>1, <3>1, <4>1 DEF SaveIsOwn
    <3>2. CASE saving.step # "writing"
      <4>1. saving' = saving
        BY <1>10, <3>2 DEF OthersWrite
      <4> QED
        BY <2>1, <3>2, <4>1 DEF SaveIsOwn
    <3> QED
      BY <3>1, <3>2
  <2>3. PICK i \in ConfigInstances :
          \/ \E k \in ConfigKeys, v \in {"absent", "c"} :
                /\ configFile[i] # NoFile /\ configFile[i][k] # v
                /\ configFile' = [configFile EXCEPT ![i][k] = v]
                /\ othersWrote' = [othersWrote EXCEPT ![i] = [x \in DOMAIN @ \cup {k} |-> IF x = k THEN v ELSE @[x]]]
          \/ /\ configFile[i] # NoFile
             /\ configFile' = [configFile EXCEPT ![i] = NoFile]
             /\ othersWrote' = [othersWrote EXCEPT ![i] = NoFile]
    BY <1>10, Zenon DEF OthersWrite
  <2>4. CASE /\ configFile[i] # NoFile
             /\ configFile' = [configFile EXCEPT ![i] = NoFile]
             /\ othersWrote' = [othersWrote EXCEPT ![i] = NoFile]
    BY <2>1, <2>2, <2>4 DEF ChangesAreEdits, changed, SaveKeepsOthers, NoFile, NoForm
  <2>5. ASSUME NEW k \in ConfigKeys, NEW v \in {"absent", "c"}, configFile[i] # NoFile,
               configFile' = [configFile EXCEPT ![i][k] = v],
               othersWrote' = [othersWrote EXCEPT ![i] = [x \in DOMAIN @ \cup {k} |-> IF x = k THEN v ELSE @[x]]]
        PROVE  ConfigInv'
    <3>1. configFile'[i] = [configFile[i] EXCEPT ![k] = v] /\ DOMAIN configFile'[i] = ConfigKeys
      BY <2>5
    <3>2. othersWrote'[i] = [x \in DOMAIN othersWrote[i] \cup {k} |-> IF x = k THEN v ELSE othersWrote[i][x]]
      BY <2>5
    <3>3. configFile'[i] # NoFile
      BY <3>1 DEF NoFile, NoForm
    <3>4. \A x \in DOMAIN othersWrote'[i] : configFile'[i][x] = othersWrote'[i][x]
      BY <2>5, <3>1, <3>2 DEF SaveKeepsOthers
    <3>5. \A j \in ConfigInstances \ {i} : configFile'[j] = configFile[j] /\ othersWrote'[j] = othersWrote[j]
      BY <2>5
    <3>6. SaveKeepsOthers' /\ ConfigTypes'
      BY <2>1, <2>5, <3>1, <3>2, <3>3, <3>4, <3>5 DEF SaveKeepsOthers
    <3> QED
      BY <2>1, <2>2, <3>6 DEF ChangesAreEdits, changed
  <2> QED
    BY <2>3, <2>4, <2>5
<1> QED
  BY <1>1, <1>2, <1>3, <1>4, <1>5, <1>6, <1>7, <1>8, <1>9, <1>10 DEF ConfigNext

(* Saving a form writes back no key the user did not change (or that had   *)
(* brackets to take off), however many answers, edits and writes of others *)
(* came between: touchedKeys, mergeIntoFile and the second reading.        *)
THEOREM FormWritesItsOwn == ConfigSpec => []SaveKeepsOthers
<1>1. ConfigInv => SaveKeepsOthers
  BY DEF ConfigInv
<1> QED
  BY <1>1, ConfigFirst, ConfigStep, PTL DEF ConfigSpec

-----------------------------------------------------------------------------
(* The Logs page.                                                          *)

LogRows == [place : Places, n : Nat]
Streams == [on : BOOLEAN, transport : {"websocket", "sse"}, everOpened : BOOLEAN,
            conn : {"none", "opening", "open", "retry"}, failures : Nat]

LogTypes ==
    /\ place \in Places /\ logged \in [Places -> Nat] /\ loadSeq \in Nat /\ broken \in BOOLEAN
    /\ lines \in Seq(LogRows) /\ stream \in Nat
    /\ live \in Streams
    /\ loads \subseteq [seq : Nat, place : Places, upTo : Nat]

\* Only the last load may still fill the page, and it is about what is selected.
LoadsHold ==
    \A l \in loads : /\ l.seq <= loadSeq
                     /\ l.seq = loadSeq => l.place = place
                     /\ l.upTo <= MaxLogged => l.upTo <= logged[l.place]

\* A stream goes on after the last line shown, right after it as long as none was lost; one
\* that has never opened has shown nothing, and one that opens again was broken.
StreamHolds ==
    /\ live.on <=> live.conn # "none"
    /\ \A i \in DOMAIN lines : lines[i].n <= logged[place]
    /\ live.on /\ ~live.everOpened => live.conn # "open" /\ lines = <<>>
    /\ live.on /\ live.everOpened /\ live.conn # "open" => broken
    /\ live.conn = "open" =>
          /\ stream \in Nat \ {0}
          /\ \A i \in DOMAIN lines : lines[i].n < stream
          /\ ~broken /\ lines # <<>> => lines[Len(lines)].n = stream - 1

LogInv == LogTypes /\ LoadsHold /\ StreamHolds /\ LogShowsSelection

LEMMA OffIsOff == Off \in Streams /\ ~Off.on /\ ~Off.everOpened /\ Off.conn = "none"
  BY DEF Off, Streams

\* What is kept of a sequence is its end.
LEMMA LastLines ==
    ASSUME NEW s \in Seq(LogRows)
    PROVE  /\ lastLines(s) \in Seq(LogRows) /\ Len(lastLines(s)) <= MAX_LINES
           /\ \E d \in Nat : /\ Len(lastLines(s)) + d = Len(s)
                             /\ \A i \in 1..Len(lastLines(s)) : lastLines(s)[i] = s[i + d]
<1>1. CASE Len(s) <= MAX_LINES
  <2>1. Len(s) \in Nat /\ DOMAIN s = 1..Len(s)
    BY LenProperties
  <2>2. lastLines(s) = s
    BY <1>1 DEF lastLines
  <2>3. 0 \in Nat /\ Len(s) + 0 = Len(s) /\ \A i \in 1..Len(s) : s[i] = s[i + 0]
    BY <2>1
  <2> QED
    BY <1>1, <2>2, <2>3
<1>2. CASE ~(Len(s) <= MAX_LINES)
  <2> DEFINE t == lastLines(s)
             d == Len(s) - MAX_LINES
  <2>1. Len(s) \in Nat /\ MAX_LINES \in Nat \ {0} /\ ~(Len(s) <= MAX_LINES)
    BY <1>2, LogViewAssumption, LenProperties
  <2>2. /\ d \in Nat /\ d + 1 \in Int /\ MAX_LINES + d = Len(s) /\ d + 1 <= Len(s)
        /\ Len(s) - (d + 1) + 1 = MAX_LINES
    BY <2>1
  <2>3. t = SubSeq(s, d + 1, Len(s))
    BY <1>2 DEF lastLines
  <2>4. \A i \in (d + 1)..Len(s) : s[i] \in LogRows
    BY <2>1, <2>2, ElementOfSeq
  <2> HIDE DEF d, t
  <2>5. /\ t \in Seq(LogRows)
        /\ Len(t) = IF d + 1 <= Len(s) THEN Len(s) - (d + 1) + 1 ELSE 0
        /\ \A i \in 1..(Len(s) - (d + 1) + 1) : t[i] = s[(d + 1) + i - 1]
    BY <2>1, <2>2, <2>3, <2>4, SubSeqProperties
  <2>6. Len(t) = MAX_LINES /\ \A i \in 1..MAX_LINES : t[i] = s[(d + 1) + i - 1]
    BY <2>2, <2>5
  <2>7. \A i \in 1..MAX_LINES : (d + 1) + i - 1 = i + d
    BY <2>1, <2>2
  <2>8. Len(t) <= MAX_LINES /\ Len(t) + d = Len(s) /\ \A i \in 1..Len(t) : t[i] = s[i + d]
    BY <2>1, <2>2, <2>6, <2>7
  <2> QED
    BY <2>2, <2>5, <2>8 DEF t
<1> QED
  BY <1>1, <1>2

\* The end of what shows the selection shows it too.
LEMMA Shown ==
    ASSUME NEW s \in Seq(LogRows), NEW p, NEW lost \in BOOLEAN,
           \A i \in 1..Len(s) : s[i].place = p,
           \A i, j \in 1..Len(s) : i < j => s[i].n < s[j].n,
           ~lost => \A i \in 1..Len(s) : s[i].n = s[1].n + i - 1
    PROVE  LET t == lastLines(s)
           IN  /\ t \in Seq(LogRows) /\ DOMAIN t = 1..Len(t)
               /\ \A i \in DOMAIN t : t[i].place = p
               /\ \A i, j \in DOMAIN t : i < j => t[i].n < t[j].n
               /\ ~lost => \A i \in DOMAIN t : t[i].n = t[1].n + i - 1
               /\ \A i \in DOMAIN t : \E j \in 1..Len(s) : t[i] = s[j]
               /\ t # <<>> => Len(s) # 0 /\ t[Len(t)] = s[Len(s)]
<1> DEFINE t == lastLines(s)
<1>1. t \in Seq(LogRows) /\ Len(t) \in Nat /\ DOMAIN t = 1..Len(t) /\ Len(s) \in Nat
  BY LastLines, LenProperties
<1>2. PICK d \in Nat : Len(t) + d = Len(s) /\ \A i \in 1..Len(t) : t[i] = s[i + d]
  BY LastLines
<1>3. \A i \in 1..Len(s) : s[i].n \in Nat
  BY ElementOfSeq DEF LogRows
<1> HIDE DEF t
<1>4. \A i \in 1..Len(t) : i + d \in 1..Len(s)
  BY <1>1, <1>2
<1>5. (\A i \in 1..Len(t) : t[i].place = p) /\ \A i, j \in 1..Len(t) : i < j => t[i].n < t[j].n
  BY <1>1, <1>2, <1>4
<1>6. ASSUME ~lost, NEW i \in 1..Len(t) PROVE t[i].n = t[1].n + i - 1
  <2>1. 1 \in 1..Len(t)
    BY <1>1
  <2>2. t[i].n = s[1].n + (i + d) - 1 /\ t[1].n = s[1].n + (1 + d) - 1
    BY <1>2, <1>4, <1>6, <2>1
  <2>3. s[1].n \in Nat
    BY <1>1, <1>2, <1>3, <2>1
  <2> QED
    BY <2>2, <2>3, <1>1
<1>7. t # <<>> => Len(s) # 0 /\ t[Len(t)] = s[Len(s)]
  <2> SUFFICES ASSUME t # <<>> PROVE Len(s) # 0 /\ t[Len(t)] = s[Len(s)]
    OBVIOUS
  <2>1. Len(t) \in 1..Len(t)
    BY <1>1, EmptySeq
  <2> QED
    BY <1>1, <1>2, <2>1
<1> QED
  BY <1>1, <1>2, <1>4, <1>5, <1>6, <1>7 DEF t

\* An empty page shows the selection, and no stream has gone past it.
LEMMA NothingShown ==
    /\ <<>> \in Seq(LogRows) /\ DOMAIN <<>> = {}
    /\ lines' = <<>> => LogShowsSelection'
  BY EmptySeq DEF LogShowsSelection

\* A load or a stream that starts makes every load under way stale.
LEMMA StartsEmpty ==
    ASSUME LogInv, place' \in Places, logged' = logged,
           \E p \in Places : (p = place' /\ startLoad(p)) \/ startLive
    PROVE  LogInv'
<1>1. lines' = <<>> /\ stream' = 0 /\ broken' = FALSE /\ loadSeq' = loadSeq + 1
  BY DEF startLoad, startLive
<1>2. /\ live' \in Streams /\ ~live'.everOpened
      /\ \/ ~live'.on /\ live'.conn = "none"
         \/ live'.on /\ live'.conn = "opening"
  <2>1. live' = Off \/ live' = [Off EXCEPT !.on = TRUE, !.conn = "opening"]
    BY DEF startLoad, startLive
  <2> QED
    BY <2>1, OffIsOff DEF Streams
<1>3. loads' \subseteq loads \cup {[seq |-> loadSeq + 1, place |-> place', upTo |-> MaxLogged + 1]}
  BY DEF startLoad, startLive
<1>4. LogTypes'
  <2>2. [seq |-> loadSeq + 1, place |-> place', upTo |-> MaxLogged + 1] \in [seq : Nat, place : Places, upTo : Nat]
    BY LogViewAssumption DEF LogInv, LogTypes
  <2>3. loads' \subseteq [seq : Nat, place : Places, upTo : Nat]
    BY <1>3, <2>2, Zenon DEF LogInv, LogTypes
  <2>4. lines' \in Seq(LogRows)
    BY <1>1, NothingShown
  <2>5. place' \in Places /\ logged' \in [Places -> Nat] /\ loadSeq' \in Nat /\ broken' \in BOOLEAN /\ stream' \in Nat
    <3>1. place' \in Places /\ logged' \in [Places -> Nat]
      BY DEF LogInv, LogTypes
    <3>2. loadSeq' \in Nat
      BY <1>1 DEF LogInv, LogTypes
    <3>3. broken' \in BOOLEAN
      BY <1>1
    <3>4. stream' \in Nat
      BY <1>1
    <3> QED
      BY <3>1, <3>2, <3>3, <3>4
  <2> QED
    BY <1>2, <2>3, <2>4, <2>5 DEF LogTypes
<1>5. LoadsHold'
  <2>1. ASSUME NEW l \in loads'
        PROVE  /\ l.seq <= loadSeq' /\ (l.seq = loadSeq' => l.place = place')
               /\ l.upTo <= MaxLogged => l.upTo <= logged[l.place]
    <3>1. CASE l \in loads
      BY <1>1, <3>1 DEF LogInv, LogTypes, LoadsHold
    <3>2. CASE l = [seq |-> loadSeq + 1, place |-> place', upTo |-> MaxLogged + 1]
      BY <1>1, <3>2, LogViewAssumption DEF LogInv, LogTypes
    <3> QED
      BY <1>3, <3>1, <3>2
  <2> QED
    BY <2>1 DEF LoadsHold
<1>6. StreamHolds'
  <2>2. DOMAIN lines' = {}
    BY <1>1, NothingShown
  <2> QED
    BY <1>1, <1>2, <2>2 DEF StreamHolds
<1> QED
  BY <1>1, <1>4, <1>5, <1>6, NothingShown DEF LogInv

LEMMA LogStep == LogInv /\ [LogNext]_logVars => LogInv'
<1> SUFFICES ASSUME LogInv, [LogNext]_logVars PROVE LogInv'
  OBVIOUS
<1> USE DEF LogInv, LogTypes
<1>a. /\ Len(lines) \in Nat /\ DOMAIN lines = 1..Len(lines)
      /\ \A i \in DOMAIN lines : lines[i] \in LogRows
      /\ logged[place] \in Nat
  BY LenProperties, ElementOfSeq
<1>1. CASE LogMount \/ SelectInstance \/ SelectSource \/ Refresh \/ (ToggleLive /\ ~live.on)
  <2>1. place' \in Places /\ logged' = logged
    BY <1>1 DEF LogMount, SelectInstance, SelectSource, Refresh, ToggleLive, Places
  <2>2. startLoad(place') \/ startLive
    BY <1>1 DEF LogMount, SelectInstance, SelectSource, Refresh, ToggleLive
  <2> QED
    BY <2>1, <2>2, StartsEmpty
<1>2. CASE ToggleLive /\ live.on
  <2>1. /\ live' = Off /\ stream' = 0
        /\ UNCHANGED <<logged, place, lines, loadSeq, loads, broken>>
    BY <1>2 DEF ToggleLive
  <2>2. StreamHolds'
    BY <2>1, OffIsOff DEF StreamHolds
  <2> QED
    BY <2>1, <2>2, OffIsOff DEF LoadsHold, LogShowsSelection
<1>3. CASE LogUnmount
  <2>1. /\ live' = Off /\ stream' = 0 /\ lines' = <<>> /\ broken' = FALSE
        /\ UNCHANGED <<logged, place, loadSeq, loads>>
    BY <1>3 DEF LogUnmount
  <2>2. StreamHolds'
    BY <2>1, OffIsOff, NothingShown DEF StreamHolds
  <2> QED
    BY <2>1, <2>2, OffIsOff, NothingShown DEF LoadsHold
<1>4. CASE LineWritten
  <2>1. PICK p \in Places : logged' = [logged EXCEPT ![p] = @ + 1]
    BY <1>4 DEF LineWritten
  <2>2. UNCHANGED <<place, lines, loadSeq, loads, live, stream, broken>>
    BY <1>4 DEF LineWritten
  <2>3. logged' \in [Places -> Nat] /\ \A q \in Places : logged[q] \in Nat /\ logged[q] <= logged'[q]
    BY <2>1
  <2>4. LoadsHold'
    <3>1. \A l \in loads : l.place \in Places /\ l.upTo \in Nat
      OBVIOUS
    <3> QED
      BY <2>2, <2>3, <3>1 DEF LoadsHold
  <2>5. StreamHolds'
    <3>1. \A i \in DOMAIN lines : lines[i].n \in Nat
      BY <1>a DEF LogRows
    <3>2. \A i \in DOMAIN lines : lines[i].n <= logged'[place]
      BY <1>a, <2>3, <3>1 DEF StreamHolds
    <3> QED
      BY <2>2, <3>2 DEF StreamHolds
  <2> QED
    BY <2>2, <2>3, <2>4, <2>5 DEF LogShowsSelection
<1>5. CASE LogRead
  <2>1. PICK l \in loads : loads' = (loads \ {l}) \cup {[l EXCEPT !.upTo = logged[l.place]]}
    BY <1>5 DEF LogRead
  <2>2. UNCHANGED <<logged, place, lines, loadSeq, live, stream, broken>>
    BY <1>5 DEF LogRead
  <2>3. l \in [seq : Nat, place : Places, upTo : Nat] /\ logged[l.place] \in Nat
    OBVIOUS
  <2> DEFINE read1 == [l EXCEPT !.upTo = logged[l.place]]
  <2>4. /\ read1 \in [seq : Nat, place : Places, upTo : Nat]
        /\ read1.seq = l.seq /\ read1.place = l.place /\ read1.upTo = logged[read1.place]
    BY <2>3
  <2> HIDE DEF read1
  <2>5. loads' \subseteq loads \cup {read1}
    BY <2>1 DEF read1
  <2>6. LoadsHold'
    BY <2>2, <2>3, <2>4, <2>5 DEF LoadsHold
  <2>7. loads' \subseteq [seq : Nat, place : Places, upTo : Nat]
    BY <2>4, <2>5, Zenon
  <2> QED
    BY <2>2, <2>6, <2>7 DEF StreamHolds, LogShowsSelection
<1>6. CASE LoadArrives \/ LoadFails
  <2>1. PICK l \in loads :
          /\ loads' = loads \ {l}
          /\ \/ lines' = lines
             \/ ~stale(l) /\ lines' = <<>>
             \/ ~stale(l) /\ l.upTo <= MaxLogged /\ lines' = lastLines([n \in 1..l.upTo |-> LogLine(l.place, n)])
    BY <1>6 DEF LoadArrives, LoadFails
  <2>2. UNCHANGED <<logged, place, loadSeq, live, stream, broken>>
    BY <1>6 DEF LoadArrives, LoadFails
  <2>3. loads' \subseteq [seq : Nat, place : Places, upTo : Nat] /\ LoadsHold'
    BY <2>1, <2>2 DEF LoadsHold
  <2>4. CASE lines' = lines
    BY <2>2, <2>3, <2>4 DEF StreamHolds, LogShowsSelection
  <2>5. CASE ~stale(l) /\ lines' = <<>>
    <3>1. ~live.on
      BY <2>5 DEF stale
    <3>2. StreamHolds'
      BY <2>2, <2>5, <3>1, NothingShown DEF StreamHolds
    <3> QED
      BY <2>2, <2>3, <2>5, <3>2, NothingShown
  <2>6. CASE ~stale(l) /\ l.upTo <= MaxLogged /\ lines' = lastLines([n \in 1..l.upTo |-> LogLine(l.place, n)])
    <3> DEFINE s == [n \in 1..l.upTo |-> LogLine(l.place, n)]
    <3>1. ~live.on /\ l.place = place /\ l.upTo \in Nat /\ l.upTo <= logged[place]
      BY <2>6 DEF stale, LoadsHold
    <3>2. \A n \in 1..l.upTo : LogLine(l.place, n) \in LogRows
      BY <3>1 DEF LogLine, LogRows
    <3>3. s \in Seq(LogRows) /\ Len(s) = l.upTo
      BY <3>1, <3>2
    <3>4. \A i \in 1..Len(s) : s[i].place = place /\ s[i].n = i
      BY <3>1, <3>3 DEF LogLine
    <3> HIDE DEF s
    <3>5. /\ \A i \in 1..Len(s) : s[i].place = place
          /\ \A i, j \in 1..Len(s) : i < j => s[i].n < s[j].n
          /\ ~broken => \A i \in 1..Len(s) : s[i].n = s[1].n + i - 1
      <4>1. ASSUME NEW i \in 1..Len(s) PROVE s[i].n = i /\ s[1].n = 1
        <5>1. 1 \in 1..Len(s)
          BY <3>1, <3>3
        <5> QED
          BY <3>4, <5>1
      <4>2. ASSUME NEW i \in 1..Len(s) PROVE s[i].n = s[1].n + i - 1
        BY <3>1, <3>3, <4>1
      <4> QED
        BY <3>3, <3>4, <4>1, <4>2
    <3>6. lines' = lastLines(s)
      BY <2>6 DEF s
    <3>7. /\ lines' \in Seq(LogRows) /\ LogShowsSelection'
          /\ \A i \in DOMAIN lines' : \E j \in 1..Len(s) : lines'[i] = s[j]
      BY <2>2, <3>3, <3>5, <3>6, Shown DEF LogShowsSelection
    <3>8. \A i \in DOMAIN lines' : lines'[i].n <= logged[place]
      BY <3>1, <3>3, <3>4, <3>7, <1>a
    <3>9. StreamHolds'
      BY <2>2, <3>1, <3>8 DEF StreamHolds
    <3> QED
      BY <2>2, <2>3, <3>7, <3>9
  <2> QED
    BY <2>1, <2>4, <2>5, <2>6
<1>7. CASE StreamOpens
  <2>1. /\ live' = [live EXCEPT !.conn = "open", !.everOpened = TRUE, !.failures = 0]
        /\ stream' = IF live.everOpened THEN logged[place] + 1 ELSE 1
        /\ live.conn = "opening" /\ UNCHANGED <<logged, place, lines, loadSeq, loads, broken>>
    BY <1>7 DEF StreamOpens
  <2>2. live' \in Streams /\ live'.conn = "open" /\ live'.everOpened /\ (live'.on <=> live.on) /\ live.on
    BY <2>1 DEF Streams, StreamHolds
  <2>3. StreamHolds'
    <3>1. \A i \in DOMAIN lines : lines[i].n \in Nat
      BY <1>a DEF LogRows
    <3>2. CASE live.everOpened
      BY <1>a, <2>1, <2>2, <3>1, <3>2 DEF StreamHolds
    <3>3. CASE ~live.everOpened
      <4>1. lines = <<>> /\ DOMAIN lines = {}
        BY <2>2, <3>3, NothingShown DEF StreamHolds
      <4> QED
        BY <2>1, <2>2, <3>3, <4>1 DEF StreamHolds
    <3> QED
      BY <3>2, <3>3
  <2> QED
    BY <1>a, <2>1, <2>2, <2>3 DEF LoadsHold, LogShowsSelection
<1>8. CASE StreamLine
  <2>1. /\ live.conn = "open" /\ stream <= logged[place] /\ stream \in Nat \ {0}
        /\ lines' = lastLines(Append(lines, LogLine(place, stream))) /\ stream' = stream + 1
        /\ UNCHANGED <<logged, place, loadSeq, loads, live, broken>>
    BY <1>8 DEF StreamLine, StreamHolds
  <2> DEFINE s == Append(lines, LogLine(place, stream))
  <2>2. LogLine(place, stream) \in LogRows /\ LogLine(place, stream).place = place /\ LogLine(place, stream).n = stream
    BY <2>1 DEF LogLine, LogRows
  <2>3. /\ s \in Seq(LogRows) /\ Len(s) = Len(lines) + 1
        /\ \A i \in 1..Len(lines) : s[i] = lines[i]
        /\ s[Len(s)] = LogLine(place, stream)
    BY <2>2, AppendProperties
  <2> HIDE DEF s
  <2>4. \A i \in 1..Len(s) : s[i].place = place
    BY <1>a, <2>2, <2>3 DEF LogShowsSelection
  <2>5. \A i, j \in 1..Len(s) : i < j => s[i].n < s[j].n
    <3> SUFFICES ASSUME NEW i \in 1..Len(s), NEW j \in 1..Len(s), i < j PROVE s[i].n < s[j].n
      OBVIOUS
    <3>1. i \in 1..Len(lines) /\ s[i] = lines[i]
      BY <1>a, <2>3
    <3>2. CASE j = Len(s)
      BY <1>a, <2>1, <2>2, <2>3, <3>1, <3>2 DEF StreamHolds
    <3>3. CASE j # Len(s)
      <4>1. j \in 1..Len(lines) /\ s[j] = lines[j]
        BY <1>a, <2>3, <3>3
      <4> QED
        BY <1>a, <3>1, <4>1 DEF LogShowsSelection
    <3> QED
      BY <3>2, <3>3
  <2>6. ~broken => \A i \in 1..Len(s) : s[i].n = s[1].n + i - 1
    <3> SUFFICES ASSUME ~broken, NEW i \in 1..Len(s) PROVE s[i].n = s[1].n + i - 1
      OBVIOUS
    <3>1. CASE lines = <<>>
      <4>1. Len(s) = 1 /\ i = 1 /\ s[1].n = stream
        BY <1>a, <2>2, <2>3, <3>1, NothingShown, EmptySeq
      <4> QED
        BY <2>1, <4>1
    <3>2. CASE lines # <<>>
      <4>1. Len(lines) \in 1..Len(lines) /\ 1 \in 1..Len(lines)
        BY <1>a, <3>2, EmptySeq
      <4>2. lines[Len(lines)].n = stream - 1 /\ lines[Len(lines)].n = lines[1].n + Len(lines) - 1
        BY <1>a, <2>1, <3>2, <4>1 DEF StreamHolds, LogShowsSelection
      <4>3. lines[1].n \in Nat /\ s[1] = lines[1]
        BY <1>a, <2>3, <4>1 DEF LogRows
      <4>4. CASE i = Len(s)
        <5>1. s[i].n = stream /\ s[1].n = lines[1].n /\ i = Len(lines) + 1
          BY <2>2, <2>3, <4>3, <4>4
        <5>2. stream - 1 = lines[1].n + Len(lines) - 1 /\ lines[1].n \in Nat /\ stream \in Nat /\ Len(lines) \in Nat
          BY <1>a, <2>1, <4>2, <4>3
        <5>3. \A x, y, z \in Nat : x - 1 = y + z - 1 => x = y + (z + 1) - 1
          OBVIOUS
        <5>4. stream = lines[1].n + (Len(lines) + 1) - 1
          BY <5>2, <5>3, Zenon
        <5> QED
          BY <5>1, <5>4, Zenon
      <4>5. CASE i # Len(s)
        <5>1. i \in 1..Len(lines) /\ s[i] = lines[i]
          BY <1>a, <2>3, <4>5
        <5> QED
          BY <1>a, <4>3, <5>1 DEF LogShowsSelection
      <4> QED
        BY <4>4, <4>5
    <3> QED
      BY <3>1, <3>2
  <2>7. /\ lines' \in Seq(LogRows) /\ LogShowsSelection'
        /\ \A i \in DOMAIN lines' : \E j \in 1..Len(s) : lines'[i] = s[j]
        /\ lines' # <<>> => lines'[Len(lines')] = s[Len(s)]
    <3>1. lines' = lastLines(s)
      BY <2>1 DEF s
    <3>2. /\ lines' \in Seq(LogRows) /\ DOMAIN lines' = 1..Len(lines')
          /\ \A i \in DOMAIN lines' : lines'[i].place = place
          /\ \A i, j \in DOMAIN lines' : i < j => lines'[i].n < lines'[j].n
          /\ ~broken => \A i \in DOMAIN lines' : lines'[i].n = lines'[1].n + i - 1
          /\ \A i \in DOMAIN lines' : \E j \in 1..Len(s) : lines'[i] = s[j]
          /\ lines' # <<>> => lines'[Len(lines')] = s[Len(s)]
      BY <2>3, <2>4, <2>5, <2>6, <3>1, Shown
    <3>3. LogShowsSelection'
      BY <2>1, <3>2 DEF LogShowsSelection
    <3> QED
      BY <3>2, <3>3
  <2>8. \A j \in 1..Len(s) : s[j].n \in Nat /\ s[j].n <= stream
    <3> SUFFICES ASSUME NEW j \in 1..Len(s) PROVE s[j].n \in Nat /\ s[j].n <= stream
      OBVIOUS
    <3>1. CASE j = Len(s)
      BY <2>1, <2>2, <2>3, <3>1
    <3>2. CASE j # Len(s)
      <4>1. j \in 1..Len(lines) /\ s[j] = lines[j]
        BY <1>a, <2>3, <3>2
      <4>2. lines[j].n \in Nat /\ lines[j].n < stream
        BY <1>a, <2>1, <4>1 DEF StreamHolds, LogRows
      <4>3. \A x, y \in Nat : x < y => x <= y
        OBVIOUS
      <4> QED
        BY <2>1, <4>1, <4>2, <4>3, Zenon
    <3> QED
      BY <3>1, <3>2
  <2>9. StreamHolds'
    <3>1. \A i \in DOMAIN lines' : lines'[i].n < stream' /\ lines'[i].n <= logged'[place']
      BY <1>a, <2>1, <2>7, <2>8
    <3>2. lines' # <<>> => lines'[Len(lines')].n = stream' - 1
      BY <2>1, <2>2, <2>3, <2>7
    <3>3. live.everOpened /\ live.on
      BY <2>1 DEF StreamHolds, Streams
    <3>4. stream' \in Nat \ {0}
      BY <2>1
    <3> QED
      BY <2>1, <3>1, <3>2, <3>3, <3>4 DEF StreamHolds
  <2> QED
    BY <1>a, <2>1, <2>7, <2>9 DEF LoadsHold
<1>9. CASE StreamDrops
  <2>1. /\ live.conn \in {"opening", "open"} /\ stream' = 0 /\ broken' = (live.conn = "open" \/ broken)
        /\ live' = IF live.transport = "websocket" /\ live.conn = "opening" /\ ~live.everOpened
                   THEN [live EXCEPT !.transport = "sse"] ELSE retried
        /\ UNCHANGED <<logged, place, lines, loadSeq, loads>>
    BY <1>9 DEF StreamDrops
  <2>2. live.on /\ broken' \in BOOLEAN
    BY <2>1 DEF StreamHolds
  <2>3. \/ live' = Off
        \/ /\ live' \in Streams /\ live'.on /\ live'.conn \in {"opening", "retry"}
           /\ live'.everOpened <=> live.everOpened
    <3>1. CASE live' = [live EXCEPT !.transport = "sse"]
      <4>1. live.conn = "opening" \/ live' = Off
        BY <2>1, <3>1 DEF Streams, retried
      <4> QED
        BY <2>1, <2>2, <3>1, <4>1 DEF Streams
    <3>2. CASE live' = [live EXCEPT !.conn = "retry", !.failures = @ + 1]
      <4>1. live \in Streams
        OBVIOUS
      <4>2. live' \in Streams
        <5> DEFINE f == live.failures + 1
        <5>1. f \in Nat
          BY <4>1 DEF Streams
        <5>2. live' = [live EXCEPT !.conn = "retry", !.failures = f]
          BY <3>2
        <5> HIDE DEF f
        <5> QED
          BY <4>1, <5>1, <5>2 DEF Streams
      <4>3. live'.conn = "retry" /\ live'.on = live.on /\ live'.everOpened = live.everOpened
        BY <3>2, <4>1 DEF Streams
      <4> QED
        BY <2>2, <4>2, <4>3
    <3> QED
      BY <2>1, <3>1, <3>2 DEF retried
  <2>4. StreamHolds'
    <3>1. CASE live' = Off
      BY <2>1, <3>1, OffIsOff DEF StreamHolds
    <3>2. CASE live' # Off
      <4>1. /\ live'.on /\ live'.conn \in {"opening", "retry"} /\ (live'.everOpened <=> live.everOpened)
        BY <2>3, <3>2
      <4>2. ~live.everOpened => lines' = <<>>
        BY <2>1, <2>2 DEF StreamHolds
      <4>3. live.everOpened => broken'
        BY <2>1, <2>2 DEF StreamHolds
      <4> QED
        BY <2>1, <4>1, <4>2, <4>3 DEF StreamHolds
    <3> QED
      BY <3>1, <3>2
  <2>5. LogShowsSelection'
    BY <2>1 DEF LogShowsSelection
  <2> QED
    BY <1>a, <2>1, <2>2, <2>3, <2>4, <2>5, OffIsOff DEF LoadsHold
<1>10. CASE StreamRetries
  <2>1. /\ live.conn = "retry" /\ live' = [live EXCEPT !.conn = "opening"]
        /\ UNCHANGED <<logged, place, lines, loadSeq, loads, stream, broken>>
    BY <1>10 DEF StreamRetries
  <2>2. /\ live' \in Streams /\ live'.conn = "opening" /\ (live'.on <=> live.on)
        /\ live'.everOpened <=> live.everOpened
    BY <2>1 DEF Streams
  <2>3. StreamHolds'
    BY <2>1, <2>2 DEF StreamHolds
  <2> QED
    BY <1>a, <2>1, <2>2, <2>3 DEF LoadsHold, LogShowsSelection
<1>11. CASE UNCHANGED logVars
  BY <1>11 DEF logVars, LoadsHold, StreamHolds, LogShowsSelection
<1> QED
  BY <1>1, <1>2, <1>3, <1>4, <1>5, <1>6, <1>7, <1>8, <1>9, <1>10, <1>11 DEF LogNext

LEMMA LogFirst == LogInit => LogInv
<1> SUFFICES ASSUME LogInit PROVE LogInv
  OBVIOUS
<1>1. place \in Places
  <2>1. \E p : p \in Places
    <3>1. PICK iid \in LogInstances, source \in LogSources : TRUE
      BY LogViewAssumption
    <3>2. <<iid, source>> \in Places
      BY DEF Places
    <3> QED
      BY <3>2
  <2> QED
    BY <2>1 DEF LogInit
<1>2. LogTypes
  BY <1>1, OffIsOff, NothingShown DEF LogInit, LogTypes
<1>3. LoadsHold /\ StreamHolds /\ LogShowsSelection
  BY OffIsOff, NothingShown DEF LogInit, LoadsHold, StreamHolds, LogShowsSelection
<1> QED
  BY <1>2, <1>3 DEF LogInv

(* The page of logs shows the selected instance and source only, each line *)
(* once and in order, with none missing unless a connection was lost after *)
(* lines were shown: load, stopLive, connect, append and the reconnections *)
(* of any number of loads, streams and lines.                              *)
THEOREM SelectionShown == LogSpec => []LogShowsSelection
<1>1. LogInv => LogShowsSelection
  BY DEF LogInv
<1> QED
  BY <1>1, LogFirst, LogStep, PTL DEF LogSpec

-----------------------------------------------------------------------------
(* The dashboard.                                                          *)

CallOps == {"detect", "enable", "disable", "delete", "delete_config", "create", "adopt"}
CallSteps == {"sent", "done", "refused", "deleting", "refresh", "read"}
States == [on : SUBSET Names, auto : SUBSET Names]
CallRecords == [op : CallOps, of : Names \cup {detection.of}, step : CallSteps, mine : BOOLEAN, state : States]
Deletes(x) == x.op \in {"delete", "delete_config"}
Sound(x) ==
    /\ x.state.auto \subseteq x.state.on /\ (x.op # "detect" => x.of \in Names)
    /\ x.step = "deleting" => Deletes(x)
LoadRecords == [last : BOOLEAN, key : SUBSET Names, step : {"asked", "read"}, list : SUBSET Names, current : BOOLEAN]

ServerTyped ==
    config \in [Names -> {"none", "orphan", "dismissed", "service", "leaving"}] /\ autostart \subseteq services
CardsTyped == cards \in States /\ cards.auto \subseteq cards.on
CallsTyped == calls \subseteq CallRecords /\ \A x \in calls : Sound(x)
ListsTyped ==
    /\ orphanLoads \subseteq LoadRecords /\ orphans \subseteq Names
    /\ dashShown \in BOOLEAN /\ overlooked \in BOOLEAN
CountsTyped == dashActs \in 0..MaxDashActs /\ dashOthers \in 0..MaxDashOthers
DashTypes == ServerTyped /\ CardsTyped /\ CallsTyped /\ ListsTyped /\ CountsTyped /\ switches \subseteq Names

\* A request of a switch that is in the page, before its answer is handled.
toggling(x, i) == x.mine /\ x.of = i /\ x.op \in {"enable", "disable"} /\ x.step \in {"sent", "done", "refused"}

\* What a switch shows is what its card was drawn with, or what the server has.
Shows(i, on) == (on <=> i \in cards.auto) \/ (on <=> i \in autostart)

\* A switch whose setting nobody else changed shows what it should, and its request, if one is
\* under way, what it should once it is answered; there is one at most.
SwitchHolds(i) ==
    /\ \A x, y \in calls : toggling(x, i) /\ toggling(y, i) => x = y
    /\ i \notin crossed =>
          /\ (\A x \in calls : ~toggling(x, i)) => Shows(i, i \in switches)
          /\ \A x \in calls : toggling(x, i) =>
                /\ x.op = "enable" <=> i \in switches
                /\ x.step = "done" => (i \in switches <=> i \in autostart)
                /\ x.step # "done" => Shows(i, i \notin switches)
SwitchesHold == dashShown => \A i \in Names : SwitchHolds(i)

\* A list of configurations is the one of now, if the instances are those the page knows.
ListHolds(l) == cards.on = services => l = orphanConfigs /\ \A i \in Names : config[i] # "leaving"
OrphansHold ==
    dashShown =>
        /\ orphanKey \in {<<>>, <<cards.on>>}
        /\ \A l \in orphanLoads : l.last => l.key = cards.on /\ (l.step = "read" /\ l.current => ListHolds(l.list))
        /\ ~overlooked /\ (\A l \in orphanLoads : ~l.last) => ListHolds(orphans)

DashInv == DashTypes /\ SwitchesHold /\ OrphansHold

LEMMA CallFields ==
    ASSUME NEW x \in CallRecords, NEW step \in CallSteps
    PROVE  LET y == [x EXCEPT !.step = step]
           IN  /\ y \in CallRecords /\ y.step = step
               /\ y.op = x.op /\ y.of = x.of /\ (y.mine <=> x.mine) /\ y.state = x.state
  BY DEF CallRecords

LEMMA CallDrawn ==
    ASSUME NEW x \in CallRecords
    PROVE  LET y == [x EXCEPT !.mine = FALSE]
           IN  /\ y \in CallRecords /\ ~y.mine
               /\ y.op = x.op /\ y.of = x.of /\ y.step = x.step /\ y.state = x.state
  BY DEF CallRecords

LEMMA CallRead ==
    ASSUME NEW x \in CallRecords, NEW s \in States
    PROVE  LET y == [x EXCEPT !.step = "read", !.state = s]
           IN  /\ y \in CallRecords /\ y.step = "read" /\ y.state = s
               /\ y.op = x.op /\ y.of = x.of /\ (y.mine <=> x.mine)
  BY DEF CallRecords, CallSteps

LEMMA NewCall ==
    ASSUME NEW op \in CallOps, NEW i \in Names \cup {detection.of}
    PROVE  /\ call(op, i) \in CallRecords /\ call(op, i).state.auto \subseteq call(op, i).state.on
           /\ call(op, i).op = op /\ call(op, i).of = i /\ call(op, i).mine /\ call(op, i).step = "sent"
  BY DEF call, CallRecords, CallSteps, States

LEMMA Detection == detection \in CallRecords /\ Sound(detection) /\ detection.op = "detect"
<1>1. detection = call("detect", detection.of)
  BY DEF detection, call
<1> QED
  BY <1>1, NewCall DEF CallOps, Sound

LEMMA LoadFields ==
    ASSUME NEW l \in LoadRecords
    PROVE  /\ [l EXCEPT !.last = FALSE] \in LoadRecords /\ ~[l EXCEPT !.last = FALSE].last
           /\ [l EXCEPT !.current = FALSE] \in LoadRecords /\ ~[l EXCEPT !.current = FALSE].current
           /\ [l EXCEPT !.current = FALSE].last <=> l.last
           /\ [l EXCEPT !.current = FALSE].key = l.key /\ [l EXCEPT !.current = FALSE].step = l.step
           /\ [l EXCEPT !.current = FALSE].list = l.list
  BY DEF LoadRecords

LEMMA ServerTypedStep == DashTypes /\ [DashNext]_dashVars => ServerTyped'
<1> SUFFICES ASSUME DashTypes, [DashNext]_dashVars PROVE ServerTyped'
  OBVIOUS
<1> USE DEF DashTypes
<1>1. CASE UNCHANGED serverVars
  BY <1>1 DEF serverVars, ServerTyped, services
<1>2. CASE RequestServed
  <2>1. PICK x \in calls :
          /\ x.step = "sent" /\ serves(x)
          /\ \/ /\ x.op \in {"enable", "disable"}
                /\ autostart' = IF x.op = "enable" THEN autostart \cup {x.of} ELSE autostart \ {x.of}
                /\ crossed' = IF x.mine THEN crossed ELSE crossed \cup {x.of}
                /\ serve(x, "done") /\ UNCHANGED config
             \/ /\ x.op \in {"create", "adopt"}
                /\ config' = [config EXCEPT ![x.of] = "service"] /\ serve(x, "done") /\ UNCHANGED <<autostart, crossed>>
             \/ /\ x.op \in {"delete", "delete_config"}
                /\ config' = [config EXCEPT ![x.of] = "leaving"] /\ autostart' = autostart \ {x.of}
                /\ serve(x, "deleting") /\ crossed' = crossed \cup {x.of}
    BY <1>2, Zenon DEF RequestServed
  <2>2. CASE x.op \in {"enable", "disable"}
    BY <2>1, <2>2 DEF serves, ServerTyped, services
  <2>3. CASE x.op \in {"create", "adopt"}
    BY <2>1, <2>3 DEF ServerTyped, services
  <2>4. CASE x.op \in {"delete", "delete_config"}
    BY <2>1, <2>4 DEF ServerTyped, services
  <2> QED
    BY <2>1, <2>2, <2>3, <2>4
<1>3. CASE DeletionEnds
  <2>1. PICK x \in calls : config' = IF config[x.of] # "leaving" THEN config
                       ELSE [config EXCEPT ![x.of] = IF x.op = "delete" THEN "dismissed" ELSE "none"]
    BY <1>3 DEF DeletionEnds
  <2>2. config' \in [Names -> {"none", "orphan", "dismissed", "service", "leaving"}] /\ services' = services
    BY <2>1 DEF ServerTyped, services
  <2> QED
    BY <1>3, <2>2 DEF DeletionEnds, ServerTyped
<1>4. CASE OthersAct
  <2>1. PICK i \in Names :
          \/ /\ config[i] \in {"none", "orphan"}
             /\ config' = [config EXCEPT ![i] = IF @ = "none" THEN "orphan" ELSE "none"]
             /\ outdated /\ UNCHANGED <<autostart, crossed>>
          \/ /\ i \in services /\ crossed' = crossed \cup {i}
             /\ \/ /\ autostart' = IF i \in autostart THEN autostart \ {i} ELSE autostart \cup {i}
                   /\ UNCHANGED config
                \/ config' = [config EXCEPT ![i] = "dismissed"] /\ autostart' = autostart \ {i}
             /\ cameBack
    BY <1>4, Zenon DEF OthersAct
  <2> QED
    BY <2>1 DEF ServerTyped, services
<1> QED
  BY <1>1, <1>2, <1>3, <1>4 DEF DashNext, dashVars, serverVars, DashMount, DashUnmount, DrawnAgain, Redetect,
     ToggleAutostart, AskDelete, AskCreate, AskAdopt, calling, Detected, Refuses, OrphansRead, StatePushed,
     ToggleAnswered, DeleteAnswered, CreateAnswered, StateAnswered, stays, CallLost, OrphansArrive, OrphansFail

\* Drawing the grid leaves the requests as they are, but for the switches they came from.
LEMMA DrawnCalls ==
    ASSUME NEW rest, rest \subseteq CallRecords, \A x \in rest : Sound(x), NEW c, drawGrid(c, rest)
    PROVE  CallsTyped' /\ \A x \in calls' : ~x.mine
<1>1. calls' = {[x EXCEPT !.mine = FALSE] : x \in rest}
  BY DEF drawGrid
<1>2. ASSUME NEW x \in rest PROVE LET y == [x EXCEPT !.mine = FALSE] IN y \in CallRecords /\ Sound(y) /\ ~y.mine
  BY CallDrawn DEF Sound, Deletes
<1> QED
  BY <1>1, <1>2 DEF CallsTyped

LEMMA SetCalls ==
    ASSUME NEW rest, rest \subseteq CallRecords, \A x \in rest : Sound(x), NEW c, NEW key, setInstances(c, key, rest)
    PROVE  CallsTyped'
  BY DrawnCalls DEF setInstances, CallsTyped

LEMMA CallsTypedStep == DashTypes /\ [DashNext]_dashVars => CallsTyped'
<1> SUFFICES ASSUME DashTypes, [DashNext]_dashVars PROVE CallsTyped'
  OBVIOUS
<1> USE DEF DashTypes
<1>a. calls \subseteq CallRecords /\ \A x \in calls : Sound(x)
  BY DEF CallsTyped
<1>b. ASSUME NEW x \in calls, NEW step \in CallSteps, step = "deleting" => Deletes(x)
      PROVE  [x EXCEPT !.step = step] \in CallRecords /\ Sound([x EXCEPT !.step = step])
  BY <1>a, <1>b, CallFields DEF Sound, Deletes
<1>1. CASE calls' \subseteq calls
  BY <1>1 DEF CallsTyped
<1>2. CASE DashMount \/ DrawnAgain
  BY <1>2, <1>a, DrawnCalls DEF DashMount, DrawnAgain
<1>3. CASE Redetect \/ ToggleAutostart \/ AskDelete \/ AskCreate \/ AskAdopt
  <2>1. ASSUME NEW op \in CallOps, NEW i \in Names, calling(call(op, i)) PROVE CallsTyped'
    BY <1>a, <2>1, NewCall DEF calling, CallsTyped, Sound
  <2>2. CASE Redetect
    BY <1>a, <2>2, Detection DEF Redetect, calling, CallsTyped
  <2>3. cards.on \subseteq Names /\ orphans \subseteq Names
    BY DEF CardsTyped, States, ListsTyped
  <2>4. CASE ToggleAutostart
    <3>1. PICK i \in cards.on : calling(call(IF i \in switches THEN "disable" ELSE "enable", i))
      BY <2>4 DEF ToggleAutostart
    <3> QED
      BY <2>1, <2>3, <3>1 DEF CallOps
  <2>5. CASE AskDelete \/ AskCreate \/ AskAdopt
    BY <2>1, <2>3, <2>5 DEF AskDelete, AskCreate, AskAdopt, CallOps
  <2> QED
    BY <1>3, <2>2, <2>4, <2>5
<1>4. ASSUME NEW x \in calls, NEW step \in CallSteps, serve(x, step), step = "deleting" => Deletes(x) PROVE CallsTyped'
  BY <1>a, <1>b, <1>4 DEF serve, CallsTyped
<1>5. CASE RequestServed \/ DeletionEnds \/ Refuses
  <2>1. \E x \in calls, step \in CallSteps : serve(x, step) /\ (step = "deleting" => Deletes(x))
    BY <1>5 DEF RequestServed, DeletionEnds, Refuses, CallSteps, Deletes
  <2> QED
    BY <1>4, <2>1
<1>6. CASE Detected
  <2>1. PICK x \in calls : calls' = (calls \ {x}) \cup {[x EXCEPT !.step = "read", !.state = stateNow]}
    BY <1>6 DEF Detected
  <2>2. stateNow \in States /\ stateNow.auto \subseteq stateNow.on
    BY DEF stateNow, States, ServerTyped, services
  <2> DEFINE y == [x EXCEPT !.step = "read", !.state = stateNow]
  <2>3. y \in CallRecords /\ y.state = stateNow /\ y.op = x.op /\ y.of = x.of /\ y.step = "read"
    BY <1>a, <2>2, CallRead
  <2> HIDE DEF y
  <2>4. Sound(y)
    BY <1>a, <2>2, <2>3 DEF Sound
  <2> QED
    BY <1>a, <2>1, <2>3, <2>4 DEF CallsTyped, y
<1>7. CASE StatePushed \/ StateAnswered
  BY <1>7, <1>a, SetCalls DEF StatePushed, StateAnswered
<1>8. CASE ToggleAnswered
  <2>1. PICK x \in calls, after \in {{}, {"refresh"}} : calls' = (calls \ {x}) \cup {[x EXCEPT !.step = "refresh"] : step \in after}
    BY <1>8 DEF ToggleAnswered
  <2> QED
    BY <1>a, <1>b, <2>1 DEF CallsTyped, CallSteps
<1>9. ASSUME NEW x \in calls, NEW key, quiet(x, key) PROVE CallsTyped'
  BY <1>a, <1>9, Detection DEF quiet, CallsTyped
<1>10. CASE DeleteAnswered
  <2>1. PICK x \in calls :
          IF x.step = "refused" THEN quiet(x, orphanKey)
             ELSE setInstances([on |-> cards.on \ {x.of}, auto |-> cards.auto \ {x.of}], orphanKey,
                               (calls \ {x}) \cup {detection})
    BY <1>10 DEF DeleteAnswered
  <2>2. CASE x.step = "refused"
    BY <1>9, <2>1, <2>2
  <2>3. CASE x.step # "refused"
    <3>1. (calls \ {x}) \cup {detection} \subseteq CallRecords /\ \A y \in (calls \ {x}) \cup {detection} : Sound(y)
      BY <1>a, Detection
    <3> QED
      BY <2>1, <2>3, <3>1, SetCalls
  <2> QED
    BY <2>2, <2>3
<1>11. CASE CreateAnswered
  BY <1>11, <1>1, <1>9 DEF CreateAnswered
<1>12. CASE CallLost
  <2>1. PICK x \in calls : \/ quiet(x, orphanKey) \/ calls' = calls \ {x}
    BY <1>12 DEF CallLost
  <2> QED
    BY <1>1, <1>9, <2>1
<1> QED
  BY <1>1, <1>2, <1>3, <1>5, <1>6, <1>7, <1>8, <1>10, <1>11, <1>12 DEF DashNext, dashVars, shownVars, DashUnmount,
     OrphansRead, OthersAct, OrphansArrive, OrphansFail

LEMMA OtherTypesStep == DashTypes /\ [DashNext]_dashVars => CardsTyped' /\ ListsTyped' /\ CountsTyped' /\ (switches \subseteq Names)'
<1> SUFFICES ASSUME DashTypes, [DashNext]_dashVars PROVE CardsTyped' /\ ListsTyped' /\ CountsTyped' /\ (switches \subseteq Names)'
  OBVIOUS
<1> USE DEF DashTypes
<1>a. cards.on \subseteq Names /\ cards.auto \subseteq cards.on /\ stateNow \in States /\ stateNow.auto \subseteq stateNow.on
  BY DEF CardsTyped, stateNow, States, ServerTyped, services
<1>b. ASSUME NEW x \in calls PROVE x \in CallRecords /\ Sound(x) /\ x.state \in States
  BY DEF CallsTyped, CallRecords
<1>1. CountsTyped'
  <2>1. dashActs' = dashActs \/ acts1
    BY DEF DashNext, dashVars, DashMount, DashUnmount, DrawnAgain, Redetect,
     ToggleAutostart, AskDelete, AskCreate, AskAdopt, calling, RequestServed, DeletionEnds, Detected, Refuses, pageStays,
     OrphansRead, OthersAct, StatePushed, ToggleAnswered, DeleteAnswered, CreateAnswered, StateAnswered, stays, CallLost,
     OrphansArrive, OrphansFail
  <2>2. dashOthers' = dashOthers \/ (dashOthers < MaxDashOthers /\ dashOthers' = dashOthers + 1)
    BY DEF DashNext, dashVars, DashMount, DashUnmount, DrawnAgain, Redetect,
     ToggleAutostart, AskDelete, AskCreate, AskAdopt, calling, RequestServed, DeletionEnds, Detected, Refuses, pageStays,
     OrphansRead, OthersAct, StatePushed, ToggleAnswered, DeleteAnswered, CreateAnswered, StateAnswered, stays, CallLost,
     OrphansArrive, OrphansFail
  <2> QED
    BY <2>1, <2>2, DashboardAssumption DEF acts1, CountsTyped
\* What the cards and the switches become.
<1>2. CardsTyped' /\ (switches \subseteq Names)'
  <2>1. ASSUME cards' = cards \/ \E c \in States : c.auto \subseteq c.on /\ cards' = c,
               switches' = switches \/ switches' = cards'.auto \/ \E i \in Names : switches' \subseteq switches \cup {i}
        PROVE  CardsTyped' /\ (switches \subseteq Names)'
    BY <2>1 DEF CardsTyped, States
  <2>2. ASSUME NEW c \in States, c.auto \subseteq c.on, NEW key, NEW rest, setInstances(c, key, rest)
        PROVE  CardsTyped' /\ (switches \subseteq Names)'
    BY <2>1, <2>2 DEF setInstances, drawGrid
  <2>3. ASSUME NEW x \in calls, goesBack(x), x.op # "detect", cards' = cards PROVE CardsTyped' /\ (switches \subseteq Names)'
    BY <1>b, <2>1, <2>3 DEF goesBack, Sound
  <2>4. CASE UNCHANGED <<cards, switches>>
    BY <2>1, <2>4
  <2>5. CASE DashMount \/ DrawnAgain
    BY <2>1, <2>5 DEF DashMount, DrawnAgain, drawGrid
  <2>6. CASE ToggleAutostart
    BY <1>a, <2>1, <2>6 DEF ToggleAutostart, calling
  <2>7. CASE StatePushed
    BY <1>a, <2>2, <2>7 DEF StatePushed
  <2>8. CASE ToggleAnswered
    <3>1. PICK x \in calls : x.op \in {"enable", "disable"} /\ (switches' = switches \/ goesBack(x))
      BY <2>8 DEF ToggleAnswered
    <3> QED
      BY <2>3, <2>4, <2>8, <3>1 DEF ToggleAnswered
  <2>9. CASE DeleteAnswered
    <3>1. PICK x \in calls :
          IF x.step = "refused" THEN quiet(x, orphanKey)
             ELSE setInstances([on |-> cards.on \ {x.of}, auto |-> cards.auto \ {x.of}], orphanKey,
                               (calls \ {x}) \cup {detection})
      BY <2>9 DEF DeleteAnswered
    <3> DEFINE c == [on |-> cards.on \ {x.of}, auto |-> cards.auto \ {x.of}]
    <3>2. c \in States /\ c.auto \subseteq c.on
      BY <1>a DEF States
    <3>3. CASE x.step = "refused"
      BY <2>4, <3>1, <3>3 DEF quiet
    <3>4. CASE x.step # "refused"
      <4>1. setInstances(c, orphanKey, (calls \ {x}) \cup {detection})
        BY <3>1, <3>4
      <4> HIDE DEF c
      <4> QED
        BY <2>2, <3>2, <4>1
    <3> QED
      BY <3>3, <3>4
  <2>10. CASE StateAnswered
    <3>1. PICK x \in calls : setInstances(x.state, orphanKey, calls \ {x})
      BY <2>10 DEF StateAnswered
    <3> QED
      BY <1>b, <2>2, <3>1 DEF Sound
  <2>11. CASE CallLost
    <3>1. PICK x \in calls : \/ UNCHANGED <<cards, switches>>
                             \/ x.op \in {"enable", "disable"} /\ goesBack(x) /\ cards' = cards
      BY <2>11 DEF CallLost, quiet
    <3> QED
      BY <2>3, <2>4, <3>1
  <2>12. CASE CreateAnswered
    BY <2>4, <2>12 DEF CreateAnswered, quiet
  <2> QED
    BY <2>4, <2>5, <2>6, <2>7, <2>8, <2>9, <2>10, <2>11, <2>12 DEF DashNext, dashVars, shownVars, DashUnmount, Redetect,
     AskDelete, AskCreate, AskAdopt, calling, RequestServed, DeletionEnds, Detected, Refuses, pageStays,
     OrphansRead, OthersAct, OrphansArrive, OrphansFail
\* What becomes of the lists.
<1>3. ListsTyped'
  <2>1. orphanLoads \subseteq LoadRecords /\ dashShown \in BOOLEAN /\ overlooked \in BOOLEAN /\ orphans \subseteq Names
    BY DEF ListsTyped
  <2>2. ASSUME NEW c, c.on \subseteq Names, NEW key, loadOrphans(c, key) PROVE orphanLoads' \subseteq LoadRecords
    <3>1. [last |-> TRUE, key |-> c.on, step |-> "asked", list |-> {}, current |-> FALSE] \in LoadRecords
      BY <2>2 DEF LoadRecords
    <3>2. \A l \in orphanLoads : [l EXCEPT !.last = FALSE] \in LoadRecords
      BY <2>1, LoadFields
    <3> QED
      BY <2>1, <2>2, <3>1, <3>2 DEF loadOrphans
  <2>3. ASSUME NEW c \in States, NEW key, NEW rest, setInstances(c, key, rest) PROVE orphanLoads' \subseteq LoadRecords
    BY <2>1, <2>2, <2>3 DEF setInstances, States
  <2>4. ASSUME outdated \/ UNCHANGED <<overlooked, orphanLoads>> PROVE orphanLoads' \subseteq LoadRecords /\ overlooked' \in BOOLEAN
    <3>1. \A l \in orphanLoads : [l EXCEPT !.current = FALSE] \in LoadRecords
      BY <2>1, LoadFields
    <3> QED
      BY <2>1, <2>4, <3>1 DEF outdated
  <2>5. CASE UNCHANGED <<orphanLoads, orphans, dashShown, overlooked>>
    BY <2>1, <2>5 DEF ListsTyped
  <2>6. CASE RequestServed \/ OthersAct
    BY <2>1, <2>4, <2>6 DEF RequestServed, OthersAct, pageStays, cameBack, ListsTyped
  <2>7. CASE DashMount \/ DrawnAgain
    BY <1>a, <2>1, <2>2, <2>7 DEF DashMount, DrawnAgain, ListsTyped
  <2>8. CASE DashUnmount
    BY <2>1, <2>8 DEF DashUnmount, shownVars, ListsTyped
  <2>9. CASE StatePushed
    BY <1>a, <2>1, <2>3, <2>9 DEF StatePushed, ListsTyped
  <2>10. CASE StateAnswered
    <3>1. PICK x \in calls : setInstances(x.state, orphanKey, calls \ {x})
      BY <2>10 DEF StateAnswered
    <3> QED
      BY <1>b, <2>1, <2>3, <2>10, <3>1 DEF StateAnswered, stays, ListsTyped
  <2>11. CASE DeleteAnswered
    <3>1. PICK x \in calls :
          IF x.step = "refused" THEN quiet(x, orphanKey)
             ELSE setInstances([on |-> cards.on \ {x.of}, auto |-> cards.auto \ {x.of}], orphanKey,
                               (calls \ {x}) \cup {detection})
      BY <2>11 DEF DeleteAnswered
    <3> DEFINE c == [on |-> cards.on \ {x.of}, auto |-> cards.auto \ {x.of}]
    <3>2. c \in States
      BY <1>a DEF States
    <3>3. orphanLoads' = orphanLoads \/ setInstances(c, orphanKey, (calls \ {x}) \cup {detection})
      BY <3>1 DEF quiet
    <3> HIDE DEF c
    <3>4. orphanLoads' \subseteq LoadRecords
      BY <2>1, <2>3, <3>2, <3>3
    <3> QED
      BY <2>1, <2>11, <3>4 DEF DeleteAnswered, stays, ListsTyped
  <2>12. CASE OrphansRead
    <3>1. PICK l \in orphanLoads : orphanLoads' = (orphanLoads \ {l}) \cup
               {[l EXCEPT !.step = "read", !.list = orphanConfigs,
                          !.current = (l.key = services /\ \A i \in Names : config[i] # "leaving")]}
      BY <2>12 DEF OrphansRead
    <3>2. orphanConfigs \subseteq Names
      BY DEF orphanConfigs
    <3>3. ASSUME NEW b \in BOOLEAN, NEW found \in SUBSET Names
          PROVE  [l EXCEPT !.step = "read", !.list = found, !.current = b] \in LoadRecords
      BY <2>1 DEF LoadRecords
    <3>4. orphanLoads' \subseteq LoadRecords
      BY <2>1, <3>1, <3>2, <3>3
    <3> QED
      BY <2>1, <2>12, <3>4 DEF OrphansRead, ListsTyped
  <2>13. CASE OrphansArrive
    <3>1. PICK l \in orphanLoads : /\ orphanLoads' = orphanLoads \ {l}
                                  /\ orphans' \in {l.list, orphans} /\ overlooked' \in {~l.current, overlooked}
      BY <2>13 DEF OrphansArrive
    <3>2. l.list \subseteq Names /\ l.current \in BOOLEAN
      BY <2>1 DEF LoadRecords
    <3> QED
      BY <2>1, <2>13, <3>1, <3>2 DEF OrphansArrive, ListsTyped
  <2>14. CASE OrphansFail
    <3>1. PICK l \in orphanLoads : /\ orphanLoads' = orphanLoads \ {l} /\ overlooked' = (overlooked \/ l.last)
                                  /\ orphans' \in {{}, orphans}
      BY <2>14 DEF OrphansFail
    <3>2. l.last \in BOOLEAN
      BY <2>1 DEF LoadRecords
    <3> QED
      BY <2>1, <2>14, <3>1, <3>2 DEF OrphansFail, ListsTyped
  <2> QED
    BY <2>5, <2>6, <2>7, <2>8, <2>9, <2>10, <2>11, <2>12, <2>13, <2>14 DEF DashNext, dashVars, shownVars,
     Redetect, ToggleAutostart, AskDelete, AskCreate, AskAdopt, calling, DeletionEnds, pageStays, Detected, Refuses,
     ToggleAnswered, CreateAnswered, stays, CallLost, quiet
<1> QED
  BY <1>1, <1>2, <1>3

\* The lists are as they were, or the instances will be asked for again.
LEMMA OrphansKept ==
    ASSUME OrphansHold, UNCHANGED <<dashShown, cards, config, orphanLoads, orphans, overlooked>>,
           orphanKey' = orphanKey \/ orphanKey' = <<>>
    PROVE  OrphansHold'
  BY DEF OrphansHold, ListHolds, services, orphanConfigs

LEMMA OutdatedLoads ==
    ASSUME ListsTyped, outdated, NEW l \in orphanLoads'
    PROVE  overlooked' /\ ~l.current /\ (l.last => \E k \in orphanLoads : k.last /\ k.key = l.key)
<1>1. PICK k \in orphanLoads : l = [k EXCEPT !.current = FALSE]
  BY DEF outdated
<1>2. k \in LoadRecords
  BY DEF ListsTyped
<1>3. ~l.current /\ (l.last <=> k.last) /\ l.key = k.key
  BY <1>1, <1>2, LoadFields
<1> QED
  BY <1>3 DEF outdated

\* The services have changed: the page does not know, or the lists are overlooked.
LEMMA ServicesMoved ==
    ASSUME OrphansHold, ListsTyped, cameBack, services' # services, UNCHANGED <<dashShown, cards, orphans, orphanKey>>
    PROVE  OrphansHold'
<1>1. CASE cards.on = services'
  <2>1. outdated
    BY <1>1 DEF cameBack
  <2>2. overlooked'
    BY <2>1 DEF outdated
  <2> QED
    BY <2>1, <2>2, OutdatedLoads DEF OrphansHold
<1>2. CASE cards.on # services'
  BY <1>2 DEF cameBack, OrphansHold, ListHolds
<1> QED
  BY <1>1, <1>2

LEMMA Outdated ==
    ASSUME OrphansHold, ListsTyped, outdated, UNCHANGED <<dashShown, cards, orphans, orphanKey>>
    PROVE  OrphansHold'
<1>1. overlooked'
  BY DEF outdated
<1> QED
  BY <1>1, OutdatedLoads DEF OrphansHold

\* The list is asked for: the answers to come before this one are not shown.
LEMMA Asked ==
    ASSUME ListsTyped, NEW c, NEW key, key # <<c.on>>, loadOrphans(c, key), cards' = c
    PROVE  OrphansHold'
<1> DEFINE new == [last |-> TRUE, key |-> c.on, step |-> "asked", list |-> {}, current |-> FALSE]
<1>1. orphanKey' = <<c.on>> /\ orphanLoads' = {[l EXCEPT !.last = FALSE] : l \in orphanLoads} \cup {new}
  BY DEF loadOrphans
<1>2. ASSUME NEW l \in orphanLoads', l.last PROVE l = new
  <2> SUFFICES ASSUME l # new PROVE FALSE
    OBVIOUS
  <2>1. PICK k \in orphanLoads : l = [k EXCEPT !.last = FALSE]
    BY <1>1
  <2>2. k \in LoadRecords
    BY DEF ListsTyped
  <2> QED
    BY <1>2, <2>1, <2>2, LoadFields
<1>3. new \in orphanLoads' /\ new.last /\ new.key = c.on /\ new.step = "asked"
  BY <1>1
<1> QED
  BY <1>1, <1>2, <1>3 DEF OrphansHold

\* The page is given a state of the instances.
LEMMA StateGiven ==
    ASSUME OrphansHold, ListsTyped, NEW c, NEW rest, setInstances(c, orphanKey, rest),
           UNCHANGED <<dashShown, config, orphans, overlooked>>
    PROVE  OrphansHold'
<1>1. CASE ~dashShown
  BY <1>1 DEF OrphansHold
<1>2. CASE dashShown /\ c = cards
  BY <1>2, OrphansKept DEF setInstances
<1>3. CASE dashShown /\ c # cards
  <2>1. loadOrphans(c, orphanKey) /\ cards' = c
    BY <1>3 DEF setInstances
  <2>2. CASE orphanKey = <<c.on>>
    <3>1. c.on = cards.on /\ UNCHANGED <<orphanKey, orphanLoads>>
      BY <1>3, <2>1, <2>2 DEF loadOrphans, OrphansHold
    <3> QED
      BY <2>1, <3>1 DEF OrphansHold, ListHolds, services, orphanConfigs
  <2>3. CASE orphanKey # <<c.on>>
    BY <2>1, <2>3, Asked
  <2> QED
    BY <2>2, <2>3
<1> QED
  BY <1>1, <1>2, <1>3

LEMMA OrphanStep == DashTypes /\ OrphansHold /\ [DashNext]_dashVars => OrphansHold'
<1> SUFFICES ASSUME DashTypes, OrphansHold, [DashNext]_dashVars PROVE OrphansHold'
  OBVIOUS
<1>a. ListsTyped /\ ServerTyped
  BY DEF DashTypes
<1>1. CASE /\ UNCHANGED <<dashShown, cards, config, orphanLoads, orphans, overlooked>>
           /\ orphanKey' = orphanKey \/ orphanKey' = <<>>
  BY <1>1, OrphansKept
<1>2. CASE DashMount
  <2>1. loadOrphans(cards, <<>>) /\ cards' = cards /\ <<>> # <<cards.on>>
    BY <1>2 DEF DashMount
  <2> QED
    BY <1>a, <2>1, Asked
<1>3. CASE DashUnmount
  BY <1>3 DEF DashUnmount, OrphansHold
<1>4. CASE RequestServed
  <2>1. PICK x \in calls :
          /\ x.step = "sent" /\ serves(x)
          /\ \/ /\ x.op \in {"enable", "disable"}
                /\ autostart' = IF x.op = "enable" THEN autostart \cup {x.of} ELSE autostart \ {x.of}
                /\ crossed' = IF x.mine THEN crossed ELSE crossed \cup {x.of}
                /\ serve(x, "done") /\ UNCHANGED config
             \/ /\ x.op \in {"create", "adopt"}
                /\ config' = [config EXCEPT ![x.of] = "service"] /\ serve(x, "done") /\ UNCHANGED <<autostart, crossed>>
             \/ /\ x.op \in {"delete", "delete_config"}
                /\ config' = [config EXCEPT ![x.of] = "leaving"] /\ autostart' = autostart \ {x.of}
                /\ serve(x, "deleting") /\ crossed' = crossed \cup {x.of}
    BY <1>4, Zenon DEF RequestServed
  <2>2. cameBack /\ UNCHANGED <<dashShown, cards, orphans, orphanKey>>
    BY <1>4 DEF RequestServed, pageStays
  <2>3. CASE x.op \in {"enable", "disable"}
    <3>1. config' = config /\ services' = services
      BY <2>1, <2>3 DEF services
    <3> QED
      BY <2>2, <3>1, OrphansKept DEF cameBack
  <2>4. x.op \in {"create", "adopt", "delete", "delete_config"} => x \in CallRecords /\ x.of \in Names
    BY DEF DashTypes, CallsTyped, Sound
  <2>5. CASE x.op \in {"create", "adopt"}
    <3>1. x.of \notin services /\ x.of \in services'
      BY <2>1, <2>4, <2>5 DEF serves, services, orphanConfigs, ServerTyped, DashTypes
    <3> QED
      BY <1>a, <2>2, <3>1, ServicesMoved
  <2>6. CASE x.op \in {"delete", "delete_config"}
    <3>1. x.of \in services /\ x.of \notin services'
      BY <2>1, <2>4, <2>6 DEF serves, services, ServerTyped, DashTypes
    <3> QED
      BY <1>a, <2>2, <3>1, ServicesMoved
  <2> QED
    BY <2>1, <2>3, <2>5, <2>6
\* A deletion ends: as long as one goes on, no list is held to be the one of now.
<1>5. CASE DeletionEnds
  <2>1. PICK x \in calls : config' = IF config[x.of] # "leaving" THEN config
                       ELSE [config EXCEPT ![x.of] = IF x.op = "delete" THEN "dismissed" ELSE "none"]
    BY <1>5 DEF DeletionEnds
  <2>2. UNCHANGED <<dashShown, cards, orphans, orphanKey, overlooked, orphanLoads>>
    BY <1>5 DEF DeletionEnds, pageStays
  <2>3. CASE config' = config
    BY <2>2, <2>3, OrphansKept
  <2>4. CASE x.of \in Names /\ config[x.of] = "leaving"
    <3>1. services' = services
      BY <1>a, <2>1, <2>4 DEF services, ServerTyped
    <3>2. ASSUME NEW found, ListHolds(found) PROVE ListHolds(found)'
      BY <2>2, <2>4, <3>1, <3>2 DEF ListHolds
    <3> QED
      BY <2>2, <3>2 DEF OrphansHold
  <2>5. CASE x.of \notin Names
    <3>1. config' = config
      BY <1>a, <2>1, <2>5 DEF ServerTyped
    <3> QED
      BY <2>3, <3>1
  <2> QED
    BY <2>1, <2>3, <2>4, <2>5
<1>6. CASE OrphansRead
  <2>1. PICK l \in orphanLoads : orphanLoads' = (orphanLoads \ {l}) \cup
               {[l EXCEPT !.step = "read", !.list = orphanConfigs,
                          !.current = (l.key = services /\ \A i \in Names : config[i] # "leaving")]}
    BY <1>6 DEF OrphansRead
  <2>2. UNCHANGED <<dashShown, cards, config, orphans, orphanKey, overlooked>>
    BY <1>6 DEF OrphansRead, serverVars
  <2> DEFINE fresh == l.key = services /\ \A i \in Names : config[i] # "leaving"
  <2>3. ASSUME NEW b \in BOOLEAN
        PROVE  LET k == [l EXCEPT !.step = "read", !.list = orphanConfigs, !.current = b]
               IN  k.key = l.key /\ (k.last <=> l.last) /\ k.list = orphanConfigs /\ (k.current <=> b)
    BY <1>a DEF ListsTyped, LoadRecords
  <2> DEFINE answered == [l EXCEPT !.step = "read", !.list = orphanConfigs, !.current = fresh]
  <2>4. answered.key = l.key /\ (answered.last <=> l.last) /\ answered.list = orphanConfigs /\ (answered.current <=> fresh)
    BY <2>3
  <2>5. orphanLoads' = (orphanLoads \ {l}) \cup {answered}
    BY <2>1
  <2> HIDE DEF answered
  <2>6. answered.current => ListHolds(answered.list)
    BY <2>4 DEF ListHolds
  <2>7. ASSUME NEW found, ListHolds(found) PROVE ListHolds(found)'
    BY <2>2, <2>7 DEF ListHolds, services, orphanConfigs
  <2>8. ASSUME dashShown, NEW k \in orphanLoads', k.last
        PROVE  k.key = cards.on /\ (k.step = "read" /\ k.current => ListHolds(k.list)')
    BY <2>4, <2>5, <2>6, <2>7, <2>8 DEF OrphansHold
  <2>9. (\A k \in orphanLoads' : ~k.last) => \A k \in orphanLoads : ~k.last
    BY <2>4, <2>5
  <2> QED
    BY <2>2, <2>7, <2>8, <2>9 DEF OrphansHold
<1>7. CASE OthersAct
  <2>1. PICK i \in Names :
          \/ /\ config[i] \in {"none", "orphan"}
             /\ config' = [config EXCEPT ![i] = IF @ = "none" THEN "orphan" ELSE "none"]
             /\ outdated /\ UNCHANGED <<autostart, crossed>>
          \/ /\ i \in services /\ crossed' = crossed \cup {i}
             /\ \/ /\ autostart' = IF i \in autostart THEN autostart \ {i} ELSE autostart \cup {i}
                   /\ UNCHANGED config
                \/ config' = [config EXCEPT ![i] = "dismissed"] /\ autostart' = autostart \ {i}
             /\ cameBack
    BY <1>7, Zenon DEF OthersAct
  <2>2. UNCHANGED <<dashShown, cards, orphans, orphanKey>>
    BY <1>7 DEF OthersAct
  <2>3. CASE outdated
    BY <1>a, <2>2, <2>3, Outdated
  <2>4. CASE cameBack /\ UNCHANGED config
    BY <2>2, <2>4, OrphansKept DEF cameBack, services
  <2>5. CASE cameBack /\ i \in services /\ config' = [config EXCEPT ![i] = "dismissed"]
    <3>1. i \notin services'
      BY <1>a, <2>5 DEF services, ServerTyped
    <3> QED
      BY <1>a, <2>2, <2>5, <3>1, ServicesMoved
  <2> QED
    BY <2>1, <2>3, <2>4, <2>5
<1>8. CASE StatePushed
  BY <1>8, <1>a, StateGiven DEF StatePushed, serverVars
<1>9. CASE StateAnswered
  BY <1>9, <1>a, StateGiven DEF StateAnswered, stays, serverVars
<1>10. CASE DeleteAnswered
  <2>1. PICK x \in calls :
          IF x.step = "refused" THEN quiet(x, orphanKey)
             ELSE setInstances([on |-> cards.on \ {x.of}, auto |-> cards.auto \ {x.of}], orphanKey,
                               (calls \ {x}) \cup {detection})
    BY <1>10 DEF DeleteAnswered
  <2>2. UNCHANGED <<dashShown, config, orphans, overlooked>>
    BY <1>10 DEF DeleteAnswered, stays, serverVars
  <2>3. CASE x.step = "refused"
    BY <2>1, <2>2, <2>3, OrphansKept DEF quiet
  <2>4. CASE x.step # "refused"
    BY <1>a, <2>1, <2>2, <2>4, StateGiven
  <2> QED
    BY <2>3, <2>4
<1>11. CASE OrphansArrive
  <2>1. PICK l \in orphanLoads :
          /\ l.step = "read" /\ orphanLoads' = orphanLoads \ {l}
          /\ IF dashShown /\ l.last THEN orphans' = l.list /\ overlooked' = ~l.current
             ELSE UNCHANGED <<orphans, overlooked>>
    BY <1>11 DEF OrphansArrive
  <2>2. UNCHANGED <<dashShown, cards, config, orphanKey>>
    BY <1>11 DEF OrphansArrive, serverVars
  <2>3. ASSUME NEW found, ListHolds(found) PROVE ListHolds(found)'
    BY <2>2, <2>3 DEF ListHolds, services, orphanConfigs
  <2>4. CASE ~dashShown
    BY <2>2, <2>4 DEF OrphansHold
  <2>5. CASE dashShown /\ l.last
    BY <2>1, <2>2, <2>3, <2>5 DEF OrphansHold
  <2>6. CASE dashShown /\ ~l.last
    BY <2>1, <2>2, <2>3, <2>6 DEF OrphansHold
  <2> QED
    BY <2>4, <2>5, <2>6
<1>12. CASE OrphansFail
  <2>1. PICK l \in orphanLoads : /\ orphanLoads' = orphanLoads \ {l} /\ overlooked' = (overlooked \/ l.last)
                                /\ (orphans' = orphans \/ (dashShown /\ l.last))
    BY <1>12 DEF OrphansFail
  <2>2. UNCHANGED <<dashShown, cards, config, orphanKey>>
    BY <1>12 DEF OrphansFail, serverVars
  <2>3. ASSUME NEW found, ListHolds(found) PROVE ListHolds(found)'
    BY <2>2, <2>3 DEF ListHolds, services, orphanConfigs
  <2>4. ~overlooked' => ~overlooked /\ ~l.last /\ orphans' = orphans
    BY <2>1
  <2> QED
    BY <2>1, <2>2, <2>3, <2>4 DEF OrphansHold
<1>13. CASE DrawnAgain
  <2>1. loadOrphans(cards, orphanKey) /\ UNCHANGED <<dashShown, cards, config, orphans, overlooked>>
    BY <1>13 DEF DrawnAgain, serverVars
  <2>2. CASE orphanKey = <<cards.on>>
    BY <2>1, <2>2, OrphansKept DEF loadOrphans
  <2>3. CASE orphanKey # <<cards.on>>
    BY <1>a, <2>1, <2>3, Asked
  <2> QED
    BY <2>2, <2>3
<1> QED
  BY <1>1, <1>2, <1>3, <1>4, <1>5, <1>6, <1>7, <1>8, <1>9, <1>10, <1>11, <1>12, <1>13 DEF DashNext, dashVars, serverVars,
     shownVars, Redetect, ToggleAutostart, AskDelete, AskCreate, AskAdopt, calling, pageStays, Detected,
     Refuses, ToggleAnswered, CreateAnswered, stays, CallLost, quiet

\* The same requests of the switch are under way, and nothing it depends on has changed.
SameFor(i) ==
    /\ i \in switches' <=> i \in switches
    /\ i \in cards'.auto <=> i \in cards.auto
    /\ i \in autostart' <=> i \in autostart
    /\ i \in crossed => i \in crossed'
    /\ \A x : x \in calls' /\ toggling(x, i) <=> x \in calls /\ toggling(x, i)

LEMMA SwitchKept == ASSUME NEW i, SwitchHolds(i), SameFor(i) PROVE SwitchHolds(i)'
  BY DEF SwitchHolds, Shows, SameFor, toggling

LEMMA SwitchCrossed ==
    ASSUME NEW i, SwitchHolds(i), i \in crossed', \A x \in calls' : toggling(x, i) => x \in calls
    PROVE  SwitchHolds(i)'
  BY DEF SwitchHolds, toggling

LEMMA SwitchDrawn ==
    ASSUME NEW rest, rest \subseteq CallRecords, \A x \in rest : Sound(x), NEW c, drawGrid(c, rest), cards' = c
    PROVE  SwitchesHold'
<1>1. \A x \in calls' : \A i : ~toggling(x, i)
  BY DrawnCalls DEF toggling
<1> QED
  BY <1>1 DEF drawGrid, SwitchesHold, SwitchHolds, Shows, toggling

\* The page is given a state of the instances, and no request of a switch has been answered.
LEMMA SwitchGiven ==
    ASSUME SwitchesHold, NEW rest, rest \subseteq CallRecords, \A x \in rest : Sound(x), NEW c, NEW key,
           setInstances(c, key, rest), UNCHANGED <<dashShown, autostart>>, 
           \A x, i : x \in rest /\ toggling(x, i) <=> x \in calls /\ toggling(x, i)
    PROVE  SwitchesHold'
<1>1. CASE dashShown /\ c # cards
  BY <1>1, SwitchDrawn DEF setInstances
<1>2. CASE dashShown /\ c = cards
  <2>1. \A i : SameFor(i)
    BY <1>2 DEF setInstances, SameFor
  <2> QED
    BY <1>2, <2>1, SwitchKept DEF SwitchesHold
<1>3. CASE ~dashShown
  BY <1>3 DEF SwitchesHold
<1> QED
  BY <1>1, <1>2, <1>3

LEMMA SwitchStep == DashTypes /\ SwitchesHold /\ [DashNext]_dashVars => SwitchesHold'
<1> SUFFICES ASSUME DashTypes, SwitchesHold, [DashNext]_dashVars PROVE SwitchesHold'
  OBVIOUS
<1>a. /\ calls \subseteq CallRecords /\ \A x \in calls : Sound(x)
      /\ cards.on \subseteq Names /\ orphans \subseteq Names
  BY DEF DashTypes, CallsTyped, CardsTyped, States, ListsTyped
\* Steps that leave each switch and its requests alone.
<1>b. ASSUME UNCHANGED <<switches, cards, autostart, crossed, dashShown>>,
             \A z, i : toggling(z, i) => (z \in calls' <=> z \in calls)
      PROVE  SwitchesHold'
  <2>1. \A i : SameFor(i)
    BY <1>b DEF SameFor
  <2> QED
    BY <1>b, <2>1, SwitchKept DEF SwitchesHold
<1>c. \A i : ~toggling(detection, i)
  BY Detection DEF toggling
<1>1. CASE UNCHANGED <<switches, cards, autostart, crossed, dashShown, calls>>
  BY <1>1 DEF SwitchesHold, SwitchHolds, Shows, toggling
<1>2. CASE DashMount \/ DrawnAgain
  BY <1>2, <1>a, SwitchDrawn DEF DashMount, DrawnAgain
<1>3. CASE DashUnmount
  BY <1>3 DEF DashUnmount, SwitchesHold
<1>4. CASE Redetect
  BY <1>4, <1>b, <1>c DEF Redetect, calling, serverVars
<1>5. CASE AskDelete \/ AskCreate \/ AskAdopt
  <2>1. PICK i \in Names, op \in {"delete", "delete_config", "create", "adopt"} : calling(call(op, i)) /\ UNCHANGED switches
    BY <1>a, <1>5 DEF AskDelete, AskCreate, AskAdopt
  <2>2. \A j : ~toggling(call(op, i), j)
    BY NewCall DEF toggling, CallOps
  <2>3. calls' = calls \cup {call(op, i)} /\ UNCHANGED <<switches, cards, autostart, crossed, dashShown>>
    BY <2>1 DEF calling, serverVars
  <2> QED
    BY <1>b, <2>2, <2>3
<1>6. CASE ToggleAutostart
  <2>1. PICK i \in cards.on :
          /\ \A x \in calls : x.mine /\ x.of = i => x.op \notin {"enable", "disable"}
          /\ switches' = IF i \in switches THEN switches \ {i} ELSE switches \cup {i}
          /\ calling(call(IF i \in switches THEN "disable" ELSE "enable", i))
    BY <1>6 DEF ToggleAutostart
  <2> DEFINE op == IF i \in switches THEN "disable" ELSE "enable"
             new == call(op, i)
  <2>2. new.op = op /\ new.of = i /\ new.step = "sent" /\ new.mine
    BY <1>a, NewCall DEF CallOps
  <2>3. calls' = calls \cup {new} /\ UNCHANGED <<dashShown, cards, autostart, crossed>> /\ dashShown
    BY <2>1 DEF calling, serverVars
  <2> HIDE DEF new
  <2>4. \A x \in calls : ~toggling(x, i)
    BY <2>1 DEF toggling
  <2>5. SwitchHolds(i)'
    <3>1. \A x \in calls' : toggling(x, i) => x = new
      BY <2>3, <2>4
    <3>2. toggling(new, i)
      BY <2>2 DEF toggling
    <3>3. i \notin crossed => Shows(i, i \in switches)
      BY <1>a, <2>3, <2>4 DEF SwitchesHold, SwitchHolds
    <3>4. i \in switches' <=> i \notin switches
      BY <2>1
    <3> QED
      BY <2>2, <2>3, <3>1, <3>2, <3>3, <3>4 DEF SwitchHolds, Shows, toggling
  <2>6. ASSUME NEW j \in Names, j # i PROVE SwitchHolds(j)'
    <3>1. ~toggling(new, j)
      BY <2>2, <2>6 DEF toggling
    <3>2. SameFor(j)
      BY <2>1, <2>3, <2>6, <3>1 DEF SameFor
    <3> QED
      BY <2>3, <3>2, SwitchKept DEF SwitchesHold
  <2> QED
    BY <2>5, <2>6 DEF SwitchesHold
<1>7. CASE RequestServed
  <2>1. PICK x \in calls :
          /\ x.step = "sent" /\ serves(x)
          /\ \/ /\ x.op \in {"enable", "disable"}
                /\ autostart' = IF x.op = "enable" THEN autostart \cup {x.of} ELSE autostart \ {x.of}
                /\ crossed' = IF x.mine THEN crossed ELSE crossed \cup {x.of}
                /\ serve(x, "done") /\ UNCHANGED config
             \/ /\ x.op \in {"create", "adopt"}
                /\ config' = [config EXCEPT ![x.of] = "service"] /\ serve(x, "done") /\ UNCHANGED <<autostart, crossed>>
             \/ /\ x.op \in {"delete", "delete_config"}
                /\ config' = [config EXCEPT ![x.of] = "leaving"] /\ autostart' = autostart \ {x.of}
                /\ serve(x, "deleting") /\ crossed' = crossed \cup {x.of}
    BY <1>7, Zenon DEF RequestServed
  <2>2. UNCHANGED <<dashShown, cards, switches>>
    BY <1>7 DEF RequestServed, pageStays
  <2> DEFINE step == IF x.op \in {"delete", "delete_config"} THEN "deleting" ELSE "done"
             y == [x EXCEPT !.step = step]
  <2>3. y.step = step /\ y.op = x.op /\ y.of = x.of /\ (y.mine <=> x.mine)
    BY <1>a, CallFields DEF CallSteps
  <2>4. calls' = (calls \ {x}) \cup {y}
    BY <2>1 DEF serve
  <2> HIDE DEF y
  <2>5. \A i : toggling(y, i) <=> toggling(x, i)
    BY <2>1, <2>3 DEF toggling
  \* The switch the request is about.
  <2>6. ASSUME dashShown, NEW i \in Names, i = x.of PROVE SwitchHolds(i)'
    <3>1. SwitchHolds(i)
      BY <2>6 DEF SwitchesHold
    <3>2. CASE toggling(x, i)
      <4>1. \A z \in calls' : toggling(z, i) => z = y
        BY <2>4, <3>1, <3>2 DEF SwitchHolds
      <4>2. i \notin crossed => (x.op = "enable" <=> i \in switches)
        BY <3>1, <3>2 DEF SwitchHolds
      <4>3. i \in autostart' <=> x.op = "enable"
        BY <2>1, <2>6, <3>2 DEF toggling
      <4>4. crossed' = crossed /\ y.step = "done"
        BY <2>1, <2>3, <3>2 DEF toggling
      <4> QED
        BY <2>2, <2>3, <4>1, <4>2, <4>3, <4>4, Zenon DEF SwitchHolds, Shows, toggling
    <3>3. CASE ~toggling(x, i) /\ x.op \notin {"create", "adopt"}
      <4>1. i \in crossed'
        BY <2>1, <2>6, <3>3 DEF toggling
      <4>2. \A z \in calls' : toggling(z, i) => z \in calls
        BY <2>4, <2>5, <3>3
      <4> QED
        BY <3>1, <4>1, <4>2, SwitchCrossed
    <3>4. CASE ~toggling(x, i) /\ x.op \in {"create", "adopt"}
      <4>1. SameFor(i)
        BY <2>1, <2>2, <2>4, <2>5, <3>4 DEF SameFor
      <4> QED
        BY <3>1, <4>1, SwitchKept
    <3> QED
      BY <3>2, <3>3, <3>4
  <2>7. ASSUME dashShown, NEW i \in Names, i # x.of PROVE SwitchHolds(i)'
    <3>1. ~toggling(x, i)
      BY <2>7 DEF toggling
    <3>2. (i \in autostart' <=> i \in autostart) /\ (i \in crossed => i \in crossed')
      BY <2>1, <2>7
    <3>3. SameFor(i)
      BY <2>2, <2>4, <2>5, <3>1, <3>2 DEF SameFor
    <3> QED
      BY <2>7, <3>3, SwitchKept DEF SwitchesHold
  <2> QED
    BY <2>2, <2>6, <2>7 DEF SwitchesHold
<1>8. CASE DeletionEnds
  <2>1. PICK x \in calls : x.step = "deleting" /\ serve(x, "done")
    BY <1>8 DEF DeletionEnds
  <2>2. UNCHANGED <<switches, cards, autostart, crossed, dashShown>>
    BY <1>8 DEF DeletionEnds, pageStays
  <2> DEFINE y == [x EXCEPT !.step = "done"]
  <2>3. Deletes(x) /\ y.op = x.op
    BY <1>a, <2>1, CallFields DEF Sound, CallSteps
  <2>4. calls' = (calls \ {x}) \cup {y}
    BY <2>1 DEF serve
  <2> HIDE DEF y
  <2>5. (\A i : ~toggling(x, i)) /\ \A z \in {y} : \A i : ~toggling(z, i)
    BY <2>3 DEF toggling, Deletes
  <2> QED
    BY <1>b, <2>2, <2>4, <2>5
<1>9. CASE Detected
  <2>1. PICK x \in calls :
          /\ (x.op = "detect" /\ x.step = "sent") \/ x.step = "refresh"
          /\ calls' = (calls \ {x}) \cup {[x EXCEPT !.step = "read", !.state = stateNow]}
    BY <1>9 DEF Detected
  <2>2. UNCHANGED <<switches, cards, autostart, crossed, dashShown>>
    BY <1>9 DEF Detected, pageStays
  <2>3. stateNow \in States
    BY DEF stateNow, States, DashTypes, ServerTyped, services
  <2> DEFINE y == [x EXCEPT !.step = "read", !.state = stateNow]
  <2>4. y.step = "read" /\ calls' = (calls \ {x}) \cup {y}
    BY <1>a, <2>1, <2>3, CallRead
  <2> HIDE DEF y
  <2>5. (\A i : ~toggling(x, i)) /\ \A z \in {y} : \A i : ~toggling(z, i)
    BY <2>1, <2>4 DEF toggling
  <2> QED
    BY <1>b, <2>2, <2>4, <2>5
<1>10. CASE Refuses
  <2>1. PICK x \in calls : x.step = "sent" /\ serve(x, "refused")
    BY <1>10 DEF Refuses
  <2>2. UNCHANGED <<switches, cards, autostart, crossed, dashShown>>
    BY <1>10 DEF Refuses, serverVars
  <2> DEFINE y == [x EXCEPT !.step = "refused"]
  <2>3. y.step = "refused" /\ y.op = x.op /\ y.of = x.of /\ (y.mine <=> x.mine)
    BY <1>a, CallFields DEF CallSteps
  <2>4. calls' = (calls \ {x}) \cup {y}
    BY <2>1 DEF serve
  <2> HIDE DEF y
  <2>5. \A i : toggling(y, i) <=> toggling(x, i)
    BY <2>1, <2>3 DEF toggling
  <2>6. ASSUME dashShown, NEW i \in Names PROVE SwitchHolds(i)'
    <3>1. SwitchHolds(i)
      BY <2>6 DEF SwitchesHold
    <3>2. CASE toggling(x, i)
      <4>1. \A z \in calls' : toggling(z, i) => z = y
        BY <2>4, <3>1, <3>2 DEF SwitchHolds
      <4>2. i \notin crossed => (x.op = "enable" <=> i \in switches) /\ Shows(i, i \notin switches)
        BY <2>1, <3>1, <3>2 DEF SwitchHolds
      <4>3. toggling(y, i) /\ y \in calls'
        BY <2>4, <2>5, <3>2
      <4> QED
        BY <2>2, <2>3, <4>1, <4>2, <4>3, Zenon DEF SwitchHolds, Shows, toggling
    <3>3. CASE ~toggling(x, i)
      <4>1. SameFor(i)
        BY <2>2, <2>4, <2>5, <3>3 DEF SameFor
      <4> QED
        BY <3>1, <4>1, SwitchKept
    <3> QED
      BY <3>2, <3>3
  <2> QED
    BY <2>2, <2>6 DEF SwitchesHold
<1>11. CASE OthersAct
  <2>1. PICK j \in Names :
          \/ UNCHANGED <<autostart, crossed>>
          \/ /\ crossed' = crossed \cup {j}
             /\ autostart' \in {autostart \ {j}, autostart \cup {j}}
    BY <1>11 DEF OthersAct
  <2>2. UNCHANGED <<dashShown, cards, switches, calls>>
    BY <1>11 DEF OthersAct
  <2>3. ASSUME dashShown, NEW i \in Names PROVE SwitchHolds(i)'
    <3>1. SameFor(i) \/ i \in crossed'
      BY <2>1, <2>2 DEF SameFor
    <3> QED
      BY <2>2, <2>3, <3>1, SwitchKept, SwitchCrossed DEF SwitchesHold
  <2> QED
    BY <2>2, <2>3 DEF SwitchesHold
<1>12. CASE StatePushed
  BY <1>12, <1>a, SwitchGiven DEF StatePushed, serverVars
<1>13. CASE StateAnswered
  <2>1. PICK x \in calls : x.step = "read" /\ setInstances(x.state, orphanKey, calls \ {x})
    BY <1>13 DEF StateAnswered
  <2>2. \A i : ~toggling(x, i)
    BY <2>1 DEF toggling
  <2>3. UNCHANGED <<dashShown, autostart>>
    BY <1>13 DEF StateAnswered, stays, serverVars
  <2> QED
    BY <1>a, <2>1, <2>2, <2>3, SwitchGiven
<1>14. CASE DeleteAnswered
  <2>1. PICK x \in calls :
          /\ x.op \in {"delete", "delete_config"}
          /\ IF x.step = "refused" THEN quiet(x, orphanKey)
             ELSE setInstances([on |-> cards.on \ {x.of}, auto |-> cards.auto \ {x.of}], orphanKey,
                               (calls \ {x}) \cup {detection})
    BY <1>14 DEF DeleteAnswered
  <2>2. \A i : ~toggling(x, i)
    BY <2>1 DEF toggling
  <2>3. UNCHANGED <<dashShown, autostart>>
    BY <1>14 DEF DeleteAnswered, stays, serverVars
  <2>4. CASE x.step = "refused"
    BY <1>b, <1>c, <2>1, <2>2, <2>3, <2>4 DEF quiet
  <2>5. CASE x.step # "refused"
    <3> DEFINE rest == (calls \ {x}) \cup {detection}
    <3>1. rest \subseteq CallRecords /\ \A z \in rest : Sound(z)
      BY <1>a, Detection
    <3>2. \A z, i : z \in rest /\ toggling(z, i) <=> z \in calls /\ toggling(z, i)
      BY <1>c, <2>2
    <3>3. setInstances([on |-> cards.on \ {x.of}, auto |-> cards.auto \ {x.of}], orphanKey, rest)
      BY <2>1, <2>5
    <3> HIDE DEF rest
    <3> QED
      BY <2>3, <3>1, <3>2, <3>3, SwitchGiven
  <2> QED
    BY <2>4, <2>5
\* A switch is answered, or its request is lost: it keeps its place, or goes back.
<1>d. ASSUME NEW x \in calls, x.op \in {"enable", "disable"}, x.step \in CallSteps,
             \A z, i : toggling(z, i) => (z \in calls' <=> z \in calls \ {x}),
             UNCHANGED <<dashShown, cards, autostart>>,
             \/ x.step = "done" /\ switches' = switches /\ crossed' = crossed
             \/ x.step \in {"sent", "refused"} /\ goesBack(x) /\ crossed' = crossed
             \/ goesBack(x) /\ crossed' = crossed \cup {x.of}
      PROVE  SwitchesHold'
  <2>1. ASSUME dashShown, NEW i \in Names PROVE SwitchHolds(i)'
    <3>1. SwitchHolds(i)
      BY <2>1 DEF SwitchesHold
    <3>2. CASE toggling(x, i)
      <4>1. \A z \in calls' : ~toggling(z, i)
        BY <1>d, <3>1, <3>2 DEF SwitchHolds
      <4>2. x.of = i /\ x.mine
        BY <3>2 DEF toggling
      <4>3. CASE i \in crossed'
        BY <4>1, <4>3 DEF SwitchHolds, toggling
      <4>4. CASE i \notin crossed' /\ x.step = "done" /\ switches' = switches
        <5>1. i \in switches' <=> i \in autostart'
          BY <1>d, <3>1, <3>2, <4>4 DEF SwitchHolds
        <5> QED
          BY <4>1, <5>1 DEF SwitchHolds, Shows, toggling
      <4>5. CASE i \notin crossed' /\ x.step \in {"sent", "refused"} /\ goesBack(x) /\ crossed' = crossed
        <5>1. (x.op = "enable" <=> i \in switches) /\ Shows(i, i \notin switches)
          BY <3>1, <3>2, <4>5 DEF SwitchHolds
        <5>2. i \in switches' <=> i \notin switches
          BY <1>d, <4>2, <4>5, <5>1 DEF goesBack
        <5>3. (i \in switches' <=> i \in cards'.auto) \/ (i \in switches' <=> i \in autostart')
          BY <1>d, <5>1, <5>2 DEF Shows
        <5> QED
          BY <4>1, <5>3 DEF SwitchHolds, Shows, toggling
      <4> QED
        BY <1>d, <4>2, <4>3, <4>4, <4>5
    <3>3. CASE ~toggling(x, i) /\ i \in crossed'
      <4>1. \A z \in calls' : toggling(z, i) => z \in calls
        BY <1>d
      <4> QED
        BY <3>1, <3>3, <4>1, SwitchCrossed
    <3>4. CASE ~toggling(x, i) /\ i \notin crossed'
      <4>1. \A z : z \in calls' /\ toggling(z, i) <=> z \in calls /\ toggling(z, i)
        BY <1>d, <3>4
      <4>2. crossed \subseteq crossed'
        BY <1>d
      <4>3. i \in switches' <=> i \in switches
        BY <1>d, <3>4 DEF goesBack, toggling
      <4> QED
        BY <1>d, <3>1, <4>1, <4>2, <4>3, SwitchKept DEF SameFor
    <3> QED
      BY <3>2, <3>3, <3>4
  <2> QED
    BY <1>d, <2>1 DEF SwitchesHold
<1>15. CASE ToggleAnswered
  <2>1. PICK x \in calls, after \in {{}, {"refresh"}} :
          /\ x.op \in {"enable", "disable"} /\ x.step \in {"done", "refused"}
          /\ calls' = (calls \ {x}) \cup {[x EXCEPT !.step = "refresh"] : step \in after}
          /\ IF x.step = "done" THEN UNCHANGED switches ELSE goesBack(x)
    BY <1>15 DEF ToggleAnswered
  <2>2. UNCHANGED <<dashShown, cards, autostart, crossed>>
    BY <1>15 DEF ToggleAnswered, stays, serverVars
  <2> DEFINE y == [x EXCEPT !.step = "refresh"]
  <2>3. y.step = "refresh"
    BY <1>a, CallFields DEF CallSteps
  <2>4. \A z \in calls' : z \in calls \ {x} \/ z = y
    BY <2>1
  <2>5. calls \ {x} \subseteq calls'
    BY <2>1
  <2> HIDE DEF y
  <2>6. \A z, i : toggling(z, i) => (z \in calls' <=> z \in calls \ {x})
    BY <2>3, <2>4, <2>5 DEF toggling
  <2> QED
    BY <1>d, <2>1, <2>2, <2>6 DEF CallSteps
<1>16. CASE CreateAnswered
  <2>1. PICK x \in calls : /\ x.op \in {"create", "adopt"}
                           /\ calls' = calls \ {x} \/ calls' = (calls \ {x}) \cup {detection}
                           /\ UNCHANGED <<cards, switches, crossed>>
    BY <1>16 DEF CreateAnswered, quiet
  <2>2. UNCHANGED <<dashShown, autostart>>
    BY <1>16 DEF CreateAnswered, stays, serverVars
  <2>3. \A i : ~toggling(x, i)
    BY <2>1 DEF toggling
  <2>4. CASE calls' = calls \ {x}
    <3>1. calls' = (calls \ {x}) \cup {}
      BY <2>4
    <3> QED
      BY <1>b, <2>1, <2>2, <2>3, <3>1
  <2>5. CASE calls' = (calls \ {x}) \cup {detection}
    BY <1>b, <1>c, <2>1, <2>2, <2>3, <2>5
  <2> QED
    BY <2>1, <2>4, <2>5
<1>17. CASE CallLost
  <2>1. PICK x \in calls :
          /\ x.step \in {"sent", "done", "refresh", "read"}
          /\ IF x.op \in {"delete", "delete_config"} THEN quiet(x, orphanKey)
             ELSE /\ calls' = calls \ {x}
                  /\ IF x.op \notin {"enable", "disable"} THEN UNCHANGED <<switches, crossed>>
                     ELSE goesBack(x) /\ crossed' = IF x.step = "sent" THEN crossed ELSE crossed \cup {x.of}
                  /\ UNCHANGED <<cards, orphanKey, orphanLoads>>
    BY <1>17 DEF CallLost
  <2>2. UNCHANGED <<dashShown, autostart>>
    BY <1>17 DEF CallLost, stays, serverVars
  <2>3. CASE x.op \in {"delete", "delete_config"}
    <3>1. \A i : ~toggling(x, i)
      BY <2>3 DEF toggling
    <3> QED
      BY <1>b, <1>c, <2>1, <2>2, <2>3, <3>1 DEF quiet
  <2>4. CASE x.op \notin {"delete", "delete_config", "enable", "disable"}
    <3>1. \A i : ~toggling(x, i)
      BY <2>4 DEF toggling
    <3>2. calls' = (calls \ {x}) \cup {} /\ UNCHANGED <<switches, cards, crossed>>
      BY <2>1, <2>4
    <3> QED
      BY <1>b, <2>2, <3>1, <3>2
  <2>5. CASE x.op \in {"enable", "disable"}
    <3>1. calls' = (calls \ {x}) \cup {} /\ cards' = cards /\ goesBack(x)
      BY <2>1, <2>5
    <3>2. crossed' = IF x.step = "sent" THEN crossed ELSE crossed \cup {x.of}
      BY <2>1, <2>5
    <3> QED
      BY <1>d, <2>1, <2>2, <2>5, <3>1, <3>2 DEF CallSteps
  <2> QED
    BY <2>3, <2>4, <2>5
<1> QED
  BY <1>1, <1>2, <1>3, <1>4, <1>5, <1>6, <1>7, <1>8, <1>9, <1>10, <1>11, <1>12, <1>13, <1>14, <1>15, <1>16, <1>17
  DEF DashNext, dashVars, serverVars, shownVars, OrphansRead, OrphansArrive, OrphansFail

LEMMA DashFirst == DashInit => DashInv
<1> SUFFICES ASSUME DashInit PROVE DashInv
  OBVIOUS
<1>a. config \in [Names -> {"none", "orphan", "dismissed", "service", "leaving"}] /\ autostart = {}
  <2>1. config \in [Names -> {"none", "orphan", "service"}]
    BY DEF DashInit
  <2> QED
    BY <2>1 DEF DashInit
<1>b. stateNow \in States /\ stateNow.auto \subseteq stateNow.on
  BY <1>a DEF stateNow, States, services
<1>c. /\ cards = stateNow /\ dashShown = FALSE /\ switches = {} /\ orphans = {} /\ orphanLoads = {} /\ calls = {}
      /\ overlooked = FALSE /\ dashActs = 0 /\ dashOthers = 0
  BY DEF DashInit
<1>d. ServerTyped /\ CardsTyped
  BY <1>a, <1>b, <1>c DEF ServerTyped, CardsTyped
<1>e. CallsTyped /\ ListsTyped
  BY <1>c DEF CallsTyped, ListsTyped
<1>f. CountsTyped
  BY <1>c, DashboardAssumption DEF CountsTyped
<1>1. DashTypes
  BY <1>c, <1>d, <1>e, <1>f DEF DashTypes
<1> QED
  BY <1>1 DEF DashInit, DashInv, SwitchesHold, OrphansHold

LEMMA DashStep == DashInv /\ [DashNext]_dashVars => DashInv'
  BY ServerTypedStep, CallsTypedStep, OtherTypesStep, SwitchStep, OrphanStep DEF DashInv, DashTypes

(* With nothing under way and the instances known as they are, the page    *)
(* says what is so: each switch what the server has, the list those        *)
(* configurations no service uses, for any instances, any number of        *)
(* requests refused, lost or answered in any order, and of acts of others  *)
(* (drawGrid, loadOrphans, the answers of the switches).                   *)
THEOREM DashboardAgrees == DashSpec => []DashboardSettles
<1>1. DashInv => DashboardSettles
  <2> SUFFICES ASSUME DashInv, dashShown, calls = {}, orphanLoads = {}, cards = stateNow PROVE DashboardSettles
    BY DEF DashboardSettles
  <2>1. cards.on = services /\ cards.auto = autostart /\ services \subseteq Names
    BY DEF stateNow, services
  <2>2. \A i \in cards.on \ crossed : i \in switches <=> i \in autostart
    BY <2>1 DEF DashInv, SwitchesHold, SwitchHolds, Shows
  <2>3. overlooked \/ orphans = orphanConfigs
    BY <2>1 DEF DashInv, OrphansHold, ListHolds, DashTypes, ListsTyped
  <2> QED
    BY <2>2, <2>3 DEF DashboardSettles
<1> QED
  BY <1>1, DashFirst, DashStep, PTL DEF DashSpec

-----------------------------------------------------------------------------
(* The tunnels page.                                                       *)

Single == {p \in Entry : p.type # "both"}
Readable(tunnels) == tunnels \subseteq Single /\ frpcAccepts(tunnels)

\* Nothing that `before` has is missing in `after`, but what the user took away.
Kept(before, after, gone) == allNames(before) \subseteq allNames(after) \cup gone

ownNames(x) == IF x.ranged THEN {Append(x.name, port) : port \in RangePorts} ELSE {x.name}

LEMMA AppendOnce ==
    ASSUME NEW s \in Seq(NameParts), NEW t \in Seq(NameParts), NEW a \in NameParts, NEW b \in NameParts
    PROVE  /\ Append(s, a) \in Seq(NameParts)
           /\ Append(s, a) = Append(t, b) => s = t /\ a = b
  BY AppendProperties, AppendInjective

LEMMA EntryFields ==
    ASSUME NEW p \in Entry
    PROVE  /\ p.name \in Seq(NameParts) /\ p.type \in {"tcp", "udp", "both"} /\ p.ranged \in BOOLEAN
           /\ \A q \in Entry : p.name = q.name /\ p.type = q.type /\ p.ranged = q.ranged => p = q
  BY DEF Entry

LEMMA SplitFacts ==
    ASSUME NEW p \in Entry
    PROVE  /\ splitEntry(p) \subseteq Single
           /\ p \in Single => splitEntry(p) = {p}
           /\ p.type = "both" => \A x \in splitEntry(p) :
                 /\ x.ranged = p.ranged 
                 /\ \/ x.name = Append(p.name, "tcp") /\ x.type = "tcp"
                    \/ x.name = Append(p.name, "udp") /\ x.type = "udp"
<1>1. CASE p.type = "both"
  <2> DEFINE t == [p EXCEPT !.name = Append(@, "tcp"), !.type = "tcp"]
             u == [p EXCEPT !.name = Append(@, "udp"), !.type = "udp"]
  <2>1. splitEntry(p) = {t, u}
    BY <1>1 DEF splitEntry
  <2>2. Append(p.name, "tcp") \in Seq(NameParts) /\ Append(p.name, "udp") \in Seq(NameParts)
    BY EntryFields, AppendProperties, TunnelsPageAssumption
  <2>3. /\ t \in Entry /\ t.name = Append(p.name, "tcp") /\ t.type = "tcp" /\ t.ranged = p.ranged
        /\ u \in Entry /\ u.name = Append(p.name, "udp") /\ u.type = "udp" /\ u.ranged = p.ranged
    BY <2>2 DEF Entry
  <2> HIDE DEF t, u
  <2> QED
    BY <1>1, <2>1, <2>3 DEF Single
<1>2. CASE p.type # "both"
  BY <1>2 DEF splitEntry, Single
<1> QED
  BY <1>1, <1>2

\* frpc sees of an entry what it sees of its tunnels.
LEMMA NamesOfSplit ==
    ASSUME NEW p \in Entry
    PROVE  /\ \A x \in Single : frpcNames(x) = ownNames(x)
           /\ allNames(splitEntry(p)) = frpcNames(p)
           /\ \A x \in splitEntry(p) : frpcNames(x) \subseteq frpcNames(p)
<1>1. \A q \in Entry : frpcNames(q) = UNION {ownNames(x) : x \in splitEntry(q)}
  BY Zenon DEF frpcNames, ownNames
<1>2. ASSUME NEW x \in Single PROVE frpcNames(x) = ownNames(x)
  <2>1. x \in Entry /\ splitEntry(x) = {x}
    BY SplitFacts DEF Single
  <2> QED
    BY <1>1, <2>1
<1>3. \A x \in splitEntry(p) : frpcNames(x) = ownNames(x)
  BY <1>2, SplitFacts
<1>4. allNames(splitEntry(p)) = UNION {ownNames(x) : x \in splitEntry(p)}
  BY <1>3 DEF allNames
<1> QED
  BY <1>1, <1>2, <1>3, <1>4

\* Tunnels of two entries, or of one entry, that are not the same share no name.
LEMMA PairApart ==
    ASSUME NEW p \in Entry, NEW x \in splitEntry(p), NEW y \in splitEntry(p), x # y
    PROVE  frpcNames(x) \cap frpcNames(y) = {}
<1>1. p.type = "both"
  BY SplitFacts DEF Single
<1>2. /\ x \in Single /\ y \in Single /\ x \in Entry /\ y \in Entry
      /\ frpcNames(x) = ownNames(x) /\ frpcNames(y) = ownNames(y)
  BY SplitFacts, NamesOfSplit DEF Single
<1>3. x.ranged = y.ranged /\ x.name # y.name /\ x.name \in Seq(NameParts) /\ y.name \in Seq(NameParts)
  <2>1. p.name \in Seq(NameParts)
    BY EntryFields
  <2>2. Append(p.name, "tcp") # Append(p.name, "udp")
    BY <2>1, AppendOnce, TunnelsPageAssumption
  <2> QED
    BY <1>1, <1>2, <2>2, SplitFacts, EntryFields
<1>4. \A a, b \in RangePorts : Append(x.name, a) # Append(y.name, b)
  BY <1>3, AppendOnce, TunnelsPageAssumption
<1> QED
  BY <1>2, <1>3, <1>4 DEF ownNames

LEMMA SplitReadable ==
    ASSUME NEW tunnels \in SUBSET Entry, frpcAccepts(tunnels)
    PROVE  Readable(splitAll(tunnels)) /\ allNames(splitAll(tunnels)) = allNames(tunnels)
<1>1. splitAll(tunnels) \subseteq Single
  BY SplitFacts DEF splitAll
<1>2. ASSUME NEW x \in splitAll(tunnels), NEW y \in splitAll(tunnels), x # y
      PROVE  frpcNames(x) \cap frpcNames(y) = {}
  <2>1. PICK p \in tunnels, q \in tunnels : x \in splitEntry(p) /\ y \in splitEntry(q)
    BY DEF splitAll
  <2>2. CASE p = q
    BY <1>2, <2>1, <2>2, PairApart
  <2>3. CASE p # q
    BY <2>1, <2>3, NamesOfSplit DEF frpcAccepts
  <2> QED
    BY <2>2, <2>3
<1>3. allNames(splitAll(tunnels)) = UNION {allNames(splitEntry(p)) : p \in tunnels}
  BY DEF allNames, splitAll
<1>4. allNames(splitAll(tunnels)) = allNames(tunnels)
  BY <1>3, NamesOfSplit DEF allNames
<1> QED
  BY <1>1, <1>2, <1>4 DEF Readable, frpcAccepts

LEMMA PairFacts ==
    ASSUME NEW tunnels \in SUBSET Single
    PROVE  /\ pairs(tunnels) \subseteq Entry
           /\ \A p \in pairs(tunnels) : p.type = "both" /\ splitEntry(p) \subseteq tunnels
<1>1. ASSUME NEW x \in tunnels, Len(x.name) > 1
      PROVE  LET p == [name |-> SubSeq(x.name, 1, Len(x.name) - 1), type |-> "both", ranged |-> x.ranged]
             IN  p \in Entry /\ p.type = "both"
  <2>1. x \in Entry /\ x.name \in Seq(NameParts) /\ x.ranged \in BOOLEAN
    BY EntryFields DEF Single
  <2>2. Len(x.name) \in Nat /\ \A i \in 1..(Len(x.name) - 1) : x.name[i] \in NameParts
    BY <2>1, LenProperties, ElementOfSeq
  <2>3. SubSeq(x.name, 1, Len(x.name) - 1) \in Seq(NameParts)
    BY <2>2, SubSeqProperties
  <2> QED
    BY <2>1, <2>3 DEF Entry
<1> QED
  BY <1>1 DEF pairs

\* What the page makes of the tunnels of a file is written back as it was, and has their names.
LEMMA PairedBack ==
    ASSUME NEW tunnels, Readable(tunnels)
    PROVE  /\ paired(tunnels) \subseteq Entry /\ frpcAccepts(paired(tunnels))
           /\ splitAll(paired(tunnels)) = tunnels
           /\ allNames(paired(tunnels)) = allNames(tunnels)
<1> DEFINE P == pairs(tunnels)
           R == tunnels \ splitAll(P)
<1>1. tunnels \subseteq Single /\ tunnels \subseteq Entry /\ frpcAccepts(tunnels)
  BY DEF Readable, Single
<1>2. paired(tunnels) = P \cup R
  BY DEF paired
<1>3. P \subseteq Entry /\ \A p \in P : p.type = "both" /\ splitEntry(p) \subseteq tunnels
  BY <1>1, PairFacts
<1>4. R \subseteq tunnels /\ \A x \in R : x \in Single /\ splitEntry(x) = {x} /\ \A p \in P : x \notin splitEntry(p)
  BY <1>1, SplitFacts DEF splitAll
<1> HIDE DEF P
<1>5. splitAll(P) \subseteq tunnels
  BY <1>3 DEF splitAll
<1>6. splitAll(paired(tunnels)) = splitAll(P) \cup splitAll(R)
  BY <1>2 DEF splitAll
<1> HIDE DEF R
<1>7. splitAll(R) = R
  BY <1>4 DEF splitAll
<1>8. splitAll(paired(tunnels)) = tunnels
  BY <1>5, <1>6, <1>7 DEF R
<1>9. paired(tunnels) \subseteq Entry
  BY <1>1, <1>2, <1>3, <1>4
<1>10. ASSUME NEW p \in P, NEW q \in P, p # q PROVE splitEntry(p) \cap splitEntry(q) = {}
  <2>1. p.name # q.name \/ p.ranged # q.ranged
    BY <1>3, <1>10, EntryFields
  <2>2. p.name \in Seq(NameParts) /\ q.name \in Seq(NameParts)
    BY <1>3, EntryFields
  <2>3. "tcp" \in NameParts /\ "udp" \in NameParts
    BY TunnelsPageAssumption
  <2>4. p.name # q.name => /\ Append(p.name, "tcp") # Append(q.name, "tcp")
                           /\ Append(p.name, "udp") # Append(q.name, "udp")
    BY <2>2, <2>3, AppendOnce
  <2> QED
    BY <1>3, <2>1, <2>4, SplitFacts
<1>11. ASSUME NEW p \in paired(tunnels), NEW q \in paired(tunnels), p # q
       PROVE  splitEntry(p) \cap splitEntry(q) = {}
  BY <1>2, <1>4, <1>10, <1>11
<1>12. ASSUME NEW p \in paired(tunnels), NEW q \in paired(tunnels), p # q
       PROVE  frpcNames(p) \cap frpcNames(q) = {}
  <2>1. splitEntry(p) \subseteq tunnels /\ splitEntry(q) \subseteq tunnels
    BY <1>8 DEF splitAll
  <2>2. \A x \in splitEntry(p), y \in splitEntry(q) : frpcNames(x) \cap frpcNames(y) = {}
    BY <1>1, <1>11, <1>12, <2>1 DEF frpcAccepts
  <2>3. frpcNames(p) = allNames(splitEntry(p)) /\ frpcNames(q) = allNames(splitEntry(q))
    BY <1>9, NamesOfSplit
  <2> QED
    BY <2>2, <2>3 DEF allNames
<1>13. frpcAccepts(paired(tunnels))
  BY <1>12 DEF frpcAccepts
<1> QED
  BY <1>8, <1>9, <1>13, SplitReadable

Posts(r) == [step : {"posting"}, to : TunnelInstances, content : SUBSET Single, removed : {r},
             current : BOOLEAN, refilled : BOOLEAN]

FilesReadable == tunnelFile \in [TunnelInstances -> SUBSET Single] /\ \A i \in TunnelInstances : Readable(tunnelFile[i])
LoadsReadable == \A l \in listLoads : \E t : Readable(t) /\ l \in [iid : TunnelInstances, answer : {Unanswered, <<t>>}]
ListSound == listOf \in TunnelInstances /\ list \subseteq Entry /\ frpcAccepts(list)
\* What a save writes has what the file had that it comes from; and the list goes on from there.
PostSound ==
    /\ writing \in [step : {"none", "reading", "written", "restarting"}] \/ \E r : writing \in Posts(r)
    /\ writing.step = "posting" =>
          /\ Readable(writing.content)
          /\ writing.current => Kept(tunnelFile[writing.to], writing.content, writing.removed)
          /\ ~writing.refilled => Kept(writing.content, list, removed)
BasisSound == basis \in BOOLEAN /\ (basis => Kept(tunnelFile[listOf], list, removed))
TunnelsHold == FilesReadable /\ LoadsReadable /\ ListSound /\ PostSound /\ BasisSound /\ vanished = {}

LEMMA TunnelsHoldFirst == TunnelsInit => TunnelsHold
<1> SUFFICES ASSUME TunnelsInit PROVE TunnelsHold
  OBVIOUS
<1>1. \A t \in FirstTunnels : Readable(t) /\ t \in SUBSET Single
  BY TunnelsPageAssumption DEF Readable, Single
<1>2. FilesReadable
  BY <1>1 DEF TunnelsInit, FilesReadable
<1>3. listOf \in TunnelInstances
  BY TunnelsPageAssumption DEF TunnelsInit
<1>4. ListSound
  BY <1>3 DEF TunnelsInit, ListSound, frpcAccepts
<1>5. PostSound
  BY DEF TunnelsInit, PostSound, NotSaving
<1> QED
  BY <1>2, <1>4, <1>5 DEF TunnelsInit, TunnelsHold, LoadsReadable, BasisSound

\* The user changes the list; the names that leave it are those taken away.
LEMMA TunnelsEdited ==
    ASSUME TunnelsHold, list' \subseteq Entry, frpcAccepts(list'), Kept(list, list', removed'), removed \subseteq removed',
           UNCHANGED <<tunnelFile, listOf, listLoads, writing, basis, vanished>>
    PROVE  TunnelsHold'
<1>1. \A before : Kept(before, list, removed) => Kept(before, list', removed')
  BY DEF Kept
<1> QED
  BY <1>1 DEF TunnelsHold, FilesReadable, LoadsReadable, ListSound, PostSound, BasisSound, Readable

\* The page asks for the tunnels of an instance.
LEMMA ListAsked ==
    ASSUME LoadsReadable, NEW i \in TunnelInstances, askList(i)
    PROVE  LoadsReadable'
<1>1. Readable({})
  BY DEF Readable, frpcAccepts
<1> QED
  BY <1>1 DEF LoadsReadable, askList

\* An answer fills the list, or an error empties it.
LEMMA ListRefilled ==
    ASSUME TunnelsHold, NEW rows, NEW current \in BOOLEAN, fillList(rows, current), rows \subseteq Entry, frpcAccepts(rows),
           current => Kept(tunnelFile[listOf], rows, {}), listLoads' \subseteq listLoads,
           UNCHANGED <<tunnelFile, listOf, vanished>>
    PROVE  TunnelsHold'
<1>1. FilesReadable' /\ LoadsReadable' /\ ListSound' /\ BasisSound' /\ vanished' = {}
  BY DEF TunnelsHold, fillList, FilesReadable, LoadsReadable, ListSound, BasisSound, Readable
<1>2. CASE writing.step = "posting"
  <2>1. PICK r : writing \in Posts(r)
    BY <1>2 DEF TunnelsHold, PostSound
  <2> DEFINE w == [writing EXCEPT !.refilled = TRUE]
  <2>2. /\ w \in Posts(r) /\ w.content = writing.content /\ w.to = writing.to /\ w.removed = writing.removed
        /\ (w.current <=> writing.current) /\ w.refilled
    BY <2>1 DEF Posts
  <2>3. writing' = w
    BY <1>2 DEF fillList
  <2> HIDE DEF w
  <2> QED
    BY <1>1, <1>2, <2>2, <2>3 DEF TunnelsHold, PostSound, Readable
<1>3. CASE writing.step # "posting"
  BY <1>1, <1>3 DEF TunnelsHold, PostSound, Posts, fillList
<1> QED
  BY <1>2, <1>3

\* An entry that meets no other is added to a list without two of one name.
LEMMA AddedAccepted ==
    ASSUME frpcAccepts(list), NEW replaced, NEW p, ~nameClash(p, list \ replaced)
    PROVE  /\ frpcAccepts((list \ replaced) \cup {p})
           /\ Kept(list, (list \ replaced) \cup {p}, removed \cup allNames(replaced))
<1>1. \A q \in list \ replaced : frpcNames(p) \cap frpcNames(q) = {}
  BY DEF nameClash, taken
<1>2. frpcAccepts((list \ replaced) \cup {p})
  BY <1>1 DEF frpcAccepts
<1> QED
  BY <1>2 DEF Kept, allNames

LEMMA TunnelsPageKept ==
    ASSUME TunnelsHold,
           TunnelsMount \/ TunnelsUnmount \/ SelectTunnels \/ DiscardList \/ ListAnswered \/ ListFilled
             \/ ListLoadFails \/ OpenEditor \/ CloseEditor
    PROVE  TunnelsHold'
<1> USE DEF TunnelsHold
<1>1. CASE TunnelsMount
  <2>1. PICK i \in TunnelInstances : listOf' = i /\ askList(i) /\ basis' = (basis /\ i = listOf)
    BY <1>1 DEF TunnelsMount
  <2>2. LoadsReadable'
    BY <2>1, ListAsked
  <2> QED
    BY <1>1, <2>1, <2>2 DEF TunnelsMount, FilesReadable, ListSound, PostSound, BasisSound, Readable
<1>2. CASE TunnelsUnmount
  BY <1>2 DEF TunnelsUnmount, FilesReadable, LoadsReadable, ListSound, PostSound, BasisSound, Readable
<1>3. CASE SelectTunnels
  <2>1. PICK i \in TunnelInstances \ {listOf} : listOf' = i /\ askList(i)
    BY <1>3 DEF SelectTunnels
  <2>2. LoadsReadable'
    BY <2>1, ListAsked
  <2> QED
    BY <1>3, <2>1, <2>2 DEF SelectTunnels, FilesReadable, ListSound, PostSound, BasisSound, Readable
<1>4. CASE DiscardList
  <2>1. LoadsReadable'
    BY <1>4, ListAsked DEF DiscardList, ListSound
  <2> QED
    BY <1>4, <2>1 DEF DiscardList, FilesReadable, ListSound, PostSound, BasisSound, Readable
<1>5. CASE ListAnswered
  <2>1. PICK l \in listLoads : listLoads' = (listLoads \ {l}) \cup {[l EXCEPT !.answer = <<tunnelFile[l.iid]>>]}
    BY <1>5 DEF ListAnswered
  <2>2. l.iid \in TunnelInstances /\ DOMAIN l = {"iid", "answer"} /\ Readable(tunnelFile[l.iid])
    BY DEF LoadsReadable, FilesReadable
  <2>3. [l EXCEPT !.answer = <<tunnelFile[l.iid]>>] \in [iid : TunnelInstances, answer : {Unanswered, <<tunnelFile[l.iid]>>}]
    BY <2>2 DEF LoadsReadable
  <2>4. LoadsReadable'
    BY <2>1, <2>2, <2>3 DEF LoadsReadable
  <2> QED
    BY <1>5, <2>4 DEF ListAnswered, FilesReadable, ListSound, PostSound, BasisSound, Readable
<1>6. CASE ListFilled
  <2>1. PICK l \in listLoads :
           /\ l.answer # Unanswered /\ listLoads' = listLoads \ {l}
           /\ fillList(paired(l.answer[1]), l.iid = listOf /\ l.answer[1] = tunnelFile[listOf])
    BY <1>6, Zenon DEF ListFilled
  <2>2. PICK t : Readable(t) /\ l.answer = <<t>>
    BY <2>1 DEF LoadsReadable
  <2> DEFINE current == l.iid = listOf /\ t = tunnelFile[listOf]
  <2>3. fillList(paired(t), current) /\ current \in BOOLEAN
    BY <2>1, <2>2
  <2>4. /\ paired(t) \subseteq Entry /\ frpcAccepts(paired(t))
        /\ current => Kept(tunnelFile[listOf], paired(t), {})
    BY <2>2, PairedBack DEF Kept
  <2> HIDE DEF current
  <2> QED
    BY <1>6, <2>1, <2>3, <2>4, ListRefilled DEF ListFilled
<1>7. CASE ListLoadFails
  <2>1. frpcAccepts({})
    BY DEF frpcAccepts
  <2> QED
    BY <1>7, <2>1, ListRefilled DEF ListLoadFails
<1>8. CASE OpenEditor
  BY <1>8 DEF OpenEditor, FilesReadable, LoadsReadable, ListSound, PostSound, BasisSound, Readable
<1>9. CASE CloseEditor
  BY <1>9 DEF CloseEditor, FilesReadable, LoadsReadable, ListSound, PostSound, BasisSound, Readable
<1> QED
  BY <1>1, <1>2, <1>3, <1>4, <1>5, <1>6, <1>7, <1>8, <1>9

LEMMA TunnelsEditsKept ==
    ASSUME TunnelsHold, SubmitEditor \/ RemoveTunnel
    PROVE  TunnelsHold'
<1>1. list \subseteq Entry /\ frpcAccepts(list)
  BY DEF TunnelsHold, ListSound
<1>2. CASE SubmitEditor
  <2>1. PICK p \in [name : TypedNames, type : {"tcp", "both"}, ranged : BOOLEAN] :
          LET replaced == IF dialog.gone THEN {} ELSE dialog.of
          IN  /\ p.type = "both" => \A old \in dialog.of : old.type = "both"
              /\ ~nameClash(p, list \ replaced)
              /\ list' = IF dialog.of = {} \/ ~dialog.gone THEN (list \ replaced) \cup {p} ELSE list
              /\ removed' = removed \cup allNames(replaced)
    BY <1>2, Zenon DEF SubmitEditor
  <2> DEFINE replaced == IF dialog.gone THEN {} ELSE dialog.of
             longer == (list \ replaced) \cup {p}
  <2>2. ~nameClash(p, list \ replaced) /\ list' \in {longer, list} /\ removed' = removed \cup allNames(replaced)
    BY <2>1
  <2>3. p \in Entry
    BY TunnelsPageAssumption DEF Entry
  <2> HIDE DEF replaced
  <2>4. longer \subseteq Entry /\ frpcAccepts(longer) /\ Kept(list, longer, removed')
    BY <1>1, <2>2, <2>3, AddedAccepted
  <2>5. Kept(list, list, removed')
    BY DEF Kept
  <2>6. list' \subseteq Entry /\ frpcAccepts(list') /\ Kept(list, list', removed') /\ removed \subseteq removed'
    BY <1>1, <2>2, <2>4, <2>5
  <2> QED
    BY <1>2, <2>6, TunnelsEdited DEF SubmitEditor
<1>3. CASE RemoveTunnel
  <2>1. PICK p \in list : list' = list \ {p} /\ removed' = removed \cup frpcNames(p)
    BY <1>3 DEF RemoveTunnel
  <2>2. frpcAccepts(list') /\ list' \subseteq Entry
    BY <1>1, <2>1 DEF frpcAccepts
  <2>3. Kept(list, list', removed')
    BY <2>1 DEF Kept, allNames
  <2> QED
    BY <1>3, <2>1, <2>2, <2>3, TunnelsEdited DEF RemoveTunnel
<1> QED
  BY <1>2, <1>3

LEMMA TunnelsSaveKept ==
    ASSUME TunnelsHold, SaveTunnels \/ SaveComposes \/ SaveConfirmed \/ SaveReloads \/ SaveRefused
    PROVE  TunnelsHold'
<1> USE DEF TunnelsHold
<1>1. CASE SaveTunnels
  BY <1>1 DEF SaveTunnels, FilesReadable, LoadsReadable, ListSound, PostSound, BasisSound, Readable
<1>2. CASE SaveComposes
  <2> DEFINE w == [step |-> "posting", to |-> listOf, content |-> splitAll(list), removed |-> removed,
                   current |-> basis, refilled |-> FALSE]
  <2>1. writing' = w
    BY <1>2 DEF SaveComposes
  <2>2. /\ Readable(splitAll(list)) /\ allNames(splitAll(list)) = allNames(list)
        /\ splitAll(list) \in SUBSET Single
    BY SplitReadable DEF ListSound, Readable
  <2>3. w \in Posts(removed)
    BY <2>2 DEF Posts, ListSound, BasisSound
  <2>4. /\ Readable(w.content) /\ Kept(w.content, list, removed)
        /\ w.current => Kept(tunnelFile[w.to], w.content, w.removed)
    BY <2>2 DEF Kept, BasisSound
  <2> HIDE DEF w
  <2>5. PostSound'
    BY <1>2, <2>1, <2>3, <2>4 DEF SaveComposes, PostSound, Readable
  <2> QED
    BY <1>2, <2>5 DEF SaveComposes, FilesReadable, LoadsReadable, ListSound, BasisSound, Readable
<1>3. CASE SaveConfirmed
  BY <1>3 DEF SaveConfirmed, FilesReadable, LoadsReadable, ListSound, PostSound, BasisSound, Readable
<1>4. CASE SaveReloads
  <2>1. LoadsReadable'
    BY <1>4, ListAsked DEF SaveReloads, ListSound, LoadsReadable
  <2> QED
    BY <1>4, <2>1 DEF SaveReloads, NotSaving, FilesReadable, ListSound, PostSound, BasisSound, Readable
<1>5. CASE SaveRefused
  BY <1>5 DEF SaveRefused, NotSaving, FilesReadable, LoadsReadable, ListSound, PostSound, BasisSound, Readable
<1> QED
  BY <1>1, <1>2, <1>3, <1>4, <1>5

LEMMA TunnelsFileKept ==
    ASSUME TunnelsHold, TunnelsWritten \/ OthersWriteTunnels
    PROVE  TunnelsHold'
<1> USE DEF TunnelsHold
<1>1. CASE TunnelsWritten
  <2>1. writing.step = "posting"
    BY <1>1 DEF TunnelsWritten
  <2>2. PICK r : writing \in Posts(r)
    BY <2>1 DEF PostSound
  <2>3. /\ writing.to \in TunnelInstances /\ writing.content \in SUBSET Single /\ writing.current \in BOOLEAN
        /\ Readable(writing.content)
    BY <2>1, <2>2 DEF Posts, PostSound
  <2>4. tunnelFile' = [tunnelFile EXCEPT ![writing.to] = writing.content]
    BY <1>1 DEF TunnelsWritten
  <2>5. FilesReadable' 
    BY <2>3, <2>4 DEF FilesReadable
  <2>6. vanished' = {}
    BY <1>1, <2>1 DEF TunnelsWritten, PostSound, Kept
  <2>7. basis' => Kept(tunnelFile'[listOf], list, removed)
    <3>1. CASE writing.to = listOf
      BY <1>1, <2>1, <2>3, <2>4, <3>1 DEF TunnelsWritten, PostSound, FilesReadable
    <3>2. CASE writing.to # listOf
      BY <1>1, <2>4, <3>2 DEF TunnelsWritten, BasisSound, FilesReadable, ListSound
    <3> QED
      BY <3>1, <3>2
  <2>8. basis' \in BOOLEAN
    BY <1>1 DEF TunnelsWritten, BasisSound
  <2>9. PostSound'
    BY <1>1 DEF TunnelsWritten, PostSound
  <2> QED
    BY <1>1, <2>5, <2>6, <2>7, <2>8, <2>9 DEF TunnelsWritten, LoadsReadable, ListSound, BasisSound, Readable
<1>2. CASE OthersWriteTunnels
  <2>1. PICK i \in TunnelInstances, tunnels \in FirstTunnels :
          /\ tunnels # tunnelFile[i] /\ tunnelFile' = [tunnelFile EXCEPT ![i] = tunnels]
          /\ basis' = (basis /\ i # listOf)
          /\ writing' = IF writing.step = "posting" /\ writing.to = i
                        THEN [writing EXCEPT !.current = FALSE] ELSE writing
    BY <1>2, Zenon DEF OthersWriteTunnels
  <2>2. Readable(tunnels) /\ tunnels \in SUBSET Single
    BY TunnelsPageAssumption DEF Readable, Single
  <2>3. FilesReadable'
    BY <2>1, <2>2 DEF FilesReadable
  <2>4. BasisSound'
    BY <1>2, <2>1 DEF OthersWriteTunnels, BasisSound, FilesReadable, ListSound
  <2>5. PostSound'
    <3>1. CASE writing.step = "posting" /\ writing.to = i
      <4>1. PICK r : writing \in Posts(r)
        BY <3>1 DEF PostSound
      <4> DEFINE w == [writing EXCEPT !.current = FALSE]
      <4>2. w \in Posts(r) /\ ~w.current /\ w.content = writing.content /\ (w.refilled <=> writing.refilled)
        BY <4>1 DEF Posts
      <4>3. writing' = w
        BY <2>1, <3>1
      <4> HIDE DEF w
      <4> QED
        BY <1>2, <3>1, <4>2, <4>3 DEF OthersWriteTunnels, PostSound, Readable
    <3>2. CASE writing.step = "posting" /\ writing.to # i
      <4>1. PICK r : writing \in Posts(r)
        BY <3>2 DEF PostSound
      <4>2. tunnelFile'[writing.to] = tunnelFile[writing.to]
        BY <2>1, <3>2, <4>1 DEF FilesReadable, Posts
      <4> QED
        BY <1>2, <2>1, <3>2, <4>2 DEF OthersWriteTunnels, PostSound, Readable
    <3>3. CASE writing.step # "posting"
      BY <1>2, <2>1, <3>3 DEF OthersWriteTunnels, PostSound, Posts
    <3> QED
      BY <3>1, <3>2, <3>3
  <2> QED
    BY <1>2, <2>3, <2>4, <2>5 DEF OthersWriteTunnels, LoadsReadable, ListSound, Readable
<1> QED
  BY <1>1, <1>2

LEMMA TunnelsHoldStep == TunnelsHold /\ [TunnelsNext]_tunnelsVars => TunnelsHold'
<1> SUFFICES ASSUME TunnelsHold, [TunnelsNext]_tunnelsVars PROVE TunnelsHold'
  OBVIOUS
<1>1. CASE TunnelsNext
  BY <1>1, TunnelsPageKept, TunnelsEditsKept, TunnelsSaveKept, TunnelsFileKept DEF TunnelsNext
<1>2. CASE UNCHANGED tunnelsVars
  BY <1>2 DEF tunnelsVars, TunnelsHold, FilesReadable, LoadsReadable, ListSound, PostSound, BasisSound, Readable
<1> QED
  BY <1>1, <1>2

(* frpc never gets two tunnels of one name, and a save takes no tunnel     *)
(* away that the user did not remove or change, for any instances, names,  *)
(* ports in a range, answers in any order and number of acts of the user   *)
(* and of others (submit, save, load, splitPair, pairProxies).             *)
THEOREM TunnelsStaySound == TunnelsSpec => []SavedTunnelsAreSound
<1>1. TunnelsHold => SavedTunnelsAreSound
  BY DEF TunnelsHold, FilesReadable, Readable, SavedTunnelsAreSound
<1> QED
  BY <1>1, TunnelsHoldFirst, TunnelsHoldStep, PTL DEF TunnelsSpec

-----------------------------------------------------------------------------
(* The types of the pages.                                                 *)

\* Loads under way, at most `m`, of which one comes, goes or is answered.
Few(S, m) == IsFiniteSet(S) /\ Cardinality(S) <= m

LEMMA FewLoads ==
    ASSUME NEW S, NEW m \in Nat, Few(S, m)
    PROVE  /\ \A k : Cardinality(S) < m => Few(S \cup {k}, m)
           /\ \A l \in S : Few(S \ {l}, m) /\ \A k : Few((S \ {l}) \cup {k}, m)
<1>1. IsFiniteSet(S) /\ Cardinality(S) \in Nat /\ Cardinality(S) <= m
  BY FS_CardinalityType DEF Few
<1>2. ASSUME NEW k, Cardinality(S) < m PROVE Few(S \cup {k}, m)
  <2>1. IsFiniteSet(S \cup {k}) /\ (Cardinality(S \cup {k}) = Cardinality(S) \/ Cardinality(S \cup {k}) = Cardinality(S) + 1)
    BY <1>1, FS_AddElement
  <2> QED
    BY <1>1, <1>2, <2>1 DEF Few
<1>3. ASSUME NEW l \in S PROVE IsFiniteSet(S \ {l}) /\ Cardinality(S \ {l}) = Cardinality(S) - 1
  BY <1>1, <1>3, FS_RemoveElement
<1>4. ASSUME NEW l \in S, NEW k PROVE Few(S \ {l}, m) /\ Few((S \ {l}) \cup {k}, m)
  <2>1. IsFiniteSet(S \ {l}) /\ Cardinality(S \ {l}) = Cardinality(S) - 1
    BY <1>3
  <2> DEFINE T == S \ {l}
  <2>2. IsFiniteSet(T) /\ Cardinality(T) \in Nat /\ Cardinality(T) < m
    BY <1>1, <2>1, FS_CardinalityType
  <2> HIDE DEF T
  <2>3. IsFiniteSet(T \cup {k}) /\ (Cardinality(T \cup {k}) = Cardinality(T) \/ Cardinality(T \cup {k}) = Cardinality(T) + 1)
    BY <2>2, FS_AddElement
  <2>4. Few(T, m) /\ Few(T \cup {k}, m)
    BY <2>2, <2>3 DEF Few
  <2> QED
    BY <2>4 DEF T
<1> QED
  BY <1>2, <1>4

LEMMA NoLoads == \A m \in Nat : Few({}, m)
  BY FS_EmptySet DEF Few

-----------------------------------------------------------------------------

\* What a file may have, and the fields that show it.
Files == {NoFile} \cup [ConfigKeys -> InFile]
FormTyped(v) == v = NoForm \/ (DOMAIN v = FieldNames /\ \A k \in ConfigKeys : v[k] \in Typed)

ConfigShapes ==
    /\ configFile \in [ConfigInstances -> Files] /\ formMounted \in BOOLEAN /\ formOf \in ConfigInstances
    /\ FormTyped(controls) /\ bracketed \subseteq ConfigKeys /\ editedKeys \subseteq ConfigKeys
    /\ Few(formLoads, MaxFormLoads)
    /\ \A l \in formLoads : l \in [iid : ConfigInstances, discarded : BOOLEAN, answer : {Unasked} \cup Files]
    /\ saving # Idle =>
          /\ saving.iid \in ConfigInstances /\ saving.values # NoForm /\ FormTyped(saving.values)
          /\ saving.content \in Files
    /\ edits \in 0..MaxEdits /\ writes \in 0..MaxWrites

LEMMA FormOfFile ==
    ASSUME NEW content \in Files
    PROVE  filled(content) # NoForm /\ FormTyped(filled(content)) /\ inBrackets(content) \subseteq ConfigKeys
<1>1. ASSUME NEW k \in ConfigKeys PROVE filled(content)[k] \in Typed
  <2>1. k \in FieldNames /\ k # Switch
    BY ConfigPageAssumption DEF FieldNames, Switch
  <2>2. filled(content)[k] = IF read(content, k) = "absent" THEN "def" ELSE unbracket(content[k])
    BY <2>1 DEF filled
  <2>3. CASE content = NoFile
    BY <2>2, <2>3 DEF read, NoFile, NoForm, Typed
  <2>4. CASE content \in [ConfigKeys -> InFile]
    BY <2>2, <2>4 DEF read, unbracket, InFile, Typed
  <2> QED
    BY <2>3, <2>4 DEF Files
<1>2. DOMAIN filled(content) = FieldNames /\ Switch \in FieldNames
  BY DEF filled, FieldNames
<1>3. filled(content) # NoForm
  BY <1>2 DEF NoForm
<1> QED
  BY <1>1, <1>2, <1>3 DEF FormTyped, inBrackets

LEMMA MergedFile ==
    ASSUME NEW content \in Files, NEW v, v # NoForm, FormTyped(v), NEW touched
    PROVE  mergeIntoFile(content, v, touched) \in Files
<1>1. generatedFrom(v) \in [ConfigKeys -> InFile]
  BY DEF generatedFrom, FormTyped, InFile
<1> QED
  BY <1>1 DEF mergeIntoFile, Files

LEMMA ConfigShapesFirst == ConfigInit => ConfigShapes
<1> SUFFICES ASSUME ConfigInit PROVE ConfigShapes
  OBVIOUS
<1>1. configFile \in [ConfigInstances -> Files]
  BY ConfigPageAssumption DEF ConfigInit, Files
<1>2. Few(formLoads, MaxFormLoads) /\ 0 \in 0..MaxEdits /\ 0 \in 0..MaxWrites
  BY NoLoads, ConfigPageAssumption DEF ConfigInit
<1> QED
  BY <1>1, <1>2, ConfigPageAssumption DEF ConfigInit, ConfigShapes, FormTyped

\* The form is emptied for a load.
LEMMA FormAsked ==
    ASSUME ConfigShapes, NEW i \in ConfigInstances, NEW discarded \in BOOLEAN, NEW kept, askFor(i, discarded, kept),
           configFile' = configFile, formMounted' \in BOOLEAN, formOf' = i, acted, writes' = writes,
           saving' \in {saving, movedFrom}, saving # Idle => saving = [step |-> saving.step, iid |-> saving.iid,
              values |-> saving.values, touched |-> saving.touched, mine |-> saving.mine,
              content |-> saving.content, crossed |-> saving.crossed]
    PROVE  ConfigShapes'
<1>1. Few(formLoads', MaxFormLoads)
  BY FewLoads, ConfigPageAssumption DEF ConfigShapes, askFor
<1>2. \A l \in formLoads' : l \in [iid : ConfigInstances, discarded : BOOLEAN, answer : {Unasked} \cup Files]
  BY DEF ConfigShapes, askFor
<1>3. edits' \in 0..MaxEdits /\ writes' \in 0..MaxWrites
  BY ConfigPageAssumption DEF ConfigShapes, acted
<1>4. saving' # Idle =>
          /\ saving'.iid \in ConfigInstances /\ saving'.values # NoForm /\ FormTyped(saving'.values)
          /\ saving'.content \in Files
  <2>1. CASE saving' = saving
    BY <2>1 DEF ConfigShapes
  <2>2. CASE saving' = movedFrom /\ saving # Idle /\ saving.step # "idle"
    BY <2>2 DEF ConfigShapes, movedFrom
  <2>3. CASE saving' = movedFrom /\ saving.step = "idle"
    BY <2>3 DEF movedFrom
  <2> QED
    BY <2>1, <2>2, <2>3 DEF Idle
<1> QED
  BY <1>1, <1>2, <1>3, <1>4 DEF ConfigShapes, askFor, FormTyped

LEMMA ConfigShapesStep == ConfigInv /\ ConfigShapes /\ [ConfigNext]_configVars => ConfigShapes'
<1> SUFFICES ASSUME ConfigInv, ConfigShapes, [ConfigNext]_configVars PROVE ConfigShapes'
  OBVIOUS
<1>a. acted => edits' \in 0..MaxEdits
  BY ConfigPageAssumption DEF ConfigShapes, acted
<1>b. saving # Idle =>
         saving = [step |-> saving.step, iid |-> saving.iid, values |-> saving.values, touched |-> saving.touched,
                   mine |-> saving.mine, content |-> saving.content, crossed |-> saving.crossed]
  BY DEF ConfigInv, SaveIsOwn
<1>c. MaxFormLoads \in Nat /\ SwitchedKeys \subseteq ConfigKeys
  BY ConfigPageAssumption
<1>1. CASE ConfigMount
  BY <1>1, <1>b, FormAsked DEF ConfigMount
<1>2. CASE SelectForm
  BY <1>2, <1>b, FormAsked DEF SelectForm
<1>3. CASE DiscardForm
  BY <1>3, <1>b, FormAsked DEF DiscardForm, ConfigShapes
<1>4. CASE ConfigUnmount
  BY <1>4, <1>a DEF ConfigUnmount, ConfigShapes
<1>5. CASE FileAnswered
  <2>1. PICK l \in formLoads : formLoads' = (formLoads \ {l}) \cup {[l EXCEPT !.answer = configFile[l.iid]]}
    BY <1>5 DEF FileAnswered
  <2>2. l \in [iid : ConfigInstances, discarded : BOOLEAN, answer : {Unasked} \cup Files] /\ configFile[l.iid] \in Files
    BY DEF ConfigShapes
  <2>3. [l EXCEPT !.answer = configFile[l.iid]] \in [iid : ConfigInstances, discarded : BOOLEAN, answer : {Unasked} \cup Files]
    BY <2>2
  <2>4. Few(formLoads', MaxFormLoads)
    BY <1>c, <2>1, FewLoads DEF ConfigShapes
  <2> QED
    BY <1>5, <2>1, <2>3, <2>4 DEF FileAnswered, ConfigShapes
<1>6. CASE FormFilled
  <2>1. PICK l \in formLoads :
          /\ l.answer # Unasked /\ formLoads' = formLoads \ {l}
          /\ IF ~formMounted
             THEN UNCHANGED <<controls, loaded, bracketed, snapshot, editedKeys>>
             ELSE /\ controls' = filled(l.answer) /\ loaded' = filled(l.answer) /\ editedKeys' = {}
                  /\ bracketed' = bracketed \cup inBrackets(l.answer)
                  /\ snapshot' = [values |-> filled(l.answer),
                                  toFix |-> IF l.discarded THEN {} ELSE bracketed \cup inBrackets(l.answer)]
    BY <1>6, Zenon DEF FormFilled
  <2>2. l.answer \in Files
    BY <2>1 DEF ConfigShapes
  <2>3. FormTyped(controls') /\ bracketed' \subseteq ConfigKeys /\ editedKeys' \subseteq ConfigKeys
    BY <2>1, <2>2, FormOfFile DEF ConfigShapes
  <2>4. Few(formLoads', MaxFormLoads)
    BY <1>c, <2>1, FewLoads DEF ConfigShapes
  <2> QED
    BY <1>6, <2>1, <2>3, <2>4 DEF FormFilled, ConfigShapes
<1>7. CASE FormLoadFails
  <2>1. Few(formLoads', MaxFormLoads)
    BY <1>7, <1>c, FewLoads DEF FormLoadFails, ConfigShapes
  <2> QED
    BY <1>7, <1>a, <2>1 DEF FormLoadFails, ConfigShapes
<1>8. CASE EditField
  <2>1. DOMAIN controls = FieldNames /\ controls # NoForm /\ \A k \in ConfigKeys : controls[k] \in Typed /\ k \in FieldNames /\ k # Switch
    BY <1>8, ConfigPageAssumption DEF EditField, ConfigShapes, FormTyped, FieldNames, Switch
  <2>2. FormTyped(controls')
    BY <1>8, <2>1 DEF EditField, FormTyped
  <2>3. editedKeys' \subseteq ConfigKeys
    BY <1>8, <1>c DEF EditField, ConfigShapes
  <2> QED
    BY <1>8, <1>a, <2>2, <2>3 DEF EditField, ConfigShapes
<1>9. CASE ClickSave
  BY <1>9, <1>a DEF ClickSave, ConfigShapes, Files
<1>10. CASE SaveReadsAgain
  <2> DEFINE content == mergeIntoFile(configFile[saving.iid], saving.values, saving.touched)
  <2>1. saving # Idle /\ saving' = [saving EXCEPT !.step = "writing", !.content = content]
    BY <1>10 DEF SaveReadsAgain, Idle
  <2>2. content \in Files
    BY <2>1, MergedFile DEF ConfigShapes
  <2> HIDE DEF content
  <2>3. saving'.iid = saving.iid /\ saving'.values = saving.values /\ saving'.content = content
    BY <1>b, <2>1
  <2> QED
    BY <1>10, <2>1, <2>2, <2>3 DEF SaveReadsAgain, ConfigShapes
<1>11. CASE SaveFails
  BY <1>11, <1>a DEF SaveFails, ConfigShapes
<1>12. CASE SaveWrites
  <2>1. saving # Idle /\ saving' = [saving EXCEPT !.step = "written"] /\ configFile' = [configFile EXCEPT ![formOf] = saving.content]
    BY <1>12 DEF SaveWrites, Idle
  <2>2. saving'.iid = saving.iid /\ saving'.values = saving.values /\ saving'.content = saving.content
    BY <1>b, <2>1
  <2>3. configFile' \in [ConfigInstances -> Files]
    BY <2>1 DEF ConfigShapes
  <2> QED
    BY <1>12, <2>1, <2>2, <2>3 DEF SaveWrites, ConfigShapes
<1>13. CASE SaveAnswered
  BY <1>13 DEF SaveAnswered, ConfigShapes
<1>14. CASE OthersWrite
  <2>1. PICK i \in ConfigInstances :
          /\ \/ \E k \in ConfigKeys, v \in {"absent", "c"} :
                   /\ configFile[i] # NoFile /\ configFile[i][k] # v
                   /\ configFile' = [configFile EXCEPT ![i][k] = v]
                   /\ othersWrote' = [othersWrote EXCEPT ![i] = [x \in DOMAIN @ \cup {k} |-> IF x = k THEN v ELSE @[x]]]
             \/ /\ configFile[i] # NoFile
                /\ configFile' = [configFile EXCEPT ![i] = NoFile]
                /\ othersWrote' = [othersWrote EXCEPT ![i] = NoFile]
          /\ saving' = IF saving.step = "writing" THEN [saving EXCEPT !.crossed = TRUE] ELSE saving
    BY <1>14, Zenon DEF OthersWrite
  <2>2. configFile' \in [ConfigInstances -> Files]
    <3>1. CASE configFile' = [configFile EXCEPT ![i] = NoFile]
      BY <3>1 DEF ConfigShapes, Files
    <3>2. CASE configFile[i] # NoFile /\ \E k \in ConfigKeys, v \in {"absent", "c"} : configFile' = [configFile EXCEPT ![i][k] = v]
      <4>1. PICK k \in ConfigKeys, v \in {"absent", "c"} : configFile' = [configFile EXCEPT ![i][k] = v]
        BY <3>2
      <4>2. configFile[i] \in [ConfigKeys -> InFile] /\ v \in InFile
        BY <3>2 DEF ConfigShapes, Files, InFile, Typed
      <4>3. [configFile[i] EXCEPT ![k] = v] \in Files
        BY <4>2 DEF Files
      <4> QED
        BY <4>1, <4>3 DEF ConfigShapes
    <3> QED
      BY <2>1, <3>1, <3>2
  <2>3. saving' # Idle =>
          /\ saving'.iid \in ConfigInstances /\ saving'.values # NoForm /\ FormTyped(saving'.values)
          /\ saving'.content \in Files
    <3>1. CASE saving.step = "writing"
      <4>1. saving # Idle /\ saving' = [saving EXCEPT !.crossed = TRUE]
        BY <2>1, <3>1 DEF Idle
      <4>2. saving'.iid = saving.iid /\ saving'.values = saving.values /\ saving'.content = saving.content
        BY <1>b, <4>1
      <4> QED
        BY <4>1, <4>2 DEF ConfigShapes
    <3>2. CASE saving.step # "writing"
      BY <2>1, <3>2 DEF ConfigShapes
    <3> QED
      BY <3>1, <3>2
  <2>4. writes' \in 0..MaxWrites
    BY <1>14, ConfigPageAssumption DEF OthersWrite, ConfigShapes
  <2> QED
    BY <1>14, <2>2, <2>3, <2>4 DEF OthersWrite, ConfigShapes
<1>15. CASE UNCHANGED configVars
  BY <1>15 DEF configVars, ConfigShapes
<1> QED
  BY <1>1, <1>2, <1>3, <1>4, <1>5, <1>6, <1>7, <1>8, <1>9, <1>10, <1>11, <1>12, <1>13, <1>14, <1>15 DEF ConfigNext

LEMMA ConfigTyped == ConfigInv /\ ConfigShapes => ConfigTypeOK
<1> SUFFICES ASSUME ConfigInv, ConfigShapes PROVE ConfigTypeOK
  OBVIOUS
<1>1. saving.step \in {"idle", "reading", "writing", "written"}
  BY DEF ConfigInv, SaveIsOwn, Idle
<1>2. \A i \in ConfigInstances : configFile[i] = NoFile \/ configFile[i] \in [ConfigKeys -> InFile]
  BY DEF ConfigShapes, Files
<1> QED
  BY <1>1, <1>2 DEF ConfigShapes, ConfigTypeOK, FormTyped, Few

-----------------------------------------------------------------------------

TunnelsShapes ==
    /\ listMounted \in BOOLEAN /\ (reference = <<>> \/ \E rows : reference = <<rows>>) /\ Few(listLoads, MaxListLoads)
    /\ tunnelActs \in 0..MaxTunnelActs /\ tunnelWrites \in 0..MaxTunnelWrites

LEMMA TunnelsShapesFirst == TunnelsInit => TunnelsShapes
<1>1. 0 \in 0..MaxTunnelActs /\ 0 \in 0..MaxTunnelWrites /\ MaxListLoads \in Nat
  BY TunnelsPageAssumption
<1>2. Few({}, MaxListLoads)
  BY <1>1, NoLoads
<1> QED
  BY <1>1, <1>2 DEF TunnelsInit, TunnelsShapes

LEMMA TunnelsShapesStep == TunnelsShapes /\ [TunnelsNext]_tunnelsVars => TunnelsShapes'
<1> SUFFICES ASSUME TunnelsShapes, [TunnelsNext]_tunnelsVars PROVE TunnelsShapes'
  OBVIOUS
<1> USE DEF TunnelsShapes
<1>a. does => tunnelActs' \in 0..MaxTunnelActs
  BY TunnelsPageAssumption DEF does
<1>b. MaxListLoads \in Nat
  BY TunnelsPageAssumption
<1>c. \A i : askList(i) => Few(listLoads', MaxListLoads)
  BY <1>b, FewLoads DEF askList
<1>1. CASE TunnelsMount \/ SelectTunnels \/ DiscardList
  BY <1>1, <1>a, <1>c DEF TunnelsMount, SelectTunnels, DiscardList
<1>2. CASE TunnelsUnmount \/ OpenEditor \/ RemoveTunnel \/ SaveTunnels \/ SaveRefused
  BY <1>2, <1>a DEF TunnelsUnmount, OpenEditor, RemoveTunnel, SaveTunnels, SaveRefused
<1>3. CASE ListAnswered
  <2>1. PICK l \in listLoads : listLoads' = (listLoads \ {l}) \cup {[l EXCEPT !.answer = <<tunnelFile[l.iid]>>]}
    BY <1>3 DEF ListAnswered
  <2>2. Few(listLoads', MaxListLoads)
    BY <1>b, <2>1, FewLoads
  <2> QED
    BY <1>3, <2>2 DEF ListAnswered
<1>4. CASE ListFilled
  <2>1. PICK l \in listLoads : listLoads' = listLoads \ {l} /\ reference' = <<paired(l.answer[1])>>
    BY <1>4 DEF ListFilled, fillList
  <2>2. Few(listLoads', MaxListLoads)
    BY <1>b, <2>1, FewLoads
  <2> QED
    BY <1>4, <2>1, <2>2 DEF ListFilled
<1>5. CASE ListLoadFails
  <2>1. PICK l \in listLoads : listLoads' = listLoads \ {l}
    BY <1>5 DEF ListLoadFails
  <2>2. Few(listLoads', MaxListLoads)
    BY <1>b, <2>1, FewLoads
  <2>3. reference' = <<{}>>
    BY <1>5 DEF ListLoadFails, fillList
  <2> QED
    BY <1>5, <1>a, <2>2, <2>3 DEF ListLoadFails
<1>6. CASE SubmitEditor \/ CloseEditor \/ SaveComposes \/ TunnelsWritten
  BY <1>6 DEF SubmitEditor, CloseEditor, SaveComposes, TunnelsWritten
<1>7. CASE SaveConfirmed
  BY <1>7 DEF SaveConfirmed
<1>8. CASE SaveReloads
  <2>1. Few(listLoads', MaxListLoads)
    BY <1>8, <1>c DEF SaveReloads
  <2>2. tunnelActs' \in 0..MaxTunnelActs
    BY <1>8, <1>a DEF SaveReloads
  <2> QED
    BY <1>8, <2>1, <2>2 DEF SaveReloads
<1>9. CASE OthersWriteTunnels
  BY <1>9, TunnelsPageAssumption DEF OthersWriteTunnels
<1>10. CASE UNCHANGED tunnelsVars
  BY <1>10 DEF tunnelsVars
<1> QED
  BY <1>1, <1>2, <1>3, <1>4, <1>5, <1>6, <1>7, <1>8, <1>9, <1>10 DEF TunnelsNext

LEMMA TunnelsTyped == TunnelsHold /\ TunnelsShapes => TunnelsTypeOK
<1> SUFFICES ASSUME TunnelsHold, TunnelsShapes PROVE TunnelsTypeOK
  OBVIOUS
<1>1. writing.step \in {"none", "reading", "posting", "written", "restarting"}
  BY DEF TunnelsHold, PostSound, Posts
<1>2. Len(reference) <= 1
  <2>1. Len(<<>>) <= 1 /\ \A rows : Len(<<rows>>) <= 1
    OBVIOUS
  <2> QED
    BY <2>1 DEF TunnelsShapes
<1> QED
  BY <1>1, <1>2 DEF TunnelsHold, TunnelsShapes, TunnelsTypeOK, FilesReadable, ListSound, BasisSound, Few

-----------------------------------------------------------------------------

SomeFrps == Frps \cup {NoFrps}
PageRules == [id : RuleIds, frps : SomeFrps, mode : {"allow", "block"}, sources : SUBSET Sources,
              quick : BOOLEAN, on : BOOLEAN]
Drafts == [enabled : BOOLEAN, rules : SUBSET PageRules]
\* What a load gives.
RuleAnswer(x) == x = <<>> \/ \E d \in Drafts, f \in SUBSET Frps : x = <<[applied |-> d, frps |-> f]>>

FwShapes ==
    /\ aliveFrps \subseteq Frps /\ frpsShown \in SomeFrps /\ made \in RuleIds /\ fwActs \in 0..MaxFwActs /\ cutOff \in BOOLEAN
    /\ draft \in Drafts /\ applied \in Drafts /\ RuleAnswer(fwData)
    /\ Few(fwLoads, MaxFwLoads)
    /\ \A l \in fwLoads : RuleAnswer(l.answer) /\ l = [n |-> l.n, answer |-> l.answer]
    /\ fwEditor = NoEditor \/ fwEditor \in [open : {TRUE}, of : SUBSET PageRules, gone : BOOLEAN]
    /\ fwEditor.open => fwData # <<>>
    /\ applying.step = "sent" => applying.content \in Drafts

LEMMA FwShapesFirst == FwPageInit => FwShapes
<1> SUFFICES ASSUME FwPageInit PROVE FwShapes
  OBVIOUS
<1>1. 0 \in RuleIds /\ 0 \in 0..MaxFwActs /\ Few(fwLoads, MaxFwLoads)
  BY NoLoads, FirewallPageAssumption DEF FwPageInit, RuleIds
<1>2. FirstRules \subseteq PageRules
  BY <1>1, FirewallPageAssumption DEF PageRules, SomeFrps
<1>3. applied \in Drafts /\ draft \in Drafts
  BY <1>2 DEF FwPageInit, Drafts
<1> QED
  BY <1>1, <1>3 DEF FwPageInit, FwShapes, RuleAnswer, SomeFrps, NoEditor, NotApplying

\* The draft is changed.
LEMMA DraftTyped ==
    ASSUME FwShapes, NEW d \in Drafts, redraft(d), made' \in RuleIds, fwActs' \in 0..MaxFwActs,
           fwEditor' \in {fwEditor, NoEditor}
    PROVE  FwShapes'
<1>1. applying'.step = "sent" => applying' = applying
  BY DEF redraft, untestedNow
<1>2. fwEditor'.open => fwEditor' = fwEditor
  BY DEF NoEditor
<1> QED
  BY <1>1, <1>2 DEF FwShapes, redraft, RuleAnswer

\* What the application under way becomes.
LEMMA NextTyped ==
    ASSUME FwShapes, NEW record, next(record), UNCHANGED fwActs, record.step = "sent" => record.content \in Drafts
    PROVE  FwShapes'
  BY DEF FwShapes, next, RuleAnswer

LEMMA FwShapesStep == FwInv /\ FwShapes /\ [FwPageNext]_fwPageVars => FwShapes'
<1> SUFFICES ASSUME FwInv, FwShapes, [FwPageNext]_fwPageVars PROVE FwShapes'
  OBVIOUS
<1>a. tries => fwActs' \in 0..MaxFwActs
  BY FirewallPageAssumption DEF FwShapes, tries
<1>b. MaxFwLoads \in Nat
  BY FirewallPageAssumption
<1>c. \A n : askRules(n) => /\ Few(fwLoads', MaxFwLoads)
                            /\ \A l \in fwLoads' : RuleAnswer(l.answer) /\ l = [n |-> l.n, answer |-> l.answer]
  <2> SUFFICES ASSUME NEW n, askRules(n)
               PROVE  /\ Few(fwLoads', MaxFwLoads)
                      /\ \A l \in fwLoads' : RuleAnswer(l.answer) /\ l = [n |-> l.n, answer |-> l.answer]
    OBVIOUS
  <2>1. Few(fwLoads', MaxFwLoads)
    BY <1>b, FewLoads DEF askRules, FwShapes
  <2> DEFINE new == [n |-> n, answer |-> <<>>]
  <2>2. fwLoads' = fwLoads \cup {new} /\ RuleAnswer(new.answer) /\ new = [n |-> new.n, answer |-> new.answer]
    BY DEF askRules, RuleAnswer
  <2> HIDE DEF new
  <2> QED
    BY <2>1, <2>2 DEF FwShapes
<1>d. shownPage => \E d \in Drafts, f \in SUBSET Frps : fwData = <<[applied |-> d, frps |-> f]>>
  BY DEF shownPage, FwShapes, RuleAnswer
<1>e. \A rules \in SUBSET PageRules : withRules(rules) \in Drafts
  BY DEF FwShapes, Drafts, withRules
<1>f. make => made' \in RuleIds
  BY FirewallPageAssumption DEF FwShapes, make, RuleIds
<1>g. draft \in Drafts /\ draft.rules \subseteq PageRules /\ visibleRules \subseteq draft.rules
  BY DEF FwShapes, Drafts, visibleRules
<1>1. CASE FwMount
  BY <1>1, <1>a, <1>c DEF FwMount, FwShapes, RuleAnswer, SomeFrps
<1>2. CASE RulesAnswered
  <2>1. PICK l \in fwLoads :
          fwLoads' = (fwLoads \ {l}) \cup {[l EXCEPT !.answer = <<[applied |-> applied, frps |-> aliveFrps]>>]}
    BY <1>2 DEF RulesAnswered
  <2> DEFINE answered == [l EXCEPT !.answer = <<[applied |-> applied, frps |-> aliveFrps]>>]
  <2>2. l = [n |-> l.n, answer |-> l.answer] /\ RuleAnswer(<<[applied |-> applied, frps |-> aliveFrps]>>)
    BY DEF FwShapes, RuleAnswer
  <2>3. RuleAnswer(answered.answer) /\ answered = [n |-> answered.n, answer |-> answered.answer]
    BY <2>2
  <2> HIDE DEF answered
  <2>4. Few(fwLoads', MaxFwLoads)
    BY <1>b, <2>1, FewLoads DEF FwShapes
  <2>5. \A x \in fwLoads' : RuleAnswer(x.answer) /\ x = [n |-> x.n, answer |-> x.answer]
    BY <2>1, <2>3 DEF FwShapes, answered
  <2> QED
    BY <1>2, <2>4, <2>5 DEF RulesAnswered, FwShapes, RuleAnswer
<1>3. CASE RulesFilled
  <2>1. PICK l \in fwLoads :
          /\ l.answer # <<>> /\ fwLoads' = fwLoads \ {l}
          /\ fwData' = l.answer /\ draft' = l.answer[1].applied /\ fwSnapshot' = <<l.answer[1].applied>>
          /\ frpsShown' \in IF frpsShown \in l.answer[1].frps THEN {frpsShown}
                            ELSE IF l.answer[1].frps = {} THEN {NoFrps} ELSE l.answer[1].frps
    BY <1>3, Zenon DEF RulesFilled
  <2>2. PICK d \in Drafts, f \in SUBSET Frps : l.answer = <<[applied |-> d, frps |-> f]>>
    BY <2>1 DEF FwShapes, RuleAnswer
  <2>a. l.answer[1].applied = d /\ l.answer[1].frps = f
    BY <2>2
  <2>b. draft' \in Drafts /\ frpsShown' \in SomeFrps
    BY <2>1, <2>2, <2>a DEF FwShapes, SomeFrps
  <2>c. RuleAnswer(fwData') /\ fwData' # <<>>
    BY <2>1, <2>2 DEF RuleAnswer
  <2>3. draft' \in Drafts /\ frpsShown' \in SomeFrps /\ RuleAnswer(fwData') /\ fwData' # <<>>
    BY <2>b, <2>c
  <2>4. Few(fwLoads', MaxFwLoads)
    BY <1>b, <2>1, FewLoads DEF FwShapes
  <2>5. fwEditor' = NoEditor \/ fwEditor' \in [open : {TRUE}, of : SUBSET PageRules, gone : BOOLEAN]
    BY <1>3 DEF RulesFilled, FwShapes, NoEditor
  <2>6. applying'.step = "sent" => applying' = applying
    BY <1>3 DEF RulesFilled, untestedNow
  <2> QED
    BY <1>3, <2>1, <2>3, <2>4, <2>5, <2>6 DEF RulesFilled, FwShapes
<1>4. CASE RulesFail
  <2>1. PICK l \in fwLoads : fwLoads' = fwLoads \ {l}
    BY <1>4 DEF RulesFail
  <2>2. Few(fwLoads', MaxFwLoads)
    BY <1>b, <2>1, FewLoads DEF FwShapes
  <2> QED
    BY <1>4, <1>a, <2>1, <2>2 DEF RulesFail, FwShapes, RuleAnswer
<1>5. CASE PickFrps
  <2>1. frpsShown' \in SomeFrps
    BY <1>5, <1>d DEF PickFrps, free, SomeFrps
  <2> QED
    BY <1>5, <1>a, <2>1 DEF PickFrps, free, FwShapes, RuleAnswer
<1>6. CASE ToggleFirewall
  <2>1. [draft EXCEPT !.enabled = ~@] \in Drafts
    BY <1>g DEF Drafts
  <2> QED
    BY <1>6, <1>a, <2>1, DraftTyped DEF ToggleFirewall, free, FwShapes
<1>7. CASE ToggleRule
  <2>1. PICK r \in visibleRules : redraft(withRules((draft.rules \ {r}) \cup {[r EXCEPT !.on = ~@]}))
    BY <1>7 DEF ToggleRule
  <2>2. [r EXCEPT !.on = ~@] \in PageRules
    BY <1>g DEF PageRules
  <2>3. withRules((draft.rules \ {r}) \cup {[r EXCEPT !.on = ~@]}) \in Drafts
    BY <1>e, <1>g, <2>2
  <2> QED
    BY <1>7, <1>a, <2>1, <2>3, DraftTyped DEF ToggleRule, free, FwShapes
<1>8. CASE RemoveRule
  <2>1. \A r : withRules(draft.rules \ {r}) \in Drafts
    BY <1>e, <1>g
  <2> QED
    BY <1>8, <1>a, <2>1, DraftTyped DEF RemoveRule, free, FwShapes
<1>9. CASE QuickBlock
  <2>1. PICK s \in Sources :
          LET quick == {r \in draft.rules : r.mode = "block" /\ r.quick /\ ofFrps(r, frpsShown)}
          IN  IF quick = {}
              THEN make /\ redraft(withRules(draft.rules \cup
                     {[id |-> made', frps |-> newRuleFrps, mode |-> "block", sources |-> {s}, quick |-> TRUE, on |-> TRUE]}))
              ELSE \E r \in quick :
                     redraft(withRules((draft.rules \ {r}) \cup {[r EXCEPT !.sources = @ \cup {s}, !.on = TRUE]}))
                     /\ UNCHANGED made
    BY <1>9, Zenon DEF QuickBlock
  <2> DEFINE new == [id |-> made', frps |-> newRuleFrps, mode |-> "block", sources |-> {s}, quick |-> TRUE, on |-> TRUE]
  <2>2. CASE make /\ redraft(withRules(draft.rules \cup {new}))
    <3>1. new \in PageRules
      BY <1>f, <2>2 DEF PageRules, newRuleFrps, FwShapes
    <3> HIDE DEF new
    <3>2. withRules(draft.rules \cup {new}) \in Drafts
      BY <1>e, <1>g, <3>1
    <3> QED
      BY <1>9, <1>a, <1>f, <2>2, <3>2, DraftTyped DEF QuickBlock, free
  <2>3. CASE \E r \in draft.rules :
               redraft(withRules((draft.rules \ {r}) \cup {[r EXCEPT !.sources = @ \cup {s}, !.on = TRUE]})) /\ UNCHANGED made
    <3>1. PICK r \in draft.rules :
               redraft(withRules((draft.rules \ {r}) \cup {[r EXCEPT !.sources = @ \cup {s}, !.on = TRUE]})) /\ UNCHANGED made
      BY <2>3
    <3>2. [r EXCEPT !.sources = @ \cup {s}, !.on = TRUE] \in PageRules
      BY <1>g DEF PageRules
    <3>3. withRules((draft.rules \ {r}) \cup {[r EXCEPT !.sources = @ \cup {s}, !.on = TRUE]}) \in Drafts
      BY <1>e, <1>g, <3>2
    <3> QED
      BY <1>9, <1>a, <3>1, <3>3, DraftTyped DEF QuickBlock, free, FwShapes
  <2> QED
    BY <2>1, <2>2, <2>3
<1>10. CASE Subscribe
  <2>1. PICK mode \in {"allow", "block"}, sources \in SUBSET Sources \ {{}} :
          redraft(withRules(draft.rules \cup
            {[id |-> made', frps |-> newRuleFrps, mode |-> mode, sources |-> sources, quick |-> FALSE, on |-> TRUE]}))
    BY <1>10, Zenon DEF Subscribe
  <2> DEFINE new == [id |-> made', frps |-> newRuleFrps, mode |-> mode, sources |-> sources, quick |-> FALSE, on |-> TRUE]
  <2>2. new \in PageRules /\ made' \in RuleIds
    BY <1>10, <1>f DEF Subscribe, PageRules, newRuleFrps, FwShapes
  <2> HIDE DEF new
  <2>3. withRules(draft.rules \cup {new}) \in Drafts
    BY <1>e, <1>g, <2>2
  <2> QED
    BY <1>10, <1>a, <2>1, <2>2, <2>3, DraftTyped DEF Subscribe, free, new
<1>11. CASE OpenRuleEditor
  <2>1. PICK of \in SUBSET visibleRules : fwEditor' = [open |-> TRUE, of |-> of, gone |-> FALSE]
    BY <1>11 DEF OpenRuleEditor
  <2>2. fwEditor' \in [open : {TRUE}, of : SUBSET PageRules, gone : BOOLEAN]
    BY <1>g, <2>1
  <2> QED
    BY <1>11, <1>a, <2>2 DEF OpenRuleEditor, free, shownPage, FwShapes, RuleAnswer
<1>12. CASE SubmitRule
  <2>1. PICK mode \in {"allow", "block"}, f \in fwData[1].frps \cup {NoFrps}, sources \in SUBSET Sources :
          /\ mode = "block" => sources # {}
          /\ IF fwEditor.of = {}
             THEN make /\ redraft(withRules(draft.rules \cup
                    {[id |-> made', frps |-> f, mode |-> mode, sources |-> sources, quick |-> FALSE, on |-> TRUE]}))
             ELSE \E r \in fwEditor.of :
                    /\ UNCHANGED made
                    /\ redraft(IF fwEditor.gone THEN draft
                               ELSE withRules((draft.rules \ {r}) \cup
                                      {[r EXCEPT !.mode = mode, !.frps = f, !.sources = sources]}))
    BY <1>12, Zenon DEF SubmitRule
  <2>2. fwEditor.open /\ fwEditor' = NoEditor /\ UNCHANGED fwActs
    BY <1>12 DEF SubmitRule
  <2>3. f \in SomeFrps
    BY <2>2 DEF FwShapes, RuleAnswer, SomeFrps
  <2>4. fwEditor.of \subseteq PageRules
    <3>1. NoEditor.open = FALSE
      BY DEF NoEditor
    <3>2. fwEditor \in [open : {TRUE}, of : SUBSET PageRules, gone : BOOLEAN]
      BY <2>2, <3>1 DEF FwShapes
    <3> QED
      BY <3>2
  <2> DEFINE new == [id |-> made', frps |-> f, mode |-> mode, sources |-> sources, quick |-> FALSE, on |-> TRUE]
             changedTo(r) == [r EXCEPT !.mode = mode, !.frps = f, !.sources = sources]
  <2>5. CASE make /\ redraft(withRules(draft.rules \cup {new}))
    <3>1. new \in PageRules
      BY <1>f, <2>3, <2>5 DEF PageRules
    <3> HIDE DEF new
    <3>2. withRules(draft.rules \cup {new}) \in Drafts
      BY <1>e, <1>g, <3>1
    <3> QED
      BY <1>f, <2>2, <2>5, <3>2, DraftTyped DEF FwShapes
  <2>6. CASE \E r \in fwEditor.of : UNCHANGED made /\ redraft(IF fwEditor.gone THEN draft ELSE withRules((draft.rules \ {r}) \cup {changedTo(r)}))
    <3>1. PICK r \in fwEditor.of : UNCHANGED made /\ redraft(IF fwEditor.gone THEN draft ELSE withRules((draft.rules \ {r}) \cup {changedTo(r)}))
      BY <2>6
    <3>2. changedTo(r) \in PageRules
      BY <2>3, <2>4 DEF PageRules
    <3> HIDE DEF changedTo
    <3>3. withRules((draft.rules \ {r}) \cup {changedTo(r)}) \in Drafts
      BY <1>e, <1>g, <3>2
    <3>4. (IF fwEditor.gone THEN draft ELSE withRules((draft.rules \ {r}) \cup {changedTo(r)})) \in Drafts
      BY <1>g, <3>3
    <3> QED
      BY <2>2, <3>1, <3>4, DraftTyped DEF FwShapes
  <2> QED
    BY <2>1, <2>5, <2>6
<1>13. CASE CloseRuleEditor
  BY <1>13 DEF CloseRuleEditor, FwShapes, RuleAnswer, NoEditor
<1>14. CASE DiscardRules
  <2>1. fwData[1].applied \in Drafts
    BY <1>14, <1>d DEF DiscardRules, free
  <2> QED
    BY <1>14, <1>a, <2>1, DraftTyped DEF DiscardRules, free, FwShapes
<1>15. CASE ApplyRules
  <2>1. applying'.step = "sent" => applying'.content \in Drafts
    BY <1>15, <1>g DEF ApplyRules
  <2> QED
    BY <1>15, <1>a, <2>1 DEF ApplyRules, free, FwShapes, RuleAnswer
<1>16. CASE TestAnswered
  <2>1. applying \in [step : {"testing", "asking"}, rules : {applying.rules}, same : BOOLEAN]
    BY <1>16 DEF TestAnswered, FwInv, Tested
  <2>2. [applying EXCEPT !.step = "asking"].step = "asking"
    BY <2>1
  <2>3. CASE next([applying EXCEPT !.step = "asking"])
    BY <1>16, <2>2, <2>3, NextTyped DEF TestAnswered
  <2>4. CASE \E told : next([step |-> "sent", content |-> draft, told |-> told])
    BY <1>16, <1>g, <2>4, NextTyped DEF TestAnswered
  <2> QED
    BY <1>16, <2>3, <2>4 DEF TestAnswered, sent
<1>17. CASE TestFails \/ UserConfirms
  BY <1>17, <1>g, NextTyped DEF TestFails, UserConfirms, sent
<1>18. CASE UserCancels \/ RulesRefused
  BY <1>18, NextTyped DEF UserCancels, RulesRefused, NotApplying
<1>19. CASE RulesApplied
  BY <1>19, <1>c DEF RulesApplied, FwShapes, RuleAnswer, NotApplying
<1>20. CASE FrpsDeleted
  BY <1>20 DEF FrpsDeleted, FwShapes, RuleAnswer
<1>21. CASE UNCHANGED fwPageVars
  BY <1>21 DEF fwPageVars, FwShapes, RuleAnswer
<1>22. CASE FrpsCreated
  <2>1. applying'.step = "sent" => applying'.content = applying.content /\ applying.step = "sent"
    BY <1>22 DEF FrpsCreated, untestedNow, FwInv, Tested
  <2>2. aliveFrps' \subseteq Frps
    BY <1>22 DEF FrpsCreated, FwShapes
  <2> QED
    BY <1>22, <1>a, <2>1, <2>2 DEF FrpsCreated, FwShapes, RuleAnswer
<1> QED
  BY <1>1, <1>2, <1>3, <1>4, <1>5, <1>6, <1>7, <1>8, <1>9, <1>10, <1>11, <1>12, <1>13, <1>14, <1>15, <1>16, <1>17,
     <1>18, <1>19, <1>20, <1>21, <1>22 DEF FwPageNext

LEMMA FwTyped == FwInv /\ FwShapes => FwPageTypeOK
<1> SUFFICES ASSUME FwInv, FwShapes PROVE FwPageTypeOK
  OBVIOUS
<1>1. ASSUME NEW d \in {draft, applied}, NEW r \in d.rules
      PROVE  /\ r.id \in RuleIds /\ r.frps \in Frps \cup {NoFrps} /\ r.sources \subseteq Sources
             /\ r.mode \in {"allow", "block"} /\ r.quick \in BOOLEAN /\ r.on \in BOOLEAN
  <2>1. r \in PageRules
    BY DEF FwShapes, Drafts
  <2> QED
    BY <2>1 DEF PageRules, SomeFrps
<1>2. \A d \in {draft, applied} : d.enabled \in BOOLEAN
  BY DEF FwShapes, Drafts
<1>3. applying.step \in {"none", "testing", "asking", "sent"}
  BY DEF FwInv, Tested
<1> QED
  BY <1>1, <1>2, <1>3 DEF FwShapes, FwPageTypeOK, SomeFrps, Few

-----------------------------------------------------------------------------

\* What the types say besides: bounds that are kept by what the lines and the stream mean.
LogBounds ==
    /\ logMounted \in BOOLEAN /\ acts \in 0..MaxActs
    /\ allLogged \in 0..MaxLogged /\ \A p \in Places : logged[p] <= allLogged
    /\ Len(lines) <= MAX_LINES /\ \A i \in DOMAIN lines : lines[i].n > 0
    /\ \A l \in loads : l.seq > 0 /\ l.upTo <= MaxLogged + 1
    /\ live.failures <= MAX_RECONNECTS /\ stream <= logged[place] + 1

LEMMA LogBounded == LogInv /\ LogBounds => LogTypeOK
<1> SUFFICES ASSUME LogInv, LogBounds PROVE LogTypeOK
  OBVIOUS
<1> USE DEF LogInv, LogTypes, LogBounds
<1>1. \A p \in Places : logged[p] \in 0..MaxLogged
  <2>1. \A a, b \in Nat : a <= b /\ b <= MaxLogged => a \in 0..MaxLogged
    BY LogViewAssumption
  <2>2. \A p \in Places : logged[p] \in Nat /\ logged[p] <= allLogged /\ allLogged \in Nat /\ allLogged <= MaxLogged
    BY LogViewAssumption
  <2> QED
    BY <2>1, <2>2
<1>2. lines \in Seq([place : Places, n : 1..MaxLogged])
  <2>1. Len(lines) \in Nat /\ DOMAIN lines = 1..Len(lines) /\ \A i \in 1..Len(lines) : lines[i] \in LogRows
    BY LenProperties, ElementOfSeq
  <2>2. ASSUME NEW i \in 1..Len(lines) PROVE lines[i] \in [place : Places, n : 1..MaxLogged]
    <3>1. lines[i].n \in Nat /\ lines[i].n > 0 /\ lines[i].n <= logged[place]
      BY <2>1 DEF StreamHolds, LogRows
    <3>2. lines[i].n \in 1..MaxLogged
      <4>1. \A a \in Nat, b \in 0..MaxLogged : a > 0 /\ a <= b => a \in 1..MaxLogged
        BY LogViewAssumption
      <4>2. logged[place] \in 0..MaxLogged
        BY <1>1
      <4> QED
        BY <3>1, <4>1, <4>2
    <3> QED
      BY <2>1, <3>2 DEF LogRows
  <2>3. SubSeq(lines, 1, Len(lines)) \in Seq([place : Places, n : 1..MaxLogged])
    BY <2>1, <2>2, SubSeqProperties
  <2> QED
    BY <2>3, SubSeqFull
<1>3. loads \subseteq [seq : 1..loadSeq, place : Places, upTo : 0..(MaxLogged + 1)]
  <2> SUFFICES ASSUME NEW l \in loads PROVE l \in [seq : 1..loadSeq, place : Places, upTo : 0..(MaxLogged + 1)]
    OBVIOUS
  <2>1. l.seq \in 1..loadSeq /\ l.upTo \in 0..(MaxLogged + 1) /\ l \in [seq : Nat, place : Places, upTo : Nat]
    BY LogViewAssumption DEF LoadsHold
  <2> QED
    BY <2>1
<1>4. live \in [on : BOOLEAN, transport : {"websocket", "sse"}, everOpened : BOOLEAN,
                conn : {"none", "opening", "open", "retry"}, failures : 0..MAX_RECONNECTS]
  <2>1. live.failures \in 0..MAX_RECONNECTS
    BY LogViewAssumption DEF Streams
  <2> QED
    BY <2>1 DEF Streams
<1>5. stream \in 0..(MaxLogged + 1)
  BY <1>1, LogViewAssumption
<1>6. logged \in [Places -> 0..MaxLogged]
  BY <1>1
<1> QED
  BY <1>2, <1>3, <1>4, <1>5, <1>6 DEF LogTypeOK

LEMMA LogBoundsFirst == LogInit => LogBounds
<1> SUFFICES ASSUME LogInit PROVE LogBounds
  OBVIOUS
<1>1. /\ Len(<<>>) = 0 /\ DOMAIN <<>> = {} /\ 0 <= MAX_LINES /\ 0 <= MAX_RECONNECTS /\ 0 \in 0..MaxActs
      /\ 0 \in 0..MaxLogged /\ 0 <= 0 + 1 /\ 0 <= 0
  BY LogViewAssumption
<1>2. place \in Places /\ live.failures = 0
  BY LogFirst DEF LogInit, LogInv, LogTypes, Off
<1>3. stream <= logged[place] + 1 /\ \A p \in Places : logged[p] <= allLogged
  BY <1>1, <1>2 DEF LogInit
<1> QED
  BY <1>1, <1>2, <1>3 DEF LogInit, LogBounds

LEMMA LogBoundsStep == LogInv /\ LogInv' /\ LogBounds /\ [LogNext]_logVars => LogBounds'
<1> SUFFICES ASSUME LogInv, LogInv', LogBounds, [LogNext]_logVars PROVE LogBounds'
  OBVIOUS
<1> USE DEF LogBounds
<1>a. /\ Len(<<>>) = 0 /\ DOMAIN <<>> = {} /\ 0 <= MAX_LINES /\ Off.failures = 0 /\ 0 <= MAX_RECONNECTS
      /\ place' \in Places /\ logged'[place'] \in Nat /\ 0 <= logged'[place'] + 1 /\ loadSeq \in Nat
  BY LogViewAssumption DEF Off, LogInv, LogTypes
<1>b. act => acts' \in 0..MaxActs
  BY LogViewAssumption DEF act
<1>1. CASE LogMount \/ SelectInstance \/ SelectSource \/ Refresh \/ ToggleLive
  <2>1. logMounted' \in BOOLEAN /\ acts' \in 0..MaxActs /\ UNCHANGED <<logged, allLogged>>
    BY <1>1, <1>b DEF LogMount, SelectInstance, SelectSource, Refresh, ToggleLive
  <2>2. startLoad(place') \/ startLive \/ (live' = Off /\ stream' = 0 /\ UNCHANGED <<lines, loadSeq, loads, broken>>)
    BY <1>1 DEF LogMount, SelectInstance, SelectSource, Refresh, ToggleLive
  <2>3. Len(lines') <= MAX_LINES /\ (\A i \in DOMAIN lines' : lines'[i].n > 0) /\ stream' = 0 /\ live'.failures = 0
    BY <1>a, <2>2 DEF startLoad, startLive, Off
  <2>4. \A l \in loads' : l.seq > 0 /\ l.upTo <= MaxLogged + 1
    <3>1. loads' \subseteq loads \cup {[seq |-> loadSeq + 1, place |-> place', upTo |-> MaxLogged + 1]}
      BY <2>2 DEF startLoad, startLive
    <3>2. loadSeq + 1 > 0 /\ MaxLogged + 1 <= MaxLogged + 1
      BY <1>a, LogViewAssumption
    <3> QED
      BY <3>1, <3>2
  <2> QED
    BY <1>a, <2>1, <2>3, <2>4
<1>2. CASE LogUnmount
  BY <1>2, <1>a, <1>b DEF LogUnmount
<1>3. CASE LineWritten
  <2>1. PICK p \in Places : logged' = [logged EXCEPT ![p] = @ + 1]
    BY <1>3 DEF LineWritten
  <2>2. allLogged < MaxLogged /\ allLogged' = allLogged + 1 /\ UNCHANGED <<logMounted, place, lines, loads, live, stream, acts>>
    BY <1>3 DEF LineWritten
  <2>3. \A q \in Places : logged[q] \in Nat /\ logged'[q] <= allLogged' /\ logged[q] <= logged'[q]
    BY <2>1, <2>2 DEF LogInv, LogTypes
  <2>4. stream' <= logged'[place'] + 1
    BY <1>a, <2>2, <2>3 DEF LogInv, LogTypes
  <2>5. allLogged' \in 0..MaxLogged
    BY <2>2, LogViewAssumption
  <2> QED
    BY <2>2, <2>3, <2>4, <2>5
<1>4. CASE LogRead
  <2>1. PICK l \in loads : loads' = (loads \ {l}) \cup {[l EXCEPT !.upTo = logged[l.place]]}
    BY <1>4 DEF LogRead
  <2>2. l \in [seq : Nat, place : Places, upTo : Nat] /\ logged[l.place] <= MaxLogged + 1
    BY LogViewAssumption DEF LogInv, LogTypes
  <2>3. [l EXCEPT !.upTo = logged[l.place]].seq = l.seq /\ [l EXCEPT !.upTo = logged[l.place]].upTo = logged[l.place]
    BY <2>2
  <2>4. \A k \in loads' : k.seq > 0 /\ k.upTo <= MaxLogged + 1
    BY <2>1, <2>2, <2>3
  <2> QED
    BY <1>4, <2>4 DEF LogRead
<1>5. CASE LoadArrives \/ LoadFails
  <2>1. loads' \subseteq loads /\ UNCHANGED <<logged, allLogged, logMounted, place, live, stream>> /\ acts' \in 0..MaxActs
    BY <1>5, <1>b DEF LoadArrives, LoadFails
  <2>2. Len(lines') <= MAX_LINES /\ \A i \in DOMAIN lines' : lines'[i].n > 0
    <3>1. PICK l \in loads : \/ lines' \in {lines, <<>>}
                             \/ lines' = lastLines([n \in 1..l.upTo |-> LogLine(l.place, n)])
      BY <1>5 DEF LoadArrives, LoadFails
    <3>2. CASE lines' \in {lines, <<>>}
      BY <1>a, <3>2
    <3>3. CASE lines' = lastLines([n \in 1..l.upTo |-> LogLine(l.place, n)])
      <4> DEFINE s == [n \in 1..l.upTo |-> LogLine(l.place, n)]
      <4>1. l.upTo \in Nat /\ \A n \in 1..l.upTo : LogLine(l.place, n) \in LogRows /\ LogLine(l.place, n).n = n
        BY DEF LogInv, LogTypes, LogLine, LogRows
      <4>2. s \in Seq(LogRows) /\ Len(s) = l.upTo /\ \A n \in 1..Len(s) : s[n].n > 0
        BY <4>1
      <4> HIDE DEF s
      <4>3. PICK d \in Nat : /\ Len(lastLines(s)) + d = Len(s) /\ Len(lastLines(s)) <= MAX_LINES
                             /\ \A i \in 1..Len(lastLines(s)) : lastLines(s)[i] = s[i + d]
        BY <4>2, LastLines
      <4>4. DOMAIN lastLines(s) = 1..Len(lastLines(s)) /\ Len(lastLines(s)) \in Nat /\ Len(s) \in Nat
        BY <4>2, LastLines, LenProperties
      <4>5. \A i \in 1..Len(lastLines(s)) : i + d \in 1..Len(s)
        BY <4>3, <4>4
      <4>6. lines' = lastLines(s)
        BY <3>3 DEF s
      <4> QED
        BY <4>2, <4>3, <4>4, <4>5, <4>6
    <3> QED
      BY <3>1, <3>2, <3>3
  <2> QED
    BY <2>1, <2>2
<1>6. CASE StreamOpens
  <2>1. live.conn = "opening" /\ live' = [live EXCEPT !.conn = "open", !.everOpened = TRUE, !.failures = 0]
    BY <1>6 DEF StreamOpens
  <2>2. live'.failures = 0
    BY <2>1 DEF LogInv, LogTypes, Streams
  <2>3. stream' <= logged'[place'] + 1
    BY <1>6, <1>a DEF StreamOpens
  <2> QED
    BY <1>6, <1>a, <2>2, <2>3 DEF StreamOpens
<1>7. CASE StreamLine
  <2>1. /\ live.conn = "open" /\ stream <= logged[place] /\ lines' = lastLines(Append(lines, LogLine(place, stream)))
        /\ stream' = stream + 1 /\ UNCHANGED <<logged, allLogged, logMounted, place, loads, live, acts>>
    BY <1>7 DEF StreamLine
  <2>2. stream' <= logged'[place'] + 1
    BY <1>a, <2>1 DEF LogInv, LogTypes
  <2> DEFINE s == Append(lines, LogLine(place, stream))
  <2>3. LogLine(place, stream) \in LogRows /\ LogLine(place, stream).n = stream /\ stream \in Nat \ {0}
    BY <2>1 DEF LogInv, LogTypes, StreamHolds, LogLine, LogRows
  <2>4. s \in Seq(LogRows) /\ Len(s) = Len(lines) + 1 /\ (\A i \in 1..Len(lines) : s[i] = lines[i]) /\ s[Len(lines) + 1].n = stream
    BY <2>3, AppendProperties DEF LogInv, LogTypes
  <2>5. Len(lines) \in Nat /\ DOMAIN lines = 1..Len(lines) /\ \A i \in 1..Len(lines) : lines[i].n > 0
    BY LenProperties DEF LogInv, LogTypes
  <2> HIDE DEF s
  <2>6. \A i \in 1..Len(s) : s[i].n > 0
    <3> SUFFICES ASSUME NEW i \in 1..Len(s) PROVE s[i].n > 0
      OBVIOUS
    <3>1. i \in 1..Len(lines) \/ i = Len(lines) + 1
      BY <2>4, <2>5
    <3> QED
      BY <2>3, <2>4, <2>5, <3>1
  <2>7. PICK d \in Nat : /\ Len(lastLines(s)) + d = Len(s) /\ Len(lastLines(s)) <= MAX_LINES
                         /\ \A i \in 1..Len(lastLines(s)) : lastLines(s)[i] = s[i + d]
    BY <2>4, LastLines
  <2>8. DOMAIN lastLines(s) = 1..Len(lastLines(s)) /\ Len(lastLines(s)) \in Nat /\ Len(s) \in Nat
    BY <2>4, LastLines, LenProperties
  <2>9. \A i \in 1..Len(lastLines(s)) : i + d \in 1..Len(s)
    BY <2>7, <2>8
  <2>10. lines' = lastLines(s)
    BY <2>1 DEF s
  <2>11. Len(lines') <= MAX_LINES /\ \A i \in DOMAIN lines' : lines'[i].n > 0
    BY <2>6, <2>7, <2>8, <2>9, <2>10
  <2> QED
    BY <2>1, <2>2, <2>11
<1>8. CASE StreamDrops \/ StreamRetries
  <2>1. /\ stream' \in {0, stream} /\ acts' \in 0..MaxActs
        /\ UNCHANGED <<logged, allLogged, logMounted, place, lines, loads>>
    BY <1>8, <1>b DEF StreamDrops, StreamRetries
  <2>2. live \in Streams /\ live.failures \in Nat
    BY DEF LogInv, LogTypes, Streams
  <2>4. retried.failures <= MAX_RECONNECTS
    <3>1. CASE live.failures + 1 > MAX_RECONNECTS
      BY <1>a, <3>1 DEF retried
    <3>2. CASE ~(live.failures + 1 > MAX_RECONNECTS)
      <4>1. retried = [live EXCEPT !.conn = "retry", !.failures = @ + 1]
        BY <3>2 DEF retried
      <4>2. retried.failures = live.failures + 1
        BY <2>2, <4>1 DEF Streams
      <4> QED
        BY <2>2, <3>2, <4>2, LogViewAssumption
    <3> QED
      BY <3>1, <3>2
  <2>5. live'.failures <= MAX_RECONNECTS
    <3>1. \/ live' = [live EXCEPT !.transport = "sse"] \/ live' = retried
          \/ live' = [live EXCEPT !.conn = "opening"]
      BY <1>8 DEF StreamDrops, StreamRetries
    <3>2. [live EXCEPT !.transport = "sse"].failures = live.failures /\ [live EXCEPT !.conn = "opening"].failures = live.failures
      BY <2>2 DEF Streams
    <3> QED
      BY <2>4, <3>1, <3>2
  <2> QED
    BY <1>a, <2>1, <2>5
<1>9. CASE UNCHANGED logVars
  BY <1>9 DEF logVars
<1> QED
  BY <1>1, <1>2, <1>3, <1>4, <1>5, <1>6, <1>7, <1>8, <1>9 DEF LogNext

LEMMA LogTyped == LogSpec => []LogTypeOK
  BY LogFirst, LogStep, LogBoundsFirst, LogBoundsStep, LogBounded, PTL DEF LogSpec

-----------------------------------------------------------------------------
(* What a page knows of the instances, and who follows a job.              *)

\* A connection is tried as long as it has not failed too often.
FeedHolds ==
    /\ FeedTypeOK
    /\ boot # "done" => failedOpenings = 0 /\ statusSocket = "none" /\ ~retryTimer
    /\ statusSocket # "none" \/ retryTimer => failedOpenings < MAX_FAILED_OPENINGS
    /\ statusSocket = "open" => everOpened

LEMMA AnswersTaken ==
    ASSUME asked \in Seq(1..Pending), MaxChanges \in Nat
    PROVE  /\ \A i \in DOMAIN asked : without(i) \in Seq(1..Pending) /\ asked[i] \in 1..Pending
           /\ \A i \in DOMAIN asked : asked[i] # Pending => asked[i] \in 1..(MaxChanges + 1)
           /\ \A i \in DOMAIN asked, n \in 1..(MaxChanges + 1) : [asked EXCEPT ![i] = n] \in Seq(1..Pending)
           /\ Append(asked, Pending) \in Seq(1..Pending)
<1>1. Len(asked) \in Nat /\ DOMAIN asked = 1..Len(asked) /\ \A i \in 1..Len(asked) : asked[i] \in 1..Pending
  BY LenProperties, ElementOfSeq
<1>2. ASSUME NEW i \in 1..Len(asked) PROVE without(i) \in Seq(1..Pending)
  <2>1. i - 1 \in Int /\ i + 1 \in Int /\ \A j \in 1..(i - 1) : j \in 1..Len(asked)
    BY <1>1
  <2>2. \A j \in (i + 1)..Len(asked) : j \in 1..Len(asked)
    BY <1>1
  <2>3. SubSeq(asked, 1, i - 1) \in Seq(1..Pending)
    BY <1>1, <2>1, SubSeqProperties
  <2>4. SubSeq(asked, i + 1, Len(asked)) \in Seq(1..Pending)
    BY <1>1, <2>1, <2>2, SubSeqProperties
  <2> QED
    BY <2>3, <2>4, ConcatProperties DEF without
<1>3. Pending \in 1..Pending /\ \A n \in 1..(MaxChanges + 1) : n \in 1..Pending
  BY DEF Pending
<1>4. \A i \in 1..Len(asked), n \in 1..(MaxChanges + 1) : [asked EXCEPT ![i] = n] \in Seq(1..Pending)
  BY <1>3, ExceptSeq
<1>5. Append(asked, Pending) \in Seq(1..Pending)
  BY <1>3, AppendProperties
<1>6. \A n \in 1..Pending : n # Pending => n \in 1..(MaxChanges + 1)
  BY DEF Pending
<1> QED
  BY <1>1, <1>2, <1>4, <1>5, <1>6

LEMMA FeedFirst == FeedInit => FeedHolds
<1> SUFFICES ASSUME FeedInit PROVE FeedHolds
  OBVIOUS
<1>1. <<>> \in Seq(1..(MaxChanges + 1)) /\ <<>> \in Seq(1..Pending)
  BY EmptySeq
<1>2. /\ 1 \in 1..(MaxChanges + 1) /\ 0 \in 0..(MaxChanges + 1) /\ 1 \in 0..(MaxChanges + 1)
      /\ 0 \in 0..MAX_FAILED_OPENINGS /\ 0 < MAX_FAILED_OPENINGS /\ 0 \in 0..MaxFaults
  BY StatusFeedAssumption
<1>3. FeedTypeOK
  BY <1>1, <1>2 DEF FeedInit, FeedTypeOK, Unread
<1> QED
  BY <1>2, <1>3 DEF FeedInit, FeedHolds

LEMMA FeedStep == FeedHolds /\ [FeedNext]_feedVars => FeedHolds'
<1> SUFFICES ASSUME FeedHolds, [FeedNext]_feedVars PROVE FeedHolds'
  OBVIOUS
<1>a. /\ 0 \in 0..(MaxChanges + 1) /\ 0 < MAX_FAILED_OPENINGS /\ 0 \in 0..MAX_FAILED_OPENINGS
      /\ <<>> \in Seq(1..(MaxChanges + 1)) /\ \A n \in 1..(MaxChanges + 1) : n \in 0..(MaxChanges + 1)
  BY StatusFeedAssumption, EmptySeq
<1>b. asked \in Seq(1..Pending) /\ MaxChanges \in Nat
  BY StatusFeedAssumption DEF FeedHolds, FeedTypeOK
<1>c. /\ \A i \in DOMAIN asked : without(i) \in Seq(1..Pending)
      /\ \A i \in DOMAIN asked : asked[i] # Pending => asked[i] \in 1..(MaxChanges + 1)
      /\ \A i \in DOMAIN asked, n \in 1..(MaxChanges + 1) : [asked EXCEPT ![i] = n] \in Seq(1..Pending)
      /\ Append(asked, Pending) \in Seq(1..Pending)
  BY <1>b, AnswersTaken
<1>d. fault => faults' \in 0..MaxFaults
  BY StatusFeedAssumption DEF fault, FeedHolds, FeedTypeOK
<1>e. ask => asked' \in Seq(1..Pending)
  BY <1>c DEF ask
<1>f. ASSUME UNCHANGED <<truth, socketVars, boot>>, asked' \in Seq(1..Pending), known' \in 0..(MaxChanges + 1),
             visible' \in BOOLEAN, overtaken' \in BOOLEAN, faults' \in 0..MaxFaults
      PROVE  FeedHolds'
  BY <1>f DEF socketVars, FeedHolds, FeedTypeOK
<1>g. /\ known \in 0..(MaxChanges + 1) /\ truth \in 1..(MaxChanges + 1) /\ visible \in BOOLEAN /\ overtaken \in BOOLEAN
      /\ faults \in 0..MaxFaults
  BY DEF FeedHolds, FeedTypeOK
<1>1. CASE Change
  <2>1. truth' \in 1..(MaxChanges + 1)
    BY <1>1, <1>b, <1>g DEF Change
  <2> QED
    BY <1>1, <2>1 DEF Change, socketVars, FeedHolds, FeedTypeOK
<1>2. CASE BootDetect
  BY <1>2, <1>e DEF BootDetect, socketVars, FeedHolds, FeedTypeOK
<1>3. CASE BootDone
  BY <1>a, <1>3 DEF BootDone, FeedHolds, FeedTypeOK
<1>4. CASE SocketOpens
  BY <1>a, <1>4 DEF SocketOpens, Unread, FeedHolds, FeedTypeOK
<1>5. CASE ServerPushes
  <2>1. Append(channel, truth) \in Seq(1..(MaxChanges + 1))
    BY <1>g, AppendProperties DEF FeedHolds, FeedTypeOK
  <2> QED
    BY <1>5, <1>a, <1>g, <2>1 DEF ServerPushes, FeedHolds, FeedTypeOK
<1>6. CASE PushArrives
  <2>1. Head(channel) \in 1..(MaxChanges + 1) /\ Tail(channel) \in Seq(1..(MaxChanges + 1))
    BY <1>6, HeadTailProperties DEF PushArrives, FeedHolds, FeedTypeOK
  <2>2. overtaken' \in BOOLEAN /\ known' \in 0..(MaxChanges + 1)
    BY <1>6, <1>a, <2>1 DEF PushArrives
  <2> QED
    BY <1>6, <2>1, <2>2 DEF PushArrives, FeedHolds, FeedTypeOK
<1>7. CASE SocketCloses
  <2>1. failedOpenings \in 0..MAX_FAILED_OPENINGS /\ failedOpenings < MAX_FAILED_OPENINGS /\ everOpened \in BOOLEAN
    BY <1>7 DEF SocketCloses, FeedHolds, FeedTypeOK
  <2>2. failedOpenings' \in 0..MAX_FAILED_OPENINGS
    BY <1>7, <2>1, StatusFeedAssumption DEF SocketCloses
  <2>3. retryTimer' \in BOOLEAN /\ (retryTimer' => failedOpenings' < MAX_FAILED_OPENINGS)
    BY <1>7, <2>1 DEF SocketCloses
  <2>4. boot = "done"
    BY <1>7 DEF SocketCloses, FeedHolds
  <2> QED
    BY <1>7, <1>a, <1>d, <2>2, <2>3, <2>4 DEF SocketCloses, FeedHolds, FeedTypeOK
<1>8. CASE Reconnects
  BY <1>8 DEF Reconnects, FeedHolds, FeedTypeOK
<1>9. CASE PollTick
  BY <1>9, <1>e, <1>f, <1>g DEF PollTick
<1>10. CASE PageDetects
  BY <1>10, <1>d, <1>e, <1>f, <1>g DEF PageDetects
<1>11. CASE ServerAnswers
  <2>1. asked' \in Seq(1..Pending)
    BY <1>11, <1>c, <1>g DEF ServerAnswers
  <2> QED
    BY <1>11, <1>f, <1>g, <2>1 DEF ServerAnswers
<1>12. CASE AnswerArrives
  <2>1. asked' \in Seq(1..Pending) /\ known' \in 0..(MaxChanges + 1) /\ overtaken' \in BOOLEAN
    BY <1>12, <1>a, <1>c DEF AnswerArrives
  <2> QED
    BY <1>12, <1>f, <1>g, <2>1 DEF AnswerArrives
<1>13. CASE RequestFails
  <2>1. asked' \in Seq(1..Pending)
    BY <1>13, <1>c DEF RequestFails
  <2> QED
    BY <1>13, <1>d, <1>f, <1>g, <2>1 DEF RequestFails
<1>14. CASE TabHidden
  BY <1>14, <1>b, <1>d, <1>f, <1>g DEF TabHidden
<1>15. CASE UNCHANGED feedVars
  BY <1>15 DEF feedVars, FeedHolds, FeedTypeOK
<1> QED
  BY <1>1, <1>2, <1>3, <1>4, <1>5, <1>6, <1>7, <1>8, <1>9, <1>10, <1>11, <1>12, <1>13, <1>14, <1>15
  DEF FeedNext, FeedProgress

\* Nothing that was read or pushed is later than the state of the instances.
OfThePast ==
    /\ known <= truth
    /\ \A i \in DOMAIN channel : channel[i] <= truth
    /\ \A i \in DOMAIN asked : asked[i] # Pending => asked[i] <= truth

\* What is pushed last on an open connection is known or on its way, or was overtaken; and
\* a page without a connection asks at intervals.
PushedIsKnown ==
    statusLive /\ pushed # Unread =>
        IF channel = <<>> THEN known >= pushed \/ overtaken
                          ELSE channel[Len(channel)] = pushed

FeedInv ==
    /\ FeedHolds /\ OfThePast /\ PushedIsKnown
    /\ boot = "done" /\ statusSocket = "none" => pollTimer

LEMMA FeedInvFirst == FeedInit => FeedInv
  BY FeedFirst DEF FeedInit, FeedInv, OfThePast, PushedIsKnown, statusLive, Unread

\* What is left of the requests under way is part of them.
LEMMA AnswersLeft ==
    ASSUME asked \in Seq(1..Pending), NEW i \in DOMAIN asked, NEW j \in DOMAIN without(i)
    PROVE  \E k \in DOMAIN asked : without(i)[j] = asked[k]
<1> DEFINE before == SubSeq(asked, 1, i - 1)
           after == SubSeq(asked, i + 1, Len(asked))
<1>1. Len(asked) \in Nat /\ DOMAIN asked = 1..Len(asked) /\ \A k \in 1..Len(asked) : asked[k] \in 1..Pending
  BY LenProperties, ElementOfSeq
<1>2. /\ before \in Seq(1..Pending) /\ Len(before) = i - 1
      /\ \A k \in 1..(i - 1) : before[k] = asked[k]
  <2>1. i - 1 \in Int /\ 1 \in Int /\ \A k \in 1..(i - 1) : asked[k] \in 1..Pending
    BY <1>1
  <2>2. /\ before \in Seq(1..Pending)
        /\ Len(before) = IF 1 <= i - 1 THEN i - 1 - 1 + 1 ELSE 0
        /\ \A k \in 1..(i - 1 - 1 + 1) : before[k] = asked[1 + k - 1]
    BY <2>1, SubSeqProperties
  <2>3. \A k \in 1..(i - 1) : k \in 1..(i - 1 - 1 + 1) /\ 1 + k - 1 = k
    BY <1>1
  <2>4. Len(before) = i - 1
    BY <1>1, <2>2
  <2> HIDE DEF before
  <2> QED
    BY <2>2, <2>3, <2>4
<1>3. /\ after \in Seq(1..Pending) /\ Len(after) = Len(asked) - i
      /\ \A k \in 1..(Len(asked) - i) : after[k] = asked[i + k]
  <2>1. i + 1 \in Int /\ Len(asked) \in Int /\ \A k \in (i + 1)..Len(asked) : asked[k] \in 1..Pending
    BY <1>1
  <2>2. /\ after \in Seq(1..Pending)
        /\ Len(after) = IF i + 1 <= Len(asked) THEN Len(asked) - (i + 1) + 1 ELSE 0
        /\ \A k \in 1..(Len(asked) - (i + 1) + 1) : after[k] = asked[i + 1 + k - 1]
    BY <2>1, SubSeqProperties
  <2>3. \A k \in 1..(Len(asked) - i) : k \in 1..(Len(asked) - (i + 1) + 1) /\ i + 1 + k - 1 = i + k
    BY <1>1
  <2>4. Len(after) = Len(asked) - i
    BY <1>1, <2>2
  <2> HIDE DEF after
  <2> QED
    BY <2>2, <2>3, <2>4
<1> HIDE DEF before, after
<1>4. /\ Len(before \o after) = Len(before) + Len(after)
      /\ DOMAIN (before \o after) = 1..Len(before \o after)
      /\ \A k \in 1..(Len(before) + Len(after)) :
            (before \o after)[k] = IF k <= Len(before) THEN before[k] ELSE after[k - Len(before)]
  BY <1>2, <1>3, ConcatProperties, LenProperties
<1>5. without(i) = before \o after
  BY DEF without, before, after
<1>6. j \in 1..(Len(asked) - 1)
  BY <1>1, <1>2, <1>3, <1>4, <1>5
<1>7. CASE j <= i - 1
  <2>1. without(i)[j] = asked[j] /\ j \in DOMAIN asked
    BY <1>1, <1>2, <1>3, <1>4, <1>5, <1>6, <1>7
  <2> QED
    BY <2>1
<1>8. CASE ~(j <= i - 1)
  <2>1. j - (i - 1) \in 1..(Len(asked) - i) /\ i + (j - (i - 1)) = j + 1 /\ j + 1 \in DOMAIN asked
    BY <1>1, <1>6, <1>8
  <2>2. without(i)[j] = after[j - (i - 1)]
    BY <1>1, <1>2, <1>3, <1>4, <1>5, <1>6, <1>8
  <2>3. without(i)[j] = asked[j + 1]
    BY <1>3, <2>1, <2>2
  <2> QED
    BY <2>1, <2>3
<1> QED
  BY <1>7, <1>8

LEMMA FeedInvStep == FeedInv /\ [FeedNext]_feedVars => FeedInv'
<1> SUFFICES ASSUME FeedInv, [FeedNext]_feedVars PROVE FeedInv'
  OBVIOUS
<1>a. FeedHolds /\ FeedHolds'
  BY FeedStep DEF FeedInv
<1>b. /\ truth \in Int /\ known \in Int /\ pushed \in Int /\ overtaken \in BOOLEAN /\ truth >= 1
      /\ channel \in Seq(1..(MaxChanges + 1)) /\ asked \in Seq(1..Pending) /\ MaxChanges \in Nat
  BY <1>a, StatusFeedAssumption DEF FeedHolds, FeedTypeOK
<1>c. /\ Len(channel) \in Nat /\ DOMAIN channel = 1..Len(channel) /\ \A i \in 1..Len(channel) : channel[i] \in Int
      /\ Len(asked) \in Nat /\ DOMAIN asked = 1..Len(asked) /\ \A i \in 1..Len(asked) : asked[i] \in Int
  <2>1. Len(channel) \in Nat /\ DOMAIN channel = 1..Len(channel) /\ \A i \in 1..Len(channel) : channel[i] \in 1..(MaxChanges + 1)
    BY <1>b, LenProperties, ElementOfSeq
  <2>2. Len(asked) \in Nat /\ DOMAIN asked = 1..Len(asked) /\ \A i \in 1..Len(asked) : asked[i] \in 1..Pending
    BY <1>b, LenProperties, ElementOfSeq
  <2> QED
    BY <2>1, <2>2
<1>d. OfThePast /\ PushedIsKnown /\ (boot = "done" /\ statusSocket = "none" => pollTimer)
  BY DEF FeedInv
\* What is left alone when only what was asked changes.
<1>e. ASSUME UNCHANGED <<truth, socketVars, boot>>,
             \A i \in DOMAIN asked' : asked'[i] # Pending => asked'[i] <= truth,
             UNCHANGED <<known, overtaken>>
      PROVE  FeedInv'
  BY <1>a, <1>d, <1>e DEF socketVars, FeedInv, OfThePast, PushedIsKnown, statusLive
<1>f. ask => \A i \in DOMAIN asked' : asked'[i] # Pending => asked'[i] <= truth
  <2> SUFFICES ASSUME ask, NEW i \in DOMAIN asked', asked'[i] # Pending PROVE asked'[i] <= truth
    OBVIOUS
  <2>1. asked' = Append(asked, Pending) /\ Pending \in 1..Pending
    BY <1>b DEF ask, Pending
  <2>2. /\ Len(asked') = Len(asked) + 1 /\ asked'[Len(asked) + 1] = Pending /\ DOMAIN asked' = 1..(Len(asked) + 1)
        /\ \A j \in 1..Len(asked) : asked'[j] = asked[j]
    BY <1>b, <2>1, AppendProperties, LenProperties
  <2>3. i \in DOMAIN asked /\ asked'[i] = asked[i]
    BY <1>c, <2>2
  <2> QED
    BY <1>d, <2>3 DEF OfThePast
<1>g. ASSUME NEW i \in DOMAIN asked, asked' = without(i)
      PROVE  \A j \in DOMAIN asked' : asked'[j] # Pending => asked'[j] <= truth
  BY <1>b, <1>d, <1>g, AnswersLeft DEF OfThePast
<1>1. CASE Change
  <2>1. truth' = truth + 1 /\ UNCHANGED <<socketVars, asked, known, boot, overtaken>>
    BY <1>1 DEF Change
  <2>2. OfThePast'
    BY <1>b, <1>c, <1>d, <2>1 DEF OfThePast, socketVars, Pending
  <2> QED
    BY <1>a, <1>d, <2>1, <2>2 DEF FeedInv, PushedIsKnown, statusLive, socketVars
<1>2. CASE BootDetect
  BY <1>2, <1>a, <1>d, <1>f DEF BootDetect, socketVars, FeedInv, OfThePast, PushedIsKnown, statusLive
<1>3. CASE BootDone
  BY <1>3, <1>a, <1>d DEF BootDone, FeedInv, OfThePast, PushedIsKnown, statusLive
<1>4. CASE SocketOpens
  BY <1>4, <1>a, <1>d DEF SocketOpens, FeedInv, OfThePast, PushedIsKnown, statusLive
<1>5. CASE ServerPushes
  <2>1. /\ channel' = Append(channel, truth) /\ pushed' = truth
        /\ UNCHANGED <<truth, statusSocket, pollTimer, asked, known, boot, overtaken>>
    BY <1>5 DEF ServerPushes
  <2>2. truth \in 1..(MaxChanges + 1)
    BY <1>a DEF FeedHolds, FeedTypeOK
  <2>3. /\ Len(channel') = Len(channel) + 1 /\ channel'[Len(channel) + 1] = truth
        /\ DOMAIN channel' = 1..(Len(channel) + 1) /\ \A j \in 1..Len(channel) : channel'[j] = channel[j]
        /\ channel' # <<>>
    BY <1>b, <2>1, <2>2, AppendProperties, LenProperties
  <2>4. \A j \in DOMAIN channel' : channel'[j] <= truth
    BY <1>b, <1>c, <1>d, <2>3 DEF OfThePast
  <2> QED
    BY <1>a, <1>d, <2>1, <2>3, <2>4 DEF FeedInv, OfThePast, PushedIsKnown, statusLive
<1>6. CASE PushArrives
  <2>1. /\ channel # <<>> /\ known' = Head(channel) /\ channel' = Tail(channel)
        /\ overtaken' = (overtaken /\ Len(channel) > 1)
        /\ UNCHANGED <<truth, pushed, statusSocket, pollTimer, asked, boot>>
    BY <1>6 DEF PushArrives
  <2>2. /\ Head(channel) = channel[1] /\ Len(channel') = Len(channel) - 1 /\ Len(channel) >= 1
        /\ \A j \in 1..(Len(channel) - 1) : channel'[j] = channel[j + 1]
        /\ channel' \in Seq(1..(MaxChanges + 1))
    BY <1>b, <1>c, <2>1, HeadTailProperties, EmptySeq
  <2>3. DOMAIN channel' = 1..(Len(channel) - 1)
    BY <2>2, LenProperties
  <2>4. known' <= truth /\ \A j \in DOMAIN channel' : channel'[j] <= truth
    BY <1>c, <1>d, <2>1, <2>2, <2>3 DEF OfThePast
  <2>5. PushedIsKnown'
    <3>1. CASE Len(channel) = 1
      <4>1. channel' = <<>> /\ known' = channel[Len(channel)]
        BY <2>1, <2>2, <3>1, EmptySeq
      <4> QED
        BY <1>b, <1>d, <2>1, <4>1 DEF PushedIsKnown, statusLive
    <3>2. CASE Len(channel) # 1
      <4>1. channel'[Len(channel')] = channel[Len(channel)] /\ channel' # <<>>
        BY <1>c, <2>2, <3>2, EmptySeq
      <4> QED
        BY <1>d, <2>1, <4>1 DEF PushedIsKnown, statusLive
    <3> QED
      BY <3>1, <3>2
  <2> QED
    BY <1>a, <1>d, <2>1, <2>4, <2>5 DEF FeedInv, OfThePast
<1>7. CASE SocketCloses
  BY <1>7, <1>a, <1>d DEF SocketCloses, FeedInv, OfThePast, PushedIsKnown, statusLive
<1>8. CASE Reconnects
  BY <1>8, <1>a, <1>d DEF Reconnects, FeedInv, OfThePast, PushedIsKnown, statusLive
<1>9. CASE PollTick \/ PageDetects
  BY <1>9, <1>e, <1>f DEF PollTick, PageDetects
<1>10. CASE ServerAnswers
  <2>1. PICK i \in DOMAIN asked : asked' = [asked EXCEPT ![i] = truth]
    BY <1>10 DEF ServerAnswers
  <2>2. \A j \in DOMAIN asked' : asked'[j] # Pending => asked'[j] <= truth
    BY <1>b, <1>d, <2>1 DEF OfThePast
  <2> QED
    BY <1>10, <1>e, <2>2 DEF ServerAnswers
<1>11. CASE AnswerArrives
  <2>1. PICK i \in DOMAIN asked :
           /\ asked[i] # Pending /\ known' = asked[i] /\ asked' = without(i)
           /\ overtaken' = (overtaken \/ asked[i] < known)
    BY <1>11 DEF AnswerArrives
  <2>2. UNCHANGED <<truth, socketVars, boot>>
    BY <1>11 DEF AnswerArrives
  <2>3. asked[i] \in Int /\ asked[i] <= truth
    BY <1>c, <1>d, <2>1 DEF OfThePast
  <2>4. OfThePast'
    BY <1>d, <1>g, <2>1, <2>2, <2>3 DEF OfThePast, socketVars
  <2>5. PushedIsKnown'
    <3>1. known >= pushed \/ overtaken => asked[i] >= pushed \/ (overtaken \/ asked[i] < known)
      BY <1>b, <2>3
    <3> QED
      BY <1>d, <2>1, <2>2, <3>1 DEF PushedIsKnown, statusLive, socketVars
  <2> QED
    BY <1>a, <1>d, <2>2, <2>4, <2>5 DEF FeedInv, socketVars
<1>12. CASE RequestFails
  BY <1>12, <1>e, <1>g DEF RequestFails
<1>13. CASE TabHidden \/ UNCHANGED feedVars
  BY <1>13, <1>e, <1>d DEF TabHidden, feedVars, socketVars, OfThePast
<1> QED
  BY <1>1, <1>2, <1>3, <1>4, <1>5, <1>6, <1>7, <1>8, <1>9, <1>10, <1>11, <1>12, <1>13
  DEF FeedNext, FeedProgress

LEMMA WatchStep == WatchTypeOK /\ [WatchNext]_watchVars => WatchTypeOK'
<1> SUFFICES ASSUME WatchTypeOK, [WatchNext]_watchVars PROVE WatchTypeOK'
  OBVIOUS
<1> USE UpdateWatchAssumption DEF WatchTypeOK
<1>1. CASE SectionMount \/ UploadBegins \/ UploadRefused \/ ServerEnds \/ PanelRestarts \/ UpdatePanel \/ PanelTick
  <2>1. jobs' \in 0..MaxJobs /\ UNCHANGED <<follower, panelLanguage>> /\ watchFaults' \in 0..MaxWatchFaults
    BY <1>1 DEF SectionMount, UploadBegins, UploadRefused, startJob, ServerEnds, JobEnds, PanelUpdateEnds, PanelRestarts, UpdatePanel, PanelTick, faulty
  <2>2. sectionShown' \in BOOLEAN /\ job' \in {"none", "running", "success", "failed", "receiving", "stuck"}
    BY <1>1 DEF SectionMount, UploadBegins, UploadRefused, startJob, ServerEnds, JobEnds, PanelUpdateEnds, PanelRestarts, UpdatePanel, PanelTick
  <2>3. panelLog' \in {"empty", "working", "error", "restarting"} /\ panelFollow' \in {"no", "waiting", "failed", "reloading", "left"}
    BY <1>1 DEF SectionMount, UploadBegins, UploadRefused, startJob, ServerEnds, JobEnds, PanelUpdateEnds, PanelRestarts, UpdatePanel, PanelTick
  <2> QED
    BY <2>1, <2>2, <2>3
<1>2. CASE SectionUnmount \/ PageReloads
  <2>1. \A k \in Followers : [follower[k] EXCEPT !.step = "left"] \in
           [of : {"section", "dashboard"}, read : {"none", "running", "success", "failed", "receiving", "stuck"},
            step : {"unused", "asking", "read", "waiting", "told", "left"}]
    OBVIOUS
  <2>2. CASE SectionUnmount
    <3>1. panelFollow' \in {"no", "waiting", "failed", "reloading", "left"} /\ watchFaults' \in 0..MaxWatchFaults
      BY <2>2 DEF SectionUnmount, faulty
    <3> QED
      BY <2>1, <2>2, <3>1 DEF SectionUnmount
  <2>3. CASE PageReloads
    BY <2>1, <2>3 DEF PageReloads
  <2> QED
    BY <1>2, <2>2, <2>3
<1>3. CASE StartFollowing \/ UploadReceived
  BY <1>3 DEF StartFollowing, UploadReceived, startJob, follow, faulty
<1>4. CASE \E k \in Followers : FollowStep(k) \/ TickFails(k)
  BY <1>4 DEF FollowStep, LogAnswered, Tick, TickAgain, TickFails, moves, faulty
<1>5. CASE UNCHANGED watchVars
  BY <1>5 DEF watchVars
<1> QED
  BY <1>1, <1>2, <1>3, <1>4, <1>5 DEF WatchNext

LEMMA WatchFirst == WatchInit => WatchTypeOK
<1>1. 0 \in 0..MaxJobs /\ 0 \in 0..MaxWatchFaults
  BY UpdateWatchAssumption
<1>2. Unused \in [of : {"section", "dashboard"}, read : {"none", "running", "success", "failed", "receiving", "stuck"},
                  step : {"unused", "asking", "read", "waiting", "told", "left"}]
  BY DEF Unused
<1> SUFFICES ASSUME WatchInit PROVE WatchTypeOK
  OBVIOUS
<1>3. follower \in [Followers -> [of : {"section", "dashboard"}, read : {"none", "running", "success", "failed", "receiving", "stuck"},
                                 step : {"unused", "asking", "read", "waiting", "told", "left"}]]
  BY <1>2 DEF WatchInit
<1> QED
  BY <1>1, <1>3 DEF WatchInit, WatchTypeOK

-----------------------------------------------------------------------------
(* The parts side by side.                                                 *)

\* A behaviour of Web is one of each part.
LEMMA FirstOfEach ==
    WebInit => /\ part \in Parts
               /\ FeedInit /\ DashInit /\ LogInit /\ ConfigInit /\ TunnelsInit /\ WatchInit /\ FwPageInit /\ StatsInit
  BY DEF WebInit

LEMMA StepOfEach ==
    [WebNext]_webVars =>
        /\ UNCHANGED part
        /\ [FeedNext]_feedVars /\ [DashNext]_dashVars /\ [LogNext]_logVars /\ [ConfigNext]_configVars
        /\ [TunnelsNext]_tunnelsVars /\ [WatchNext]_watchVars /\ [FwPageNext]_fwPageVars /\ [StatsNext]_statsVars
<1>1. CASE WebNext
  <2>1. CASE InText \/ InFileText
    BY <2>1 DEF InText, InFileText
  <2>2. CASE InFeed
    BY <2>2 DEF InFeed
  <2>3. CASE InDashboard
    BY <2>3 DEF InDashboard
  <2>4. CASE InLog
    BY <2>4 DEF InLog
  <2>5. CASE InConfig
    BY <2>5 DEF InConfig
  <2>6. CASE InTunnels
    BY <2>6 DEF InTunnels
  <2>7. CASE InWatch
    BY <2>7 DEF InWatch
  <2>8. CASE InFirewall
    BY <2>8 DEF InFirewall
  <2>9. CASE InStats
    BY <2>9 DEF InStats
  <2> QED
    BY <1>1, <2>1, <2>2, <2>3, <2>4, <2>5, <2>6, <2>7, <2>8, <2>9 DEF WebNext
<1>2. CASE UNCHANGED webVars
  BY <1>2 DEF webVars
<1> QED
  BY <1>1, <1>2

LEMMA EachPart ==
    WebSpec => /\ [](part \in Parts)
               /\ FeedInit /\ [][FeedNext]_feedVars /\ WatchInit /\ [][WatchNext]_watchVars
               /\ DashSpec /\ LogSpec /\ ConfigSpec /\ TunnelsSpec /\ FwPageSpec /\ StatsSpec
<1>1. part \in Parts /\ UNCHANGED part => (part \in Parts)'
  OBVIOUS
<1> QED
  BY <1>1, FirstOfEach, StepOfEach, PTL
  DEF WebSpec, DashSpec, LogSpec, ConfigSpec, TunnelsSpec, FwPageSpec, StatsSpec

(* Every part of the web interface and the receiver of statistics keep to  *)
(* their types and bounds.                                                 *)
THEOREM WebTypeCorrect == WebSpec => []WebTypeOK
<1>1. FeedInit /\ [][FeedNext]_feedVars => []FeedTypeOK
  <2>1. FeedHolds => FeedTypeOK
    BY DEF FeedHolds
  <2> QED
    BY <2>1, FeedFirst, FeedStep, PTL
<1>2. WatchInit /\ [][WatchNext]_watchVars => []WatchTypeOK
  BY WatchFirst, WatchStep, PTL
<1>3. DashSpec => []DashTypeOK
  <2>1. DashInv => DashTypeOK
    BY DEF DashInv, DashTypes, ServerTyped, CardsTyped, ListsTyped, CountsTyped, States, LoadRecords, DashTypeOK
  <2> QED
    BY <2>1, DashFirst, DashStep, PTL DEF DashSpec
<1>4. ConfigSpec => []ConfigTypeOK
  BY ConfigFirst, ConfigStep, ConfigShapesFirst, ConfigShapesStep, ConfigTyped, PTL DEF ConfigSpec
<1>5. TunnelsSpec => []TunnelsTypeOK
  BY TunnelsHoldFirst, TunnelsHoldStep, TunnelsShapesFirst, TunnelsShapesStep, TunnelsTyped, PTL DEF TunnelsSpec
<1>6. FwPageSpec => []FwPageTypeOK
  BY FwFirst, FwStep, FwShapesFirst, FwShapesStep, FwTyped, PTL DEF FwPageSpec
<1>7. /\ part \in Parts /\ FeedTypeOK /\ WatchTypeOK /\ DashTypeOK /\ LogTypeOK /\ ConfigTypeOK /\ TunnelsTypeOK
      /\ FwPageTypeOK /\ StatsTypeOK
      => WebTypeOK
  BY DEF WebTypeOK
<1> QED
  BY <1>1, <1>2, <1>3, <1>4, <1>5, <1>6, <1>7, LogTyped, StatsTypeCorrect, EachPart, PTL

(* What each page promises holds when the parts are explored side by side: *)
(* the parts share no state, so a behaviour of the whole is one of each.   *)
THEOREM PartsKeepTheirWord ==
    WebSpec => []/\ LogShowsSelection /\ SaveKeepsOthers /\ SavedTunnelsAreSound
                 /\ RulesInTheOpen /\ DashboardSettles /\ StatsLimits
  BY SelectionShown, FormWritesItsOwn, TunnelsStaySound, NobodyCutOffUnawares, DashboardAgrees, LimitsHold,
     EachPart, PTL

(* A page is never left with a stale state: what it does not show is being *)
(* pushed or is due, or the page will ask (store.js).                      *)
THEOREM StaleNeverForgotten == WebSpec => []StaleIsPending
<1>1. FeedInv => StaleIsPending
  <2> SUFFICES ASSUME FeedInv, boot = "done", known # truth, statusSocket # "opening",
                      ~(statusSocket = "none" /\ pollTimer)
               PROVE  statusLive /\ (channel # <<>> \/ pushed # truth \/ overtaken)
    BY DEF StaleIsPending
  <2>1. statusSocket \in {"none", "opening", "open"} /\ truth \in Int /\ known \in Int /\ pushed \in Int /\ truth >= 1
    BY StatusFeedAssumption DEF FeedInv, FeedHolds, FeedTypeOK
  <2>2. statusSocket = "open"
    BY <2>1 DEF FeedInv
  <2>3. ASSUME channel = <<>>, pushed = truth PROVE overtaken
    BY <2>1, <2>2, <2>3 DEF FeedInv, OfThePast, PushedIsKnown, statusLive, Unread
  <2> QED
    BY <2>2, <2>3 DEF statusLive
<1> QED
  BY <1>1, FeedInvFirst, FeedInvStep, EachPart, PTL
=============================================================================
