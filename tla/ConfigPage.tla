----------------------------- MODULE ConfigPage -----------------------------
(***************************************************************************)
(* The Configuration page (assets/js/pages/config.js): a form on the file  *)
(* of one instance.  Saving reads the file again and writes back only the  *)
(* keys of the fields changed since the form was filled, so that what      *)
(* others wrote meanwhile stays.                                           *)
(*                                                                         *)
(* Abstracted: the schema is some keys, one of them under the switch of its*)
(* section; ConnectionText models what merging does to the text.  One save *)
(* at a time.  The server (routes.go) is reduced to the file, as it reads  *)
(* and writes it; others write it too.                                     *)
(***************************************************************************)
EXTENDS Naturals, FiniteSets

CONSTANTS
    ConfigInstances,
    ConfigKeys,          \* TOML keys of the schema
    FirstFile,           \* what a file has at first, when there is one
    SwitchedKeys,        \* the keys written only when the switch of their section is on
    MaxEdits,            \* bound: what the user types or clicks
    MaxWrites,           \* bound: what others do to the files
    MaxFormLoads         \* bound: loads under way

VARIABLES
    configFile,    \* values in the file of each instance, NoFile without one
    othersWrote,       \* ghost: the keys of each file that only others have written, with the value they gave
    formMounted, formOf,   \* the page is shown; S.iid, which it keeps when it is not
    controls,      \* what the fields show; NoForm while there is none
    loaded,        \* S.loaded
    bracketed,     \* S.bracketed: keys read with brackets
    snapshot,      \* S.snapshot: NoForm, or the values and the bracketed keys of the reference
    formLoads,     \* load() under way: [iid, discarded, answer]
    saving,        \* save() under way, or Idle
    editedKeys,    \* ghost: keys the user changed since the form was filled
    edits, writes

configVars == <<configFile, othersWrote, formMounted, formOf, controls, loaded, bracketed, snapshot, formLoads, saving,
                editedKeys, edits, writes>>

NoForm == [k \in {} |-> "none"]
NoFile == NoForm
Idle == [step |-> "idle"]
Unasked == [unasked |-> "yes"]

\* What a file has for a key: nothing, a value, or an address between brackets, written "[b]".
Typed == {"def", "b", "c"}
InFile == Typed \cup {"absent", "[b]"}

ASSUME ConfigPageAssumption ==
    /\ SwitchedKeys \subseteq ConfigKeys /\ "switch" \notin ConfigKeys
    /\ FirstFile \in [ConfigKeys -> InFile] /\ ConfigInstances # {}
    /\ {MaxEdits, MaxWrites} \subseteq Nat /\ MaxFormLoads \in Nat \ {0}

unbracket(v) == IF v = "[b]" THEN "b" ELSE v
Switch == "switch"
FieldNames == ConfigKeys \cup {Switch}

isOn(file) == \E k \in SwitchedKeys : file[k] # "absent"
read(file, k) == IF k \in DOMAIN file THEN file[k] ELSE "absent"
\* buildFields: each control has the value read, or the default one.
filled(file) == [f \in FieldNames |->
                   IF f = Switch THEN (IF file # NoFile /\ isOn(file) THEN "on" ELSE "off")
                   ELSE IF read(file, f) = "absent" THEN "def" ELSE unbracket(file[f])]
inBrackets(file) == {k \in ConfigKeys : read(file, k) = "[b]"}

\* generateServer, generateClient: the keys of a section that is off are left out.
generatedFrom(v) == [k \in ConfigKeys |-> IF k \in SwitchedKeys /\ v[Switch] = "off" THEN "absent" ELSE v[k]]

isDirty == snapshot # NoForm /\ (controls # snapshot.values \/ snapshot.toFix # {})
changed(f) == controls[f] # loaded[f]
\* (Variant: every key is written.)
allKeys == ConfigKeys

touchedKeys == {k \in ConfigKeys : changed(k) \/ (k \in SwitchedKeys /\ changed(Switch)) \/ k \in bracketed}

\* mergeIntoFile, once the file has been read again.
mergeIntoFile(file, v, touched) ==
    IF file = NoFile THEN generatedFrom(v)
    ELSE [k \in ConfigKeys |-> IF k \in touched THEN generatedFrom(v)[k] ELSE file[k]]

ConfigInit ==
    /\ configFile \in [ConfigInstances -> {FirstFile, NoFile}]
    /\ othersWrote = configFile
    /\ formMounted = FALSE /\ formOf = CHOOSE i \in ConfigInstances : TRUE
    /\ controls = NoForm /\ loaded = NoForm /\ bracketed = {} /\ snapshot = NoForm
    /\ formLoads = {} /\ saving = Idle /\ editedKeys = {} /\ edits = 0 /\ writes = 0

acted == edits < MaxEdits /\ edits' = edits + 1

\* load(): the form is emptied and the file asked for.
askFor(i, discarded, reference) ==
    /\ controls' = NoForm /\ bracketed' = {} /\ editedKeys' = {} /\ snapshot' = reference
    /\ Cardinality(formLoads) < MaxFormLoads
    /\ formLoads' = formLoads \cup {[iid |-> i, discarded |-> discarded, answer |-> Unasked]}
    /\ UNCHANGED loaded

\* A save under way writes to the instance selected when it comes to that.
movedFrom == IF saving.step = "idle" THEN Idle ELSE [saving EXCEPT !.crossed = TRUE]

ConfigMount ==
    /\ ~formMounted /\ acted /\ formMounted' = TRUE
    /\ \E i \in ConfigInstances : formOf' = i /\ askFor(i, FALSE, NoForm)
    /\ saving' = IF formOf' = formOf THEN saving ELSE movedFrom
    /\ UNCHANGED <<configFile, othersWrote, writes>>

ConfigUnmount ==
    /\ formMounted /\ acted /\ formMounted' = FALSE
    /\ UNCHANGED <<configFile, othersWrote, formOf, controls, editedKeys, loaded, bracketed, snapshot, formLoads, saving, writes>>

\* The user may confirm leaving unsaved changes, a save under way or not.
SelectForm ==
    /\ formMounted /\ acted
    /\ \E i \in ConfigInstances \ {formOf} : formOf' = i /\ askFor(i, FALSE, snapshot)
    /\ saving' = movedFrom
    /\ UNCHANGED <<configFile, othersWrote, formMounted, writes>>

DiscardForm ==
    /\ formMounted /\ controls # NoForm /\ isDirty /\ acted
    /\ askFor(formOf, TRUE, NoForm)
    /\ UNCHANGED <<configFile, othersWrote, formMounted, formOf, saving, writes>>

FileAnswered ==
    /\ \E l \in formLoads :
          /\ l.answer = Unasked
          /\ formLoads' = (formLoads \ {l}) \cup {[l EXCEPT !.answer = configFile[l.iid]]}
    /\ UNCHANGED <<configFile, othersWrote, formMounted, formOf, controls, loaded, bracketed, snapshot, saving, editedKeys,
                   edits, writes>>

\* load(), its end: whatever instance was asked for, its file fills the form.
FormFilled ==
    /\ \E l \in formLoads :
          /\ l.answer # Unasked /\ formLoads' = formLoads \ {l}
          /\ IF ~formMounted
             THEN UNCHANGED <<controls, loaded, bracketed, snapshot, editedKeys>>
             ELSE /\ controls' = filled(l.answer) /\ loaded' = filled(l.answer) /\ editedKeys' = {}
                  /\ bracketed' = bracketed \cup inBrackets(l.answer)
                  /\ snapshot' = [values |-> filled(l.answer),
                                  toFix |-> IF l.discarded THEN {} ELSE bracketed \cup inBrackets(l.answer)]
    /\ UNCHANGED <<configFile, othersWrote, formMounted, formOf, saving, edits, writes>>

FormLoadFails ==
    /\ acted /\ \E l \in formLoads : formLoads' = formLoads \ {l}
    /\ UNCHANGED <<configFile, othersWrote, formMounted, formOf, controls, loaded, bracketed, snapshot, saving, editedKeys, writes>>

EditField ==
    /\ formMounted /\ controls # NoForm /\ acted
    /\ \/ \E k \in ConfigKeys, v \in Typed :
             controls' = [controls EXCEPT ![k] = v] /\ editedKeys' = editedKeys \cup {k}
       \/ /\ controls' = [controls EXCEPT ![Switch] = IF @ = "on" THEN "off" ELSE "on"]
          /\ editedKeys' = editedKeys \cup SwitchedKeys
    /\ UNCHANGED <<configFile, othersWrote, formMounted, formOf, loaded, bracketed, snapshot, formLoads, saving, writes>>

\* save(): the values and the keys to write are those of this moment.
ClickSave ==
    /\ formMounted /\ controls # NoForm /\ isDirty /\ saving = Idle /\ acted
    /\ saving' = [step |-> "reading", iid |-> formOf, values |-> controls, touched |-> touchedKeys,
                  mine |-> editedKeys \cup bracketed, content |-> NoFile, crossed |-> FALSE]
    /\ UNCHANGED <<configFile, othersWrote, formMounted, formOf, controls, loaded, bracketed, snapshot, formLoads, editedKeys, writes>>

SaveReadsAgain ==
    /\ saving.step = "reading"
    /\ saving' = [saving EXCEPT !.step = "writing",
                     !.content = mergeIntoFile(configFile[saving.iid], saving.values, saving.touched)]
    /\ UNCHANGED <<configFile, othersWrote, formMounted, formOf, controls, loaded, bracketed, snapshot, formLoads, editedKeys,
                   edits, writes>>

\* readBackError, inlineRefused, a POST refused: the form stays as it is.
SaveFails ==
    /\ saving # Idle /\ acted /\ saving' = Idle
    /\ UNCHANGED <<configFile, othersWrote, formMounted, formOf, controls, loaded, bracketed, snapshot, formLoads, editedKeys, writes>>

\* The server writes; S.iid is read again for the address.
SaveWrites ==
    /\ saving.step = "writing"
    /\ configFile' = [configFile EXCEPT ![formOf] = saving.content]
    /\ othersWrote' = [othersWrote EXCEPT ![formOf] =
                         IF saving.crossed THEN NoFile ELSE [k \in DOMAIN @ \ saving.mine |-> @[k]]]
    /\ saving' = [saving EXCEPT !.step = "written"]
    /\ UNCHANGED <<formMounted, formOf, controls, loaded, bracketed, snapshot, formLoads, editedKeys, edits, writes>>

\* The fields of this moment become the reference.
SaveAnswered ==
    /\ saving.step = "written"
    /\ loaded' = controls /\ bracketed' = {} /\ editedKeys' = {}
    /\ snapshot' = [values |-> controls, toFix |-> {}]
    /\ saving' = Idle
    /\ UNCHANGED <<configFile, othersWrote, formMounted, formOf, controls, formLoads, edits, writes>>

\* Another page, an editor, or the deletion of the file.
OthersWrite ==
    /\ writes < MaxWrites /\ writes' = writes + 1
    /\ \E i \in ConfigInstances :
          /\ \/ \E k \in ConfigKeys, v \in {"absent", "c"} :
                   /\ configFile[i] # NoFile /\ configFile[i][k] # v
                   /\ configFile' = [configFile EXCEPT ![i][k] = v]
                   /\ othersWrote' = [othersWrote EXCEPT ![i] = [x \in DOMAIN @ \cup {k} |-> IF x = k THEN v ELSE @[x]]]
             \/ /\ configFile[i] # NoFile
                /\ configFile' = [configFile EXCEPT ![i] = NoFile]
                /\ othersWrote' = [othersWrote EXCEPT ![i] = NoFile]
          /\ saving' = IF saving.step = "writing" THEN [saving EXCEPT !.crossed = TRUE] ELSE saving
    /\ UNCHANGED <<formMounted, formOf, controls, loaded, bracketed, snapshot, formLoads, editedKeys, edits>>

ConfigNext ==
    \/ ConfigMount \/ ConfigUnmount \/ SelectForm \/ DiscardForm \/ FileAnswered \/ FormFilled \/ FormLoadFails
    \/ EditField \/ ClickSave \/ SaveReadsAgain \/ SaveFails \/ SaveWrites \/ SaveAnswered \/ OthersWrite
ConfigSpec == ConfigInit /\ [][ConfigNext]_configVars

ConfigTypeOK ==
    /\ \A i \in ConfigInstances : configFile[i] = NoFile \/ configFile[i] \in [ConfigKeys -> InFile]
    /\ formMounted \in BOOLEAN /\ formOf \in ConfigInstances
    /\ controls = NoForm \/ DOMAIN controls = FieldNames
    /\ bracketed \subseteq ConfigKeys /\ editedKeys \subseteq ConfigKeys /\ Cardinality(formLoads) <= MaxFormLoads
    /\ saving.step \in {"idle", "reading", "writing", "written"} /\ edits \in 0..MaxEdits /\ writes \in 0..MaxWrites

(* What others wrote in a file stays until the user changes that very      *)
(* setting on the page: saving never takes another setting back to what the*)
(* form had shown, however old the form, even one filled by a late answer. *)
(* Not held to it: a file written between the second reading and the       *)
(* writing, and a save during which another instance is selected (its      *)
(* content is then written to that one).                                   *)
SaveKeepsOthers ==
    \A i \in ConfigInstances : \A k \in DOMAIN othersWrote[i] :
        configFile[i] # NoFile /\ configFile[i][k] = othersWrote[i][k]
=============================================================================
