----------------------------- MODULE TunnelsPage -----------------------------
(***************************************************************************)
(* The Tunnels page (assets/js/pages/tunnels.js): a draft of the tunnels of*)
(* one instance, edited in dialogs, written as a whole by the save bar,    *)
(* with or without a restart, and read again afterwards.                   *)
(*                                                                         *)
(* Abstracted: an entry is its name, its type and whether its port is one  *)
(* port or a range; visitors, a second list edited and saved the same way, *)
(* are left out; TunnelText models what is written.  A name is the sequence*)
(* of its parts ("a-tcp" is <<"a", "tcp">>).  One save at a time.          *)
(* The server (routes.go) is reduced to the file, as it reads and writes   *)
(* it; others write it too.                                                *)
(***************************************************************************)
EXTENDS Naturals, Sequences, FiniteSets

CONSTANTS
    TunnelInstances,
    NameParts,           \* what the names of tunnels are made of
    TypedNames,          \* names the user may type
    FirstTunnels,        \* what the files may have at first
    MaxTunnelActs,       \* bound: what the user does, and requests that fail
    MaxTunnelWrites,     \* bound: what others do to the files
    MaxListLoads         \* bound: loads under way

RangePorts == {"6000", "6001"}
Entry == [name : Seq(NameParts), type : {"tcp", "udp", "both"}, ranged : BOOLEAN]

\* splitPair, pairProxies.
splitEntry(p) == IF p.type # "both" THEN {p}
                 ELSE {[p EXCEPT !.name = Append(@, "tcp"), !.type = "tcp"],
                       [p EXCEPT !.name = Append(@, "udp"), !.type = "udp"]}
splitAll(list) == UNION {splitEntry(p) : p \in list}
pairs(tunnels) ==
    {p \in {[name |-> SubSeq(x.name, 1, Len(x.name) - 1), type |-> "both", ranged |-> x.ranged] :
              x \in {y \in tunnels : Len(y.name) > 1}} : splitEntry(p) \subseteq tunnels}
paired(tunnels) == pairs(tunnels) \cup (tunnels \ splitAll(pairs(tunnels)))

\* frpcNames, of every tunnel: those frpc refuses to have twice.
frpcNames(p) == UNION {IF x.ranged THEN {Append(x.name, port) : port \in RangePorts} ELSE {x.name} :
                       x \in splitEntry(p)}
frpcAccepts(tunnels) == \A x, y \in tunnels : x # y => frpcNames(x) \cap frpcNames(y) = {}
allNames(tunnels) == UNION {frpcNames(x) : x \in tunnels}

ASSUME TunnelsPageAssumption ==
    /\ {MaxTunnelActs, MaxTunnelWrites} \subseteq Nat /\ MaxListLoads \in Nat \ {0}
    /\ TunnelInstances # {} /\ {"tcp", "udp"} \cup RangePorts \subseteq NameParts /\ TypedNames \subseteq Seq(NameParts)
    /\ \A tunnels \in FirstTunnels : /\ tunnels \subseteq Entry /\ \A x \in tunnels : x.type # "both"
                                   /\ frpcAccepts(tunnels)

VARIABLES
    tunnelFile,   \* the tunnels in the file of each instance
    listMounted, listOf,   \* the page is shown; S.iid
    list,         \* S.proxies
    reference,    \* S.snapshot: <<>>, or the list it stands for
    listLoads,    \* load() under way
    dialog,       \* the editor: closed, or the entry it edits; `gone`: no longer in the list
    writing,      \* save() under way
    basis,        \* ghost: the list comes from what the file of S.iid has
    removed,      \* ghost: names the user took away since the list was read
    vanished,     \* ghost: names a save took away that the user had not
    tunnelActs, tunnelWrites

tunnelsVars == <<tunnelFile, listMounted, listOf, list, reference, listLoads, dialog, writing, basis,
                 removed, vanished, tunnelActs, tunnelWrites>>

Closed == [open |-> FALSE]
NotSaving == [step |-> "none"]
Unanswered == <<>>
listDirty == reference # <<>> /\ list # reference[1]
does == tunnelActs < MaxTunnelActs /\ tunnelActs' = tunnelActs + 1

TunnelsInit ==
    /\ tunnelFile \in [TunnelInstances -> FirstTunnels] /\ listMounted = FALSE /\ listOf = CHOOSE i \in TunnelInstances : TRUE
    /\ list = {} /\ reference = <<>> /\ listLoads = {} /\ dialog = Closed /\ writing = NotSaving
    /\ basis = FALSE /\ removed = {} /\ vanished = {} /\ tunnelActs = 0 /\ tunnelWrites = 0

\* load(): the list stays as it is until the answer.
askList(i) ==
    /\ Cardinality(listLoads) < MaxListLoads
    /\ listLoads' = listLoads \cup {[iid |-> i, answer |-> Unanswered]}

TunnelsMount ==
    /\ ~listMounted /\ does /\ listMounted' = TRUE
    /\ \E i \in TunnelInstances : listOf' = i /\ askList(i) /\ basis' = (basis /\ i = listOf)
    /\ reference' = <<>>
    /\ UNCHANGED <<tunnelFile, list, dialog, writing, removed, vanished, tunnelWrites>>

TunnelsUnmount ==
    /\ listMounted /\ ~dialog.open /\ does /\ listMounted' = FALSE
    /\ UNCHANGED <<tunnelFile, listOf, list, reference, listLoads, dialog, writing, basis, removed, vanished,
                   tunnelWrites>>

\* The user may confirm leaving a changed list, a save under way or not.
SelectTunnels ==
    /\ listMounted /\ ~dialog.open /\ does
    /\ \E i \in TunnelInstances \ {listOf} : listOf' = i /\ askList(i)
    /\ basis' = FALSE
    /\ UNCHANGED <<tunnelFile, listMounted, list, reference, dialog, writing, removed, vanished, tunnelWrites>>

DiscardList ==
    /\ listMounted /\ ~dialog.open /\ listDirty /\ does
    /\ reference' = <<>> /\ askList(listOf)
    /\ UNCHANGED <<tunnelFile, listMounted, listOf, list, dialog, writing, basis, removed, vanished, tunnelWrites>>

ListAnswered ==
    /\ \E l \in listLoads : /\ l.answer = Unanswered
                            /\ listLoads' = (listLoads \ {l}) \cup {[l EXCEPT !.answer = <<tunnelFile[l.iid]>>]}
    /\ UNCHANGED <<tunnelFile, listMounted, listOf, list, reference, dialog, writing, basis, removed, vanished,
                   tunnelActs, tunnelWrites>>

fillList(entries, current) ==
    /\ list' = entries /\ reference' = <<entries>> /\ removed' = {} /\ basis' = current
    /\ dialog' = IF dialog.open THEN [dialog EXCEPT !.gone = TRUE] ELSE dialog
    /\ writing' = IF writing.step = "posting" THEN [writing EXCEPT !.refilled = TRUE] ELSE writing

\* The answer fills the list, whatever instance is selected by then.
ListFilled ==
    /\ \E l \in listLoads :
          /\ l.answer # Unanswered /\ listLoads' = listLoads \ {l}
          /\ fillList(paired(l.answer[1]), l.iid = listOf /\ l.answer[1] = tunnelFile[listOf])
    /\ UNCHANGED <<tunnelFile, listMounted, listOf, vanished, tunnelActs, tunnelWrites>>

\* A load that fails leaves an empty list, which is then taken for the reference.
ListLoadFails ==
    /\ does /\ \E l \in listLoads : listLoads' = listLoads \ {l}
    /\ fillList({}, FALSE)
    /\ UNCHANGED <<tunnelFile, listMounted, listOf, vanished, tunnelWrites>>

OpenEditor ==
    /\ listMounted /\ ~dialog.open /\ does
    /\ \/ \E p \in list : dialog' = [open |-> TRUE, of |-> {p}, gone |-> FALSE]
       \/ dialog' = [open |-> TRUE, of |-> {}, gone |-> FALSE]
    /\ UNCHANGED <<tunnelFile, listMounted, listOf, list, reference, listLoads, writing, basis, removed, vanished,
                   tunnelWrites>>

\* (Variant: only the names of the list are compared.)
takenInList(others) == {p.name : p \in others}

\* submit: a single tunnel does not become TCP + UDP; no name of the entry may be that of another entry, or of one of its tunnels.
taken(others) == {p.name : p \in others} \cup UNION {frpcNames(p) : p \in others}
nameClash(p, others) == ({p.name} \cup frpcNames(p)) \cap taken(others) # {}
SubmitEditor ==
    /\ dialog.open
    /\ \E p \in [name : TypedNames, type : {"tcp", "both"}, ranged : BOOLEAN] :
          LET replaced == IF dialog.gone THEN {} ELSE dialog.of
          IN  /\ p.type = "both" => \A old \in dialog.of : old.type = "both"
              /\ ~nameClash(p, list \ replaced)
              /\ list' = IF dialog.of = {} \/ ~dialog.gone THEN (list \ replaced) \cup {p} ELSE list
              /\ removed' = removed \cup allNames(replaced)
    /\ dialog' = Closed
    /\ UNCHANGED <<tunnelFile, listMounted, listOf, reference, listLoads, writing, basis, vanished, tunnelActs,
                   tunnelWrites>>

CloseEditor ==
    /\ dialog.open /\ dialog' = Closed
    /\ UNCHANGED <<tunnelFile, listMounted, listOf, list, reference, listLoads, writing, basis, removed, vanished,
                   tunnelActs, tunnelWrites>>

RemoveTunnel ==
    /\ listMounted /\ ~dialog.open /\ does
    /\ \E p \in list : list' = list \ {p} /\ removed' = removed \cup frpcNames(p)
    /\ UNCHANGED <<tunnelFile, listMounted, listOf, reference, listLoads, dialog, writing, basis, vanished,
                   tunnelWrites>>

SaveTunnels ==
    /\ listMounted /\ ~dialog.open /\ listDirty /\ writing = NotSaving /\ does
    /\ writing' = [step |-> "reading"]
    /\ UNCHANGED <<tunnelFile, listMounted, listOf, list, reference, listLoads, dialog, basis, removed, vanished,
                   tunnelWrites>>

\* The rest of the file is read again, or as it was; the list and the address are those of now.
SaveComposes ==
    /\ writing.step = "reading"
    /\ writing' = [step |-> "posting", to |-> listOf, content |-> splitAll(list), removed |-> removed,
                   current |-> basis, refilled |-> FALSE]
    /\ UNCHANGED <<tunnelFile, listMounted, listOf, list, reference, listLoads, dialog, basis, removed, vanished,
                   tunnelActs, tunnelWrites>>

TunnelsWritten ==
    /\ writing.step = "posting"
    /\ tunnelFile' = [tunnelFile EXCEPT ![writing.to] = writing.content]
    /\ vanished' = IF ~writing.current THEN vanished
                   ELSE vanished \cup ((allNames(tunnelFile[writing.to]) \ allNames(writing.content)) \ writing.removed)
    /\ writing' = [step |-> "written"]
    /\ basis' = (basis /\ (writing.to = listOf => writing.current /\ ~writing.refilled))
    /\ UNCHANGED <<listMounted, listOf, list, reference, listLoads, dialog, removed, tunnelActs, tunnelWrites>>

\* The list of this moment becomes the reference; a restart may follow.
SaveConfirmed ==
    /\ writing.step = "written"
    /\ reference' = <<list>> /\ writing' = [step |-> "restarting"]
    /\ UNCHANGED <<tunnelFile, listMounted, listOf, list, listLoads, dialog, basis, removed, vanished,
                   tunnelActs, tunnelWrites>>

\* The file is read again, also when the POST got no answer.
SaveReloads ==
    /\ IF writing.step = "restarting" THEN UNCHANGED tunnelActs
       ELSE writing.step \in {"posting", "written"} /\ does
    /\ writing' = NotSaving
    /\ IF listMounted THEN askList(listOf) ELSE UNCHANGED listLoads
    /\ UNCHANGED <<tunnelFile, listMounted, listOf, list, reference, dialog, basis, removed, vanished, tunnelWrites>>

\* Refused by the server: the draft stays.
SaveRefused ==
    /\ writing.step = "posting" /\ does /\ writing' = NotSaving
    /\ UNCHANGED <<tunnelFile, listMounted, listOf, list, reference, listLoads, dialog, basis, removed, vanished,
                   tunnelWrites>>

OthersWriteTunnels ==
    /\ tunnelWrites < MaxTunnelWrites /\ tunnelWrites' = tunnelWrites + 1
    /\ \E i \in TunnelInstances, tunnels \in FirstTunnels :
          /\ tunnels # tunnelFile[i] /\ tunnelFile' = [tunnelFile EXCEPT ![i] = tunnels]
          /\ basis' = (basis /\ i # listOf)
          /\ writing' = IF writing.step = "posting" /\ writing.to = i
                        THEN [writing EXCEPT !.current = FALSE] ELSE writing
    /\ UNCHANGED <<listMounted, listOf, list, reference, listLoads, dialog, removed, vanished, tunnelActs>>

TunnelsNext ==
    \/ TunnelsMount \/ TunnelsUnmount \/ SelectTunnels \/ DiscardList \/ ListAnswered \/ ListFilled \/ ListLoadFails
    \/ OpenEditor \/ SubmitEditor \/ CloseEditor \/ RemoveTunnel \/ SaveTunnels \/ SaveComposes \/ TunnelsWritten
    \/ SaveConfirmed \/ SaveReloads \/ SaveRefused \/ OthersWriteTunnels
TunnelsSpec == TunnelsInit /\ [][TunnelsNext]_tunnelsVars

TunnelsTypeOK ==
    /\ listMounted \in BOOLEAN /\ listOf \in TunnelInstances /\ DOMAIN tunnelFile = TunnelInstances
    /\ list \subseteq Entry /\ Len(reference) <= 1 /\ Cardinality(listLoads) <= MaxListLoads
    /\ writing.step \in {"none", "reading", "posting", "written", "restarting"}
    /\ basis \in BOOLEAN /\ tunnelActs \in 0..MaxTunnelActs /\ tunnelWrites \in 0..MaxTunnelWrites

(* frpc never gets two tunnels of one name, a range or a TCP + UDP pair    *)
(* counted for all its tunnels; and a save takes no tunnel away that the   *)
(* user did not remove or change.  The second is held only of a list that  *)
(* was read from what the file of the selected instance has: it is not so  *)
(* of the list of another instance that an earlier answer brought, of the  *)
(* empty list a failed load leaves, or of a file written meanwhile.        *)
SavedTunnelsAreSound ==
    vanished = {} /\ \A i \in TunnelInstances : frpcAccepts(tunnelFile[i])
=============================================================================
