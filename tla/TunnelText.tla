----------------------------- MODULE TunnelText -----------------------------
(***************************************************************************)
(* The tunnels of an frpc file (assets/js/toml.js): parseToml reads them,  *)
(* with the comments around them; pairProxies shows a tcp and a udp tunnel *)
(* that differ in nothing else as one "TCP + UDP" entry; a save writes the *)
(* whole file again, composeClientConfig.                                  *)
(*                                                                         *)
(* Abstracted: a file is a sequence of lines; the values of a block that   *)
(* the interface knows are one "body" (its local address, ports, options), *)
(* written as a key that is not the default's; every other key of a block  *)
(* is an extra.  White space, quoting, numbers in other forms, the inline  *)
(* form of blocks and values on several lines are left out: prep and the   *)
(* scanners of parseToml bring them to these lines.                        *)
(***************************************************************************)
EXTENDS Naturals, Sequences, FiniteSets, SequencesExt

CONSTANTS
    FileParts,     \* what a hand-written file is made of: sequences of lines
    PairNames,     \* the names X of a "TCP + UDP" entry: <<X, X-tcp, X-udp>>
    MaxParts       \* bound: parts of the file

VARIABLES
    file,          \* the lines of the file
    parts,         \* the parts it was written with
    edited,        \* what the page did to the list before it saved: "none" yet, "nothing",
                   \* "removed" the first entry, "added" one
    saved          \* what the save has written

fileVars == <<file, parts, edited, saved>>

\* A line: a "note", a "set" (a content line outside blocks), the head of a "table", the "range" line
\* of a template, its "end", the head of a "proxies" or a "visitors" block, a "key" of a block, the
\* head of a "sub"-table of a block.  `eol` is the comment at the end of the line, if any.
Line(kind, id) == [is |-> kind, id |-> <<"", id>>, val |-> "", eol |-> ""]
BlockKey(id, val) == [Line("key", "") EXCEPT !.id = id, !.val = val]
Noted(line, note) == [line EXCEPT !.eol = note]
Note(id) == Line("note", id)
isNote(line) == line.is = "note"
BlockKinds == {"proxies", "visitors"}
isBlock(line) == line.is \in BlockKinds

----------------------------------------------------------------------------
\* parseToml, one line after the other.

Reading == [blocks |-> <<>>, inBlock |-> FALSE, prefix |-> "", range |-> "",
            comments |-> <<>>, seenBlock |-> FALSE, anyContent |-> FALSE]
NewBlock(line, r) ==
    [kind |-> line.is, range |-> r.range, comments |-> r.comments, headEol |-> line.eol, keys |-> <<>>]

readBlockHead(r, line) ==
    [r EXCEPT !.blocks = Append(@, NewBlock(line, r)), !.inBlock = TRUE, !.prefix = "",
              !.range = "", !.comments = <<>>, !.seenBlock = TRUE]
readHead(r, line) ==
    IF line.is = "sub" /\ r.inBlock
    THEN [r EXCEPT !.prefix = line.id[2], !.comments = IF line.eol = "" THEN @ ELSE Append(@, line.eol)]
    ELSE [r EXCEPT !.inBlock = FALSE, !.prefix = "", !.anyContent = TRUE, !.comments = <<>>]
\* A key keeps the comments above it and the one at its end.
readKey(r, line) ==
    LET id == IF r.prefix = "" THEN line.id ELSE <<r.prefix, line.id[2]>>
        k == [id |-> id, val |-> line.val, before |-> r.comments, eol |-> line.eol]
    IN  IF r.inBlock
        THEN [r EXCEPT !.blocks[Len(r.blocks)].keys = Append(@, k), !.comments = <<>>]
        ELSE [r EXCEPT !.anyContent = TRUE, !.comments = <<>>]

readLine(r, line) ==
    CASE isNote(line) -> IF r.seenBlock \/ r.anyContent
                         THEN [r EXCEPT !.comments = Append(@, line.id[2])] ELSE r
      [] line.is = "range" -> [r EXCEPT !.range = line.id[2],
                                        !.comments = IF line.eol = "" THEN @ ELSE Append(@, line.eol)]
      [] line.is = "end" -> IF line.eol = "" THEN r ELSE [r EXCEPT !.comments = Append(@, line.eol)]
      [] isBlock(line) -> readBlockHead(r, line)
      [] line.is \in {"sub", "table"} -> readHead(r, line)
      [] line.is \in {"key", "set"} -> readKey(r, line)

parseToml(doc) == FoldLeft(readLine, Reading, doc)
trailingOf(doc) == parseToml(doc).comments

\* findBlock: the line the first block starts at, its "range" line and the notes between included.
findBlock(doc) ==
    LET starts == {i \in DOMAIN doc : \E j \in i..Len(doc) :
                     /\ isBlock(doc[j])
                     /\ i = j \/ (doc[i].is = "range" /\ \A k \in (i + 1)..(j - 1) : isNote(doc[k]))}
    IN  IF starts = {} THEN 0 ELSE Min(starts)

\* (Variant: the comments in front of the first block stay, though they are the block's.)
dropNothing(base) == base

dropTrailingComments(base) ==
    LET said == {i \in DOMAIN base : ~isNote(base[i])}
    IN  IF said = {} THEN base ELSE SubSeq(base, 1, Max(said))
\* The connection part.
stripBlocks(doc) ==
    IF findBlock(doc) = 0 THEN doc
    ELSE dropTrailingComments(SubSeq(doc, 1, findBlock(doc) - 1))

----------------------------------------------------------------------------
\* tablesAfterBlocks: tables written after the first block, with the comments above them.

Scanning == [out |-> <<>>, seen |-> FALSE, inTable |-> FALSE, buf |-> <<>>, above |-> <<>>]
trimBuf(buf, kinds) ==
    LET said == {i \in DOMAIN buf : buf[i].is \notin kinds}
    IN  IF said = {} THEN <<>> ELSE SubSeq(buf, 1, Max(said))
scanLine(s, line) ==
    CASE isBlock(line) ->
            [s EXCEPT !.out = IF s.inTable THEN @ \o trimBuf(s.buf, {"note", "range"}) ELSE @,
                      !.buf = IF s.inTable THEN <<>> ELSE @, !.inTable = FALSE, !.seen = TRUE]
      [] ~isBlock(line) /\ ~s.seen -> s
      [] s.seen /\ line.is = "table" ->
            [s EXCEPT !.buf = Append(IF s.inTable THEN @ ELSE s.above, line), !.inTable = TRUE]
      [] OTHER ->
            IF s.inTable THEN [s EXCEPT !.buf = Append(@, line)]
            ELSE [s EXCEPT !.above = IF isNote(line) THEN Append(@, line) ELSE <<>>]

tablesAfterBlocks(doc) ==
    LET s == FoldLeft(scanLine, Scanning, doc)
    IN  IF s.inTable THEN s.out \o trimBuf(s.buf, {"note"}) ELSE s.out

----------------------------------------------------------------------------
\* The entries of the page.  proxyFromBlock, visitorFromBlock: what is known of a block, and its
\* extras; the comments of its keys stay with the keys.

KnownIds == {"name", "type", "body"}
knownOf(block, id) ==
    LET at == {k \in DOMAIN block.keys : block.keys[k].id = <<"", id>>}
    IN  IF at = {} THEN "" ELSE block.keys[Max(at)].val
extrasOf(block) ==
    SelectSeq([k \in DOMAIN block.keys |-> [id |-> block.keys[k].id, val |-> block.keys[k].val]],
              LAMBDA k : ~(k.id[1] = "" /\ k.id[2] \in KnownIds))
fromBlock(block) ==
    [kind |-> block.kind, name |-> knownOf(block, "name"),
     type |-> IF knownOf(block, "type") # "" THEN knownOf(block, "type")
              ELSE IF block.kind = "proxies" THEN "tcp" ELSE "stcp",
     body |-> knownOf(block, "body"), range |-> block.range, headEol |-> block.headEol,
     extras |-> extrasOf(block),
     comments |-> block.comments,
     notes |-> SelectSeq([k \in DOMAIN block.keys |->
                             [id |-> block.keys[k].id, before |-> block.keys[k].before,
                              eol |-> block.keys[k].eol]],
                         LAMBDA n : n.before # <<>> \/ n.eol # ""),
     udp |-> <<>>]

ofKind(doc, kind) ==
    LET blocks == parseToml(doc).blocks
    IN  SelectSeq([b \in DOMAIN blocks |-> fromBlock(blocks[b])], LAMBDA p : p.kind = kind)

mateOf(list, i) ==
    {j \in DOMAIN list :
        /\ list[i].type = "tcp" /\ list[j].type = "udp" /\ list[i].body # "noport"
        /\ \E x \in PairNames : list[i].name = x[2] /\ list[j].name = x[3]
        /\ list[j].body = list[i].body /\ list[j].range = list[i].range
        /\ list[j].extras = list[i].extras}
pairProxies(list) ==
    LET taken(m) == {pair[2] : pair \in m}
        find(m, i) == IF mateOf(list, i) \ taken(m) = {} THEN m
                      ELSE m \cup {<<i, Min(mateOf(list, i) \ taken(m))>>}
        mates == FoldLeft(find, {}, [i \in DOMAIN list |-> i])
        base(m) == CHOOSE x \in PairNames : x[2] = list[m[1]].name
        both(m) == [list[m[1]] EXCEPT !.name = base(m)[1], !.type = "both",
                       !.udp = <<[comments |-> list[m[2]].comments, notes |-> list[m[2]].notes,
                                  headEol |-> list[m[2]].headEol]>>]
        entry(i) == IF \E m \in mates : i = Max({m[1], m[2]}) THEN <<>>
                    ELSE IF \E m \in mates : i = Min({m[1], m[2]})
                         THEN <<both(CHOOSE m \in mates : i = Min({m[1], m[2]}))>>
                         ELSE <<list[i]>>
    IN  FlattenSeq([i \in DOMAIN list |-> entry(i)])

splitPair(p) ==
    IF p.type # "both" THEN <<p>>
    ELSE LET udp == p.udp[1]
             x == CHOOSE x \in PairNames : x[1] = p.name
             tcp == [p EXCEPT !.udp = <<>>]
         IN  <<[tcp EXCEPT !.name = x[2], !.type = "tcp"],
               [tcp EXCEPT !.name = x[3], !.type = "udp", !.comments = udp.comments,
                           !.notes = udp.notes, !.headEol = udp.headEol]>>

----------------------------------------------------------------------------
\* generateProxy, generateVisitor, annotate: the lines of an entry, its comments around them.

annotate(lines, notes) ==
    LET notesOf(line) == SelectSeq(notes, LAMBDA n : n.id = line.id)
        annotated(line) == IF notesOf(line) = <<>> THEN <<line>>
                           ELSE LET n == Last(notesOf(line))
                                IN  Append([c \in DOMAIN n.before |-> Note(n.before[c])],
                                           Noted(line, n.eol))
    IN  FlattenSeq([l \in DOMAIN lines |-> annotated(lines[l])])

generated(p) ==
    LET key(id, val) == IF val = "" THEN <<>> ELSE <<BlockKey(<<"", id>>, val)>>
        lines == key("name", p.name) \o key("type", p.type) \o key("body", p.body)
                 \o [k \in DOMAIN p.extras |-> BlockKey(p.extras[k].id, p.extras[k].val)]
    IN  [c \in DOMAIN p.comments |-> Note(p.comments[c])]
        \o (IF p.range = "" THEN <<>> ELSE <<Line("range", p.range)>>)
        \o <<Noted(Line(p.kind, ""), p.headEol)>>
        \o annotate(lines, p.notes)
        \o (IF p.range = "" THEN <<>> ELSE <<Line("end", "")>>)

composeClientConfig(doc, proxies, visitors) ==
    LET blocks == [b \in DOMAIN proxies |-> FlattenSeq([h \in DOMAIN splitPair(proxies[b]) |->
                                                generated(splitPair(proxies[b])[h])])]
                  \o [b \in DOMAIN visitors |-> generated(visitors[b])]
        comments == trailingOf(doc)
        trailing == [c \in DOMAIN comments |-> Note(comments[c])]
        first == findBlock(doc) = 0 /\ blocks # <<>> /\ trailing # <<>>
        base == IF first THEN dropTrailingComments(stripBlocks(doc)) ELSE stripBlocks(doc)
    IN  base \o tablesAfterBlocks(doc) \o (IF first THEN trailing ELSE <<>>) \o FlattenSeq(blocks)
        \o (IF findBlock(doc) = 0 THEN <<>> ELSE trailing)

----------------------------------------------------------------------------

FileInit == file = <<>> /\ parts = {} /\ edited = "none" /\ saved = <<>>

\* A setting outside tunnels is under no block, a key of a tunnel is under one.
Placed(doc) ==
    \A i \in DOMAIN doc : doc[i].is \in {"set", "key", "sub"} =>
        LET heads == {j \in 1..(i - 1) : doc[j].is = "table" \/ isBlock(doc[j])}
        IN  (doc[i].is = "set") <=> (heads = {} \/ ~isBlock(doc[Max(heads)]))

\* Somebody writes the file by hand.
WritePart ==
    /\ edited = "none" /\ Cardinality(parts) < MaxParts
    /\ \E part \in FileParts \ parts : file' = file \o part /\ parts' = parts \cup {part}
    /\ Placed(file')
    /\ UNCHANGED <<edited, saved>>

\* newProxy, filled in.
FreshProxy == [kind |-> "proxies", name |-> "new", type |-> "tcp", body |-> "local", range |-> "",
               headEol |-> "", extras |-> <<>>, comments |-> <<>>, notes |-> <<>>, udp |-> <<>>]

\* The page reads the file, the list is edited and saved.
SaveList ==
    /\ edited = "none" /\ file # <<>>
    /\ edited' \in {"nothing", "removed", "added"}
    /\ LET list == pairProxies(ofKind(file, "proxies"))
           visitors == ofKind(file, "visitors")
       IN  /\ edited' = "removed" => list # <<>>
           /\ saved' = composeClientConfig(file, CASE edited' = "nothing" -> list
                                                   [] edited' = "removed" -> Tail(list)
                                                   [] edited' = "added" -> Append(list, FreshProxy),
                                            visitors)
    /\ UNCHANGED <<file, parts>>

FileNext == WritePart \/ SaveList
FileSpec == FileInit /\ [][FileNext]_fileVars

----------------------------------------------------------------------------
\* What a file says.

Comments(doc) == {doc[i].id[2] : i \in {j \in DOMAIN doc : isNote(doc[j])}}
                 \cup {doc[i].eol : i \in {j \in DOMAIN doc : doc[j].eol # ""}}
Twice(doc) == \E i, j \in DOMAIN doc : i < j /\ isNote(doc[i]) /\ doc[i] = doc[j]
\* Each content line outside tunnels, with the table it is in.
Outside(doc) ==
    LET heads(i) == {j \in 1..(i - 1) : doc[j].is = "table" \/ isBlock(doc[j])}
    IN  {<<doc[i].id, IF heads(i) = {} THEN Line("table", "") ELSE doc[Max(heads(i))]>> :
            i \in {j \in DOMAIN doc : doc[j].is = "set"}}
\* The tunnels, one record each.
Tunnels(doc) ==
    {[p EXCEPT !.notes = Range(@), !.extras = Range(@)] :
        p \in Range(ofKind(doc, "proxies")) \cup Range(ofKind(doc, "visitors"))}
EntryTunnels(p) == {[h EXCEPT !.notes = Range(@), !.extras = Range(@)] : h \in Range(splitPair(p))}

\* Nothing but comments before the first block (frpc has its server in no other place): comments
\* are then the file's, and change place, or go, with the first block.
OnlyBlocks(doc) == findBlock(doc) # 0 /\ \A i \in 1..(findBlock(doc) - 1) : isNote(doc[i])

(* A save of the page keeps what it does not show: every setting outside    *)
(* the tunnels, under its table; every comment, once, in the place the      *)
(* tunnel or the key it belongs to has; and every tunnel that was neither   *)
(* removed nor added, with all its keys.  Saved again, the file stays as    *)
(* it is.                                                                   *)
SaveKeepsFile ==
    edited # "none" /\ ~OnlyBlocks(file) =>
        LET list == pairProxies(ofKind(file, "proxies"))
            gone == IF edited = "removed" THEN EntryTunnels(Head(list)) ELSE {}
            come == IF edited = "added" THEN EntryTunnels(FreshProxy) ELSE {}
        IN  /\ Outside(saved) = Outside(file)
            /\ ~Twice(saved)
            /\ edited = "nothing" => Comments(saved) = Comments(file)
            /\ edited # "added" \/ findBlock(file) # 0 =>
                    Tunnels(saved) = (Tunnels(file) \ gone) \cup come
            /\ composeClientConfig(saved, pairProxies(ofKind(saved, "proxies")),
                                   ofKind(saved, "visitors")) = saved
=============================================================================
