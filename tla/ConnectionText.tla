--------------------------- MODULE ConnectionText ---------------------------
(***************************************************************************)
(* The Configuration form writes into the file that is there:              *)
(* mergeConnection (assets/js/toml.js) changes the keys touched in the     *)
(* form, each at its place, and leaves every other line alone.             *)
(*                                                                         *)
(* Abstracted: a text is a sequence of lines, one record for all the lines *)
(* of a value that takes several; a key is the sequence of its segments    *)
(* (dotted, quoted or spaced forms read the same); a value is a member of  *)
(* a small set, or an inline table: a sequence of items, nested once.      *)
(* White space, line endings and {{ else }} are left out.                  *)
(***************************************************************************)
EXTENDS Naturals, Sequences, FiniteSets, SequencesExt

CONSTANTS
    FormKeys,     \* the keys the form writes, in the order generateClient writes them
    TextLines,    \* the lines a hand-written file is made of
    FormEdits,    \* what may be touched: functions from keys to values or Undefined
    MaxText       \* bound: lines of the file

VARIABLES
    text,         \* the lines of the file
    form,         \* what the form has for the keys touched in it, or Undefined
    merge,        \* "none" yet, "written" or "refused"
    merged        \* what mergeConnection returned

textVars == <<text, form, merge, merged>>

\* A line is "blank", a "note" (comment), "open" or "close" ({{ if }}, {{ end }}), "key", the head
\* of a "table", of an unknown "array" of tables, of a "tunnel", or of a "sub"-table of a tunnel.
Bare(kind) == [is |-> kind, key |-> <<>>, val |-> [text |-> ""]]
HeadLine(kind, name) == [Bare(kind) EXCEPT !.key = name]
\* A key, with all the lines of its value (openDepth, multilineClose).
KeyLine(key, val) == [Bare("key") EXCEPT !.key = key, !.val = [text |-> val]]
InlineLine(key, items) == [Bare("key") EXCEPT !.key = key, !.val = [items |-> items]]
Item(key, val) == [key |-> key, val |-> val]

isTable(val) == "items" \in DOMAIN val
Plain(raw) == [text |-> raw]
\* `raw` of a key that the form does not generate any more.
Undefined == "undefined"

----------------------------------------------------------------------------
\* scanConnection.

HeadKinds == {"table", "array", "tunnel"}

\* The head a line is under: a sub-table of a tunnel is still inside its block.
headOf(doc, i) ==
    LET above == {j \in 1..(i - 1) : doc[j].is \in HeadKinds}
    IN  IF above = {} THEN 0 ELSE Max(above)
tableOf(doc, i) == IF headOf(doc, i) = 0 THEN <<>> ELSE doc[headOf(doc, i)].key

\* The entries: keys outside tunnels and outside unknown arrays.
entries(doc) ==
    {i \in DOMAIN doc : doc[i].is = "key"
        /\ (headOf(doc, i) # 0 => doc[headOf(doc, i)].is = "table")}
fullKey(doc, i) == tableOf(doc, i) \o doc[i].key
headers(doc) == {i \in DOMAIN doc : doc[i].is = "table"}
heads(doc) == {i \in DOMAIN doc : doc[i].is \in HeadKinds \cup {"sub"}}
firstBlock(doc) == {i \in DOMAIN doc : doc[i].is = "tunnel"}

\* depth[i]: template blocks open in front of line i.
depth(doc) ==
    LET d[i \in 1..(Len(doc) + 1)] ==
            IF i = 1 THEN 0
            ELSE CASE doc[i - 1].is = "open" -> d[i - 1] + 1
                   [] doc[i - 1].is = "close" -> IF d[i - 1] = 0 THEN 0 ELSE d[i - 1] - 1
                   [] OTHER -> d[i - 1]
    IN  d

----------------------------------------------------------------------------
\* Inline tables.

inlineDrop(items, k) == RemoveAt(items, k)
inlineAdd(items, key, raw) == Append(items, Item(key, Plain(raw)))

\* Writes or removes `path` in the items of an innermost table; {} when the key cannot be stored
\* there, the set of the one result otherwise.
innerSet(items, path, raw) ==
    LET at == {k \in DOMAIN items : items[k].key = path}
        clash == \E k \in DOMAIN items :
                    IsStrictPrefix(items[k].key, path) \/ IsStrictPrefix(path, items[k].key)
    IN  IF at # {}
        THEN LET k == Min(at)
             IN  IF raw = Undefined THEN {inlineDrop(items, k)}
                 ELSE {[items EXCEPT ![k].val = Plain(raw)]}
        ELSE IF clash THEN {}
        ELSE IF raw = Undefined THEN {items} ELSE {inlineAdd(items, path, raw)}

\* inlineSet: the same with the tables nested in this one; one that is emptied goes with its key.
inlineSet(items, path, raw) ==
    LET over == {k \in DOMAIN items : IsStrictPrefix(items[k].key, path)}
    IN  IF over = {} \/ \E k \in DOMAIN items : items[k].key = path
        THEN innerSet(items, path, raw)
        ELSE LET k == Min(over)
                 rest == SubSeq(path, Len(items[k].key) + 1, Len(path))
             IN  IF ~isTable(items[k].val) THEN {}
                 ELSE {IF sub = <<>> /\ items[k].val.items # <<>> THEN inlineDrop(items, k)
                       ELSE [items EXCEPT ![k].val = [items |-> sub]] :
                          sub \in innerSet(items[k].val.items, rest, raw)}

----------------------------------------------------------------------------
\* Where a line may be added: `above` goes up over the comments and templates stuck above line q
\* (and blank lines if asked), `outside` leaves the template blocks deeper than `base`.

above(doc, q, base, blank) ==
    LET passed(j) == /\ doc[j].is \in {"note", "open"} \cup (IF blank THEN {"blank"} ELSE {})
                     /\ depth(doc)[j] >= base
    IN  Min({p \in 1..q : \A j \in p..(q - 1) : passed(j)})

\* (Variant: template blocks are not left.)
anywhere(doc, q, base, blank) == q

outside(doc, q, base, blank) ==
    IF depth(doc)[q] <= base THEN q
    ELSE above(doc, Max({p \in 1..q : p = 1 \/ depth(doc)[p] <= base}), base, blank)

\* Style of a file without table headers, written with dotted keys.
dottedStyle(doc) ==
    headers(doc) = {} /\ \E i \in entries(doc) : Len(fullKey(doc, i)) > 1

sharedSegs(a, b) == Len(LongestCommonPrefix({a, b}))

\* The line of the header under which a key goes (the longest that contains it), or 0: the root.
homeOf(doc, key) ==
    LET sec == Front(key)
        held == {h \in headers(doc) : IsPrefix(doc[h].key, sec)}
        long == {h \in held : \A g \in held : Len(doc[g].key) <= Len(doc[h].key)}
    IN  IF held = {} THEN 0 ELSE Min(long)

----------------------------------------------------------------------------
\* The merge, one touched key after the other (acc: what it has decided so far).

Start(doc) == [doc |-> doc, drop |-> {}, inline |-> {}, refused |-> {}, rootAt |-> 0,
               before |-> [i \in 1..(Len(doc) + 1) |-> <<>>], rootAdds |-> <<>>, newTables |-> <<>>]

\* A key that the file has: its value changes in place, or its line goes.
replaceEntry(acc, found, raw) ==
    IF raw = Undefined THEN [acc EXCEPT !.drop = @ \cup found]
    ELSE [acc EXCEPT !.doc = [i \in DOMAIN @ |-> IF i \in found THEN [@[i] EXCEPT !.val = Plain(raw)]
                                                 ELSE @[i]]]

\* A key inside the value of line `host`: written in its inline table, or refused.
writeInline(doc, acc, host, key, raw) ==
    LET path == SubSeq(key, Len(fullKey(doc, host)) + 1, Len(key))
        val == acc.doc[host].val
        next == IF isTable(val) THEN inlineSet(val.items, path, raw) ELSE {}
    IN  IF next # {}
        THEN [acc EXCEPT !.doc[host].val = [items |-> CHOOSE items \in next : TRUE],
                         !.inline = @ \cup {host}]
        ELSE IF raw # Undefined THEN [acc EXCEPT !.refused = @ \cup {key}] ELSE acc

\* A key the file does not have: near the keys of its table, at the root, or in a new table.
addKey(doc, acc, key, raw) ==
    LET sec == Front(key)
        home == homeOf(doc, key)
        name == IF home = 0 THEN <<>> ELSE doc[home].key
        inHome == {i \in entries(doc) : tableOf(doc, i) = name}
        child == SubSeq(key, 1, Len(name) + 1)
        dotted == \E i \in inHome : IsStrictPrefix(child, fullKey(doc, i))
        shared(i) == sharedSegs(fullKey(doc, i), key)
        best == Max({i \in inHome : \A j \in inHome : shared(j) <= shared(i)})
        base == IF home = 0 THEN 0 ELSE depth(doc)[home + 1]
        q == outside(doc, best + 1, base, FALSE)
        line == KeyLine(SubSeq(key, Len(name) + 1, Len(key)), raw)
        isNew(t) == t[1].key = sec
    IN  IF sec # name /\ ~dottedStyle(doc) /\ ~dotted
        THEN LET kv == KeyLine(<<Last(key)>>, raw)
             IN  IF \E t \in DOMAIN acc.newTables : isNew(acc.newTables[t])
                 THEN [acc EXCEPT !.newTables = [t \in DOMAIN @ |->
                         IF isNew(@[t]) THEN Append(@[t], kv) ELSE @[t]]]
                 ELSE [acc EXCEPT !.newTables = Append(@, <<HeadLine("table", sec), kv>>)]
        ELSE IF inHome # {}
        THEN [acc EXCEPT !.before[q] = Append(@, line),
                         !.rootAt = IF home = 0 THEN Max({@, q}) ELSE @]
        ELSE IF home # 0 THEN [acc EXCEPT !.before[home + 1] = Append(@, line)]
        ELSE [acc EXCEPT !.rootAdds = Append(@, line)]

mergeKey(doc, acc, key, raw) ==
    LET found == {i \in entries(doc) : fullKey(doc, i) = key}
        hosts == {i \in entries(doc) : IsStrictPrefix(fullKey(doc, i), key)}
    IN  IF found # {} THEN replaceEntry(acc, found, raw)
        ELSE IF hosts # {} THEN writeInline(doc, acc, Min(hosts), key, raw)
        ELSE IF raw = Undefined THEN acc
        ELSE addKey(doc, acc, key, raw)

\* Root keys where there was none: in front of the first head and the comments above it.
placeRootAdds(doc, acc) ==
    LET n == Len(doc) + 1
        first == Min({i \in DOMAIN doc : doc[i].is \in HeadKinds} \cup {n})
        ended == Min({p \in 1..n : \A j \in p..Len(doc) : doc[j].is = "blank"})
        q == outside(doc, IF first < n THEN above(doc, first, 0, FALSE) ELSE ended, 0, FALSE)
    IN  IF acc.rootAdds = <<>> THEN acc
        ELSE [acc EXCEPT !.rootAt = Max({@, q}), !.before[q] = @ \o acc.rootAdds]

\* New tables: in front of the first tunnel and its comments, after the root keys just added.
placeNewTables(doc, acc) ==
    LET limit == Min(firstBlock(doc) \cup {Len(doc) + 1})
        q == Max({outside(doc, above(doc, limit, 0, TRUE), 0, TRUE), acc.rootAt})
    IN  IF acc.newTables = <<>> THEN acc
        ELSE [acc EXCEPT !.before[q] = @ \o FlattenSeq(acc.newTables)]

\* A table emptied by the merge loses its header.
emptied(doc, acc) ==
    LET stop(h) == Min({i \in heads(doc) : i > h} \cup {Len(doc) + 1})
        region(h) == (h + 1)..(stop(h) - 1)
    IN  {h \in headers(doc) :
            /\ entries(doc) \cap region(h) # {}
            /\ \A j \in region(h) : j \in acc.drop \/ doc[j].is = "blank"
            /\ \A j \in (h + 1)..stop(h) : acc.before[j] = <<>>}

mergeConnection(doc, want) ==
    LET keys == SelectSeq(FormKeys, LAMBDA k : k \in DOMAIN want /\ want[k] # Undefined)
                \o SelectSeq(FormKeys, LAMBDA k : k \in DOMAIN want /\ want[k] = Undefined)
        looked == FoldLeft(LAMBDA acc, k : mergeKey(doc, acc, k, want[k]), Start(doc), keys)
        hollow == {i \in looked.inline : looked.doc[i].val = [items |-> <<>>]}
        cut == [looked EXCEPT !.drop = @ \cup hollow]
        placed == placeNewTables(doc, placeRootAdds(doc, cut))
        gone == placed.drop \cup emptied(doc, placed)
    IN  [refused |-> looked.refused,
         text |-> FlattenSeq([i \in 1..(Len(doc) + 1) |->
                    placed.before[i]
                    \o (IF i > Len(doc) \/ i \in gone THEN <<>> ELSE <<placed.doc[i]>>)])]

----------------------------------------------------------------------------
\* What a text says: the values in force, each with the template blocks that guard it, ...

leaves(val) ==
    IF ~isTable(val) THEN {<<<<>>, val.text>>}
    ELSE UNION {IF isTable(it.val)
                THEN {<<it.key \o sub.key, sub.val.text>> : sub \in Range(it.val.items)}
                ELSE {<<it.key, it.val.text>>} : it \in Range(val.items)}
\* ... one record for each value that a line of it gives ...
Facts(doc) ==
    UNION {{[key |-> fullKey(doc, i) \o leaf[1], val |-> leaf[2], under |-> depth(doc)[i]] :
              leaf \in leaves(doc[i].val)} : i \in entries(doc)}
\* ... and, in order, the lines that are none of its entries, table heads and blank lines.
Others(doc) ==
    LET kept == {i \in DOMAIN doc : i \notin entries(doc) \cup headers(doc) /\ doc[i].is # "blank"}
    IN  [n \in 1..Cardinality(kept) |->
            doc[CHOOSE i \in kept : Cardinality({j \in kept : j <= i}) = n]]

----------------------------------------------------------------------------

TextInit == text = <<>> /\ form = <<>> /\ merge = "none" /\ merged = <<>>

\* A text frpc accepts: no key, no table twice, no value where a table is.
WellFormed(doc) ==
    /\ \A i, j \in entries(doc) : i # j =>
            /\ ~IsPrefix(fullKey(doc, i), fullKey(doc, j))
            /\ fullKey(doc, i) # fullKey(doc, j)
    /\ \A i \in entries(doc), h \in headers(doc) : ~IsPrefix(fullKey(doc, i), doc[h].key)
    /\ \A h, g \in headers(doc) : h # g => doc[h].key # doc[g].key
    /\ \A i \in DOMAIN doc : doc[i].is = "sub" =>
            headOf(doc, i) # 0 /\ doc[headOf(doc, i)].is = "tunnel"
    /\ \A i \in DOMAIN doc : doc[i].is = "close" => depth(doc)[i] > 0

\* Somebody writes the file by hand, one line after the other.
WriteLine ==
    /\ merge = "none" /\ Len(text) < MaxText
    /\ \E line \in TextLines : WellFormed(Append(text, line)) /\ text' = Append(text, line)
    /\ UNCHANGED <<form, merge, merged>>

\* A save of the Configuration form on a file that has content.
MergeForm ==
    /\ merge = "none" /\ \E i \in DOMAIN text : text[i].is # "blank"
    /\ depth(text)[Len(text) + 1] = 0
    /\ form' \in FormEdits
    /\ LET result == mergeConnection(text, form')
       IN  IF result.refused = {} THEN merge' = "written" /\ merged' = result.text
           ELSE merge' = "refused" /\ merged' = text
    /\ UNCHANGED text

TextNext == WriteLine \/ MergeForm
TextSpec == TextInit /\ [][TextNext]_textVars

\* A template block guards a setting and the first tunnel together: a new table then goes in front
\* of the block, and takes the setting.
SharedTemplate(doc) ==
    \E i \in entries(doc), t \in firstBlock(doc) : i < t /\ \A j \in i..t : depth(doc)[j] > 0

----------------------------------------------------------------------------
(* The form changes the keys touched in it, and nothing else: every other   *)
(* value of the file keeps its value and the template blocks that guard it, *)
(* the lines that are no setting (comments, templates, tunnels and their    *)
(* keys, unknown tables) stay, in order; a touched key has the value of the *)
(* form wherever it is, and a key that gets a line of its own is guarded by *)
(* no more than its table is.                                               *)
MergeIsExact ==
    merge = "written" /\ ~SharedTemplate(text) =>
        LET touched == DOMAIN form
            untouched(doc) == {f \in Facts(doc) : f.key \notin touched}
            held(k) == \E i \in entries(text) : IsPrefix(fullKey(text, i), k)
        IN  /\ untouched(merged) = untouched(text)
            /\ Others(merged) = Others(text)
            /\ \A k \in touched : {f.val : f \in {g \in Facts(merged) : g.key = k}}
                                  = IF form[k] = Undefined THEN {} ELSE {form[k]}
            /\ \A i \in entries(merged) : ~held(fullKey(merged, i)) =>
                    depth(merged)[i] <= depth(merged)[headOf(merged, i) + 1]
=============================================================================
