------------------------------ MODULE LogView ------------------------------
(***************************************************************************)
(* The Logs page (assets/js/pages/logs.js): the last lines of an instance, *)
(* or a live stream of them, over a WebSocket or over server-sent events   *)
(* when the WebSocket never opens, connected again when it drops.          *)
(*                                                                         *)
(* Abstracted: a line is the place it comes from and its number there; the *)
(* filter, colours and scrolling are left out.  The server (routes.go,     *)
(* system.go) is reduced to what it sends: as many past lines as were asked*)
(* for and then every new one.                                             *)
(***************************************************************************)
EXTENDS Naturals, Sequences, FiniteSets

CONSTANTS
    LogInstances, LogSources,
    MaxLogged,        \* bound: lines written, all places together
    MaxActs,          \* bound: what the user does, and connections lost or refused
    MaxLoads,         \* bound: loads under way
    MAX_LINES, MAX_RECONNECTS

ASSUME LogViewAssumption ==
    /\ LogInstances # {} /\ LogSources # {}
    /\ MaxLogged \in Nat /\ MaxActs \in Nat /\ MaxLoads \in Nat \ {0}
    /\ MAX_LINES \in Nat \ {0} /\ MAX_RECONNECTS \in Nat

Places == LogInstances \X LogSources

VARIABLES
    logged,     \* lines written at each place
    allLogged,  \* and at all of them
    logMounted, \* the page is shown
    place,      \* S.iid, S.source
    lines,      \* what the page shows
    loadSeq,    \* number of the last load
    loads,      \* loads under way: their number, place and answer
    live,       \* S.live: is a stream wanted, over what, and how it goes
    stream,     \* number of the line its connection sends next; 0: none is open
    broken,     \* a connection of this stream was lost after lines had been shown
    acts

logVars == <<logged, allLogged, logMounted, place, lines, loadSeq, loads, live, stream, broken, acts>>

\* `conn`: "none", "opening", "open", or "retry" (its timer runs).
Off == [on |-> FALSE, transport |-> "websocket", everOpened |-> FALSE, conn |-> "none", failures |-> 0]
act == acts < MaxActs /\ acts' = acts + 1
LogLine(p, n) == [place |-> p, n |-> n]
\* (Variant: lines are never dropped.)
allLines(s) == s

lastLines(s) == IF Len(s) <= MAX_LINES THEN s ELSE SubSeq(s, Len(s) - MAX_LINES + 1, Len(s))

LogInit ==
    /\ logged = [p \in Places |-> 0] /\ allLogged = 0 /\ logMounted = FALSE /\ place = CHOOSE p \in Places : TRUE
    /\ lines = <<>> /\ loadSeq = 0 /\ loads = {} /\ live = Off /\ stream = 0 /\ broken = FALSE /\ acts = 0

LineWritten ==
    /\ allLogged < MaxLogged /\ allLogged' = allLogged + 1
    /\ \E p \in Places : logged' = [logged EXCEPT ![p] = @ + 1]
    /\ UNCHANGED <<logMounted, place, lines, loadSeq, loads, live, stream, broken, acts>>

\* load(): the stream stops, the view is emptied, the last lines are asked for.
startLoad(p) ==
    /\ Cardinality(loads) < MaxLoads
    /\ loadSeq' = loadSeq + 1 /\ lines' = <<>>
    /\ loads' = loads \cup {[seq |-> loadSeq + 1, place |-> p, upTo |-> MaxLogged + 1]}
    /\ live' = Off /\ stream' = 0 /\ broken' = FALSE

LogMount ==
    /\ ~logMounted /\ act /\ logMounted' = TRUE
    /\ \E iid \in LogInstances : place' = <<iid, place[2]>>
    /\ startLoad(place')
    /\ UNCHANGED <<logged, allLogged>>

LogUnmount ==
    /\ logMounted /\ act /\ logMounted' = FALSE
    /\ lines' = <<>> /\ live' = Off /\ stream' = 0 /\ broken' = FALSE
    /\ UNCHANGED <<logged, allLogged, place, loadSeq, loads>>

SelectInstance ==
    /\ logMounted /\ act
    /\ \E iid \in LogInstances \ {place[1]} : place' = <<iid, place[2]>>
    /\ startLoad(place')
    /\ UNCHANGED <<logged, allLogged, logMounted>>

\* startLive: a load still under way is not to replace the stream.
startLive ==
    /\ loadSeq' = loadSeq + 1 /\ lines' = <<>>
    /\ live' = [Off EXCEPT !.on = TRUE, !.conn = "opening"]
    /\ stream' = 0 /\ broken' = FALSE
    /\ UNCHANGED loads

SelectSource ==
    /\ logMounted /\ act
    /\ \E source \in LogSources \ {place[2]} : place' = <<place[1], source>>
    /\ IF live.on THEN startLive ELSE startLoad(place')
    /\ UNCHANGED <<logged, allLogged, logMounted>>

Refresh == logMounted /\ act /\ startLoad(place) /\ UNCHANGED <<logged, allLogged, logMounted, place>>

ToggleLive ==
    /\ logMounted /\ act
    /\ IF live.on
       THEN live' = Off /\ stream' = 0 /\ UNCHANGED <<lines, loadSeq, loads, broken>>
       ELSE startLive
    /\ UNCHANGED <<logged, allLogged, logMounted, place>>

\* The server reads the log; the answer may come much later.
LogRead ==
    /\ \E l \in loads :
          /\ l.upTo > MaxLogged
          /\ loads' = (loads \ {l}) \cup {[l EXCEPT !.upTo = logged[l.place]]}
    /\ UNCHANGED <<logged, allLogged, logMounted, place, lines, loadSeq, live, stream, broken, acts>>

\* (Variant: any answer is shown while no stream is wanted.)
staleWhenLive(l) == live.on

stale(l) == l.seq # loadSeq \/ live.on
LoadArrives ==
    /\ \E l \in loads :
          /\ l.upTo <= MaxLogged /\ loads' = loads \ {l}
          /\ lines' = IF stale(l) \/ ~logMounted THEN lines
                      ELSE lastLines([n \in 1..l.upTo |-> LogLine(l.place, n)])
    /\ UNCHANGED <<logged, allLogged, logMounted, place, loadSeq, live, stream, broken, acts>>
LoadFails ==
    /\ act /\ \E l \in loads : loads' = loads \ {l} /\ lines' = IF stale(l) THEN lines ELSE <<>>
    /\ UNCHANGED <<logged, allLogged, logMounted, place, loadSeq, live, stream, broken>>

\* connect(history): past lines are asked for only while none can have been shown.
StreamOpens ==
    /\ live.conn = "opening"
    /\ stream' = IF live.everOpened THEN logged[place] + 1 ELSE 1
    /\ live' = [live EXCEPT !.conn = "open", !.everOpened = TRUE, !.failures = 0]
    /\ UNCHANGED <<logged, allLogged, logMounted, place, lines, loadSeq, loads, broken, acts>>

\* onmessage, appendLive.
StreamLine ==
    /\ live.conn = "open" /\ stream <= logged[place]
    /\ lines' = lastLines(Append(lines, LogLine(place, stream))) /\ stream' = stream + 1
    /\ UNCHANGED <<logged, allLogged, logMounted, place, loadSeq, loads, live, broken, acts>>

\* retry(): after too many failures the stream ends.
retried == IF live.failures + 1 > MAX_RECONNECTS THEN Off
           ELSE [live EXCEPT !.conn = "retry", !.failures = @ + 1]
\* onclose of a WebSocket that never opened: server-sent events instead, at once.
StreamDrops ==
    /\ live.conn \in {"opening", "open"} /\ act
    /\ live' = IF live.transport = "websocket" /\ live.conn = "opening" /\ ~live.everOpened
               THEN [live EXCEPT !.transport = "sse"] ELSE retried
    /\ stream' = 0 /\ broken' = (live.conn = "open" \/ broken)
    /\ UNCHANGED <<logged, allLogged, logMounted, place, lines, loadSeq, loads>>

StreamRetries ==
    /\ live.conn = "retry" /\ live' = [live EXCEPT !.conn = "opening"]
    /\ UNCHANGED <<logged, allLogged, logMounted, place, lines, loadSeq, loads, stream, broken, acts>>

LogNext ==
    \/ LineWritten \/ LogMount \/ LogUnmount \/ SelectInstance \/ SelectSource \/ Refresh \/ ToggleLive
    \/ LogRead \/ LoadArrives \/ LoadFails \/ StreamOpens \/ StreamLine \/ StreamDrops \/ StreamRetries
LogSpec == LogInit /\ [][LogNext]_logVars

LogTypeOK ==
    /\ logged \in [Places -> 0..MaxLogged] /\ allLogged \in 0..MaxLogged /\ logMounted \in BOOLEAN /\ place \in Places
    /\ lines \in Seq([place : Places, n : 1..MaxLogged]) /\ Len(lines) <= MAX_LINES
    /\ loadSeq \in Nat /\ loads \subseteq [seq : 1..loadSeq, place : Places, upTo : 0..(MaxLogged + 1)]
    /\ live \in [on : BOOLEAN, transport : {"websocket", "sse"}, everOpened : BOOLEAN,
                 conn : {"none", "opening", "open", "retry"}, failures : 0..MAX_RECONNECTS]
    /\ stream \in 0..(MaxLogged + 1) /\ broken \in BOOLEAN /\ acts \in 0..MaxActs

(* The page shows lines of the selected instance and source and of no other,*)
(* each once and in order, whatever answers and connections are late or     *)
(* lost; without a lost connection, none is missing in between.             *)
LogShowsSelection ==
    /\ \A i \in DOMAIN lines : lines[i].place = place
    /\ \A i, j \in DOMAIN lines : i < j => lines[i].n < lines[j].n
    /\ ~broken => \A i \in DOMAIN lines : lines[i].n = lines[1].n + i - 1
=============================================================================
