-------------------------------- MODULE Web --------------------------------
(***************************************************************************)
(* The web interface (templates/assets/js) and the receiver of statistics  *)
(* (tools/stats-worker), in one instance for TLC.  The parts share no      *)
(* variable: each reaches the others only through the files and the jobs   *)
(* of the server, which every part has as "others".  So one run explores   *)
(* them side by side: a behaviour is one of the part that was picked, the  *)
(* others stay at their first state.                                       *)
(***************************************************************************)
EXTENDS ConnectionText, TunnelText, StatusFeed, Dashboard, LogView, ConfigPage, TunnelsPage,
        UpdateWatch, FirewallPage, StatsWorker, TLC

VARIABLE part

webVars == <<part, textVars, fileVars, feedVars, dashVars, logVars, configVars, tunnelsVars, watchVars, fwPageVars, statsVars>>
Parts == {"text", "file", "feed", "dashboard", "log", "config", "tunnels", "watch", "firewall", "stats"}

----------------------------------------------------------------------------
\* Values of the constants.

\* ConnectionText: the keys a, s.x, s.t.y; lines that hold, nest, guard, shadow or neighbour them.
KeyA == <<"a">>
KeySX == <<"s", "x">>
KeySTY == <<"s", "t", "y">>
SomeFormKeys == <<KeyA, KeySX, KeySTY>>
SomeTextLines ==
    {Bare("blank"), Bare("note"), Bare("open"), Bare("close"), Bare("tunnel"),
     HeadLine("array", <<"r">>), HeadLine("sub", <<"p">>),
     HeadLine("table", <<"s">>), HeadLine("table", <<"s", "t">>), HeadLine("table", <<"u">>),
     KeyLine(KeyA, "1"), KeyLine(<<"x">>, "1"), KeyLine(KeySX, "1"), KeyLine(<<"t", "y">>, "1"),
     KeyLine(<<"s", "k">>, "1"), KeyLine(<<"y">>, "1"), KeyLine(<<"s">>, "1"),
     InlineLine(<<"s">>, <<Item(<<"x">>, Plain("1"))>>),
     InlineLine(<<"s">>, <<Item(<<"k">>, Plain("1")), Item(<<"t">>, [items |-> <<Item(<<"y">>, Plain("1"))>>])>>),
     InlineLine(<<"s">>, <<Item(<<"t">>, Plain("1"))>>)}
SomeFormEdits ==
    {KeyA :> "2" @@ KeySX :> "2", KeyA :> Undefined @@ KeySX :> Undefined,
     KeySTY :> Undefined @@ KeySX :> "1", KeySTY :> "2",
     KeySTY :> "2" @@ KeySX :> Undefined @@ KeyA :> "1"}

\* TunnelText: settings, tables and comments around a pair, half a pair, a template and a visitor.
KeyIs(id, val) == BlockKey(<<"", id>>, val)
TunnelPart(name, type) == <<Line("proxies", ""), KeyIs("name", name), KeyIs("type", type), KeyIs("body", "port")>>
SomePairNames == {<<"n", "n-tcp", "n-udp">>}
SomeFileParts ==
    {<<Note("h")>>, <<Line("set", "a")>>, <<Note("c")>>,
     <<Line("table", "t"), Line("set", "x")>>, <<Line("table", "u"), Line("set", "y"), Note("d")>>,
     TunnelPart("n-tcp", "tcp"), <<Note("e")>> \o TunnelPart("n-udp", "udp"),
     TunnelPart("n-udp", "udp") \o <<Note("f"), KeyIs("x", "1")>>,
     <<Line("range", "1-2"), Note("g"), Noted(Line("proxies", ""), "i"), KeyIs("name", "r"),
       Line("sub", "plugin"), Noted(KeyIs("type", "z"), "j"), Line("end", "")>>,
     <<Line("visitors", ""), KeyIs("name", "v"), Note("k"), KeyIs("type", "stcp")>>}

\* ConfigPage: an address between brackets, and a key under a switch that is off.
OneFile == [key \in {"port", "tls"} |-> IF key = "port" THEN "[b]" ELSE "absent"]

\* TunnelsPage: a pair, and a range next to a plain tunnel; names that meet theirs.
ListedTunnel(name, type, ranged) == [name |-> name, type |-> type, ranged |-> ranged]
SomeTunnels == {{ListedTunnel(<<"a", "tcp">>, "tcp", FALSE), ListedTunnel(<<"a", "udp">>, "udp", FALSE)},
                {ListedTunnel(<<"a">>, "tcp", FALSE), ListedTunnel(<<"b">>, "tcp", TRUE)}}
SomeNames == {<<"a">>, <<"b", "6000">>}

\* FirewallPage: a rule of another frps that blocks, one of all that allows the user.
SomeRules ==
    {[id |-> 0, frps |-> "g", mode |-> "block", sources |-> {"other"}, quick |-> TRUE, on |-> TRUE],
     [id |-> 0, frps |-> "all", mode |-> "allow", sources |-> {"me"}, quick |-> FALSE, on |-> TRUE]}

----------------------------------------------------------------------------

\* A part that was not picked starts where it may.
Settled ==
    /\ part # "feed" => known = truth
    /\ part # "dashboard" => config = [i \in Names |-> "none"]
    /\ part # "config" => configFile = [i \in ConfigInstances |-> NoFile]
    /\ part # "tunnels" => tunnelFile = [i \in TunnelInstances |-> CHOOSE t \in FirstTunnels : TRUE]
    /\ part # "watch" => panelLanguage = "fr"
    /\ part # "firewall" => applied = [enabled |-> FALSE, rules |-> {}] /\ frpsShown = CHOOSE f \in Frps : TRUE

WebInit ==
    /\ part \in Parts
    /\ TextInit /\ FileInit /\ FeedInit /\ DashInit /\ LogInit /\ ConfigInit /\ TunnelsInit /\ WatchInit /\ FwPageInit /\ StatsInit
    /\ Settled

InText == part = "text" /\ TextNext
    /\ UNCHANGED <<part, fileVars, feedVars, dashVars, logVars, configVars, tunnelsVars, watchVars, fwPageVars, statsVars>>
InFileText == part = "file" /\ FileNext
    /\ UNCHANGED <<part, textVars, feedVars, dashVars, logVars, configVars, tunnelsVars, watchVars, fwPageVars, statsVars>>
InFeed == part = "feed" /\ FeedNext
    /\ UNCHANGED <<part, textVars, fileVars, dashVars, logVars, configVars, tunnelsVars, watchVars, fwPageVars, statsVars>>
InDashboard == part = "dashboard" /\ DashNext
    /\ UNCHANGED <<part, textVars, fileVars, feedVars, logVars, configVars, tunnelsVars, watchVars, fwPageVars, statsVars>>
InLog == part = "log" /\ LogNext
    /\ UNCHANGED <<part, textVars, fileVars, feedVars, dashVars, configVars, tunnelsVars, watchVars, fwPageVars, statsVars>>
InConfig == part = "config" /\ ConfigNext
    /\ UNCHANGED <<part, textVars, fileVars, feedVars, dashVars, logVars, tunnelsVars, watchVars, fwPageVars, statsVars>>
InTunnels == part = "tunnels" /\ TunnelsNext
    /\ UNCHANGED <<part, textVars, fileVars, feedVars, dashVars, logVars, configVars, watchVars, fwPageVars, statsVars>>
InWatch == part = "watch" /\ WatchNext
    /\ UNCHANGED <<part, textVars, fileVars, feedVars, dashVars, logVars, configVars, tunnelsVars, fwPageVars, statsVars>>
InFirewall == part = "firewall" /\ FwPageNext
    /\ UNCHANGED <<part, textVars, fileVars, feedVars, dashVars, logVars, configVars, tunnelsVars, watchVars, statsVars>>
InStats == part = "stats" /\ StatsNext
    /\ UNCHANGED <<part, textVars, fileVars, feedVars, dashVars, logVars, configVars, tunnelsVars, watchVars, fwPageVars>>

WebNext == InText \/ InFileText \/ InFeed \/ InDashboard \/ InLog \/ InConfig \/ InTunnels \/ InWatch \/ InFirewall \/ InStats

(* The fairness of the parts (FeedFairness, WatchFairness), for the part that was picked. *)
WebFairness ==
    /\ WF_feedVars(part = "feed" /\ FeedProgress) /\ WF_feedVars(part = "feed" /\ PollTick)
    /\ WF_watchVars(part = "watch" /\ ServerEnds) /\ WF_watchVars(part = "watch" /\ PanelTick)
    /\ \A k \in Followers : WF_watchVars(part = "watch" /\ FollowStep(k))

WebSpec == WebInit /\ [][WebNext]_webVars /\ WebFairness

(* Every part keeps to its types and its bounds. *)
WebTypeOK ==
    /\ part \in Parts
    /\ part = "feed" => FeedTypeOK
    /\ part = "dashboard" => DashTypeOK
    /\ part = "log" => LogTypeOK
    /\ part = "config" => ConfigTypeOK
    /\ part = "tunnels" => TunnelsTypeOK
    /\ part = "watch" => WatchTypeOK
    /\ part = "firewall" => FwPageTypeOK
    /\ part = "stats" => StatsTypeOK
=============================================================================
