---------------------------- MODULE MCFlowiePolicy ----------------------------
(***************************************************************************)
(* FlowiePolicy with one domain, one user and a handful of documents.      *)
(***************************************************************************)
EXTENDS FlowiePolicy

PCmd(op, kind, target, detail, ordinal, n) ==
    [op |-> op, dom |-> "d", target |-> target, detail |-> detail, kind |-> kind, ordinal |-> ordinal,
     actor |-> "root", secret |-> None, expected |-> 0, req |-> <<"p", n>>]

E(effect, actions, topic) == [effect |-> effect, actions |-> actions, topic |-> topic]
Both == {"publish", "subscribe"}
Doc(kind, subject, connection, entries) ==
    [kind |-> kind, subject |-> subject, connection |-> connection, entries |-> entries]
MCDocuments ==
    "own" :> Doc("user", "ann", "allow", <<E("allow", Both, <<"d", "%u", "#">>), E("deny", {"publish"}, <<"d", "%u", "x">>)>>)
    @@ "wide" :> Doc("user", "ann", "allow", <<E("deny", {"subscribe"}, <<"d", "+", "x">>), E("allow", Both, <<"d", "#">>)>>)
    @@ "closed" :> Doc("user", "ann", "deny", <<>>)
    @@ "ops" :> Doc("role", "ops", "allow", <<E("allow", {"publish"}, <<"d", "{a,x}">>), E("allow", {"subscribe"}, <<"d", "+", "x">>)>>)
    @@ "device" :> Doc("role", "ops", "allow", <<E("allow", Both, <<"d", "%c">>), E("allow", {"subscribe"}, <<"d", "%cam", "+">>)>>)
    @@ "many" :> Doc("group", "all", "allow", <<E("allow", {"publish"}, <<"d", "{a,x}">>), E("deny", {"subscribe"}, <<"d", "{a,x}">>)>>)
    @@ "plain" :> Doc("group", "all", "allow", <<>>)
    @@ "foreign" :> Doc("role", "ops", "allow", <<E("allow", Both, <<"a", "x">>)>>)
    @@ "twice" :> Doc("role", "ops", "allow", <<E("allow", Both, <<"d", "{a,a}">>)>>)
    @@ "inner" :> Doc("role", "ops", "deny", <<E("allow", Both, <<"d", "a">>)>>)
MCAlternatives == "{a,x}" :> <<"a", "x">> @@ "{a,a}" :> <<"a", "a">>
MCRolePlaceholders == "%cam" :> "cam"
MCClientRoles == "k" :> <<>> @@ "k-cam" :> ("cam" :> "k") @@ "+" :> <<>>

PPut(doc, ordinal, n) == PCmd("rule_put", MCDocuments[doc].kind, MCDocuments[doc].subject, doc, ordinal, n)
PDelete(doc, n) == PCmd("rule_delete", MCDocuments[doc].kind, MCDocuments[doc].subject, None, 0, n)
PPublish(expires, n) == PCmd("publish", "user", "d", None, expires, n)
People ==
    <<
        PCmd("domain_create", "user", "d", "domain", 0, 1), PCmd("user_create", "user", "ann", "human", 0, 2),
        PCmd("role_create", "role", "ops", "role", 0, 3), PCmd("user_role_add", "user", "ann", "ops", 0, 4),
        PCmd("group_create", "group", "all", None, 0, 5), PCmd("membership_add", "user", "ann", "all", 0, 6)>>
Ready(docs) ==
    People \o [i \in DOMAIN docs |-> PPut(docs[i], i, 10 + i)] \o <<PPublish(0, 20)>>

Topic(levels) == [action |-> "publish", resource |-> Levels(levels)]
Filter(levels) == [action |-> "subscribe", resource |-> Levels(levels)]
Shared(levels) == [action |-> "subscribe", resource |-> [share |-> "g", levels |-> levels]]
Enter == [action |-> "connect", resource |-> Levels(<<>>)]
Writes == {Topic(<<"d", "ann">>), Topic(<<"d", "ann", "x">>), Topic(<<"d", "a">>), Topic(<<"d", "k">>), Topic(<<"$s", "a">>)}
Reads == {Filter(<<"d", "#">>), Filter(<<"d", "+">>), Filter(<<"d", "+", "x">>), Filter(<<"d", "ann", "#">>),
          Filter(<<"#">>), Filter(<<"d", "k", "+">>), Shared(<<"d", "a", "x">>)}
All == Writes \cup Reads \cup {Enter}

Plan(start, changes) ==
    [start |-> start, key |-> <<"d", "ann">>, clients |-> {"k"}, requests |-> {Topic(<<"d", "a">>)}, changes |-> changes,
     publish |-> PPublish(0, 90), others |-> {}, checks |-> 0, edits |-> 0, faults |-> 0, now |-> 1]
Deciding(docs) ==
    [Plan(Ready(docs), <<>>) EXCEPT !.clients = {"k", "k-cam", "+"}, !.requests = All, !.checks = 1, !.now = 1]
Moving ==
    [Plan(Ready(<<"own", "ops">>), <<PPut("closed", 1, 30)>>) EXCEPT
        !.requests = {Enter, Filter(<<"d", "+", "x">>)}, !.others = {PPut("wide", 1, 41), PPublish(2, 42)},
        !.checks = 2, !.edits = 2, !.faults = 1, !.now = 3]
Trying(docs, changes) ==
    [Plan(Ready(docs), changes) EXCEPT
        !.others = {PPublish(0, 42), PPut("many", 2, 43), PCmd("role_disable", "role", "ops", None, 0, 45)}, !.edits = 2]
MCPolicyScenarios ==
    << Deciding(<<"own", "ops">>), Deciding(<<"wide", "device">>), Deciding(<<"ops", "own", "plain">>),
       Deciding(<<"device", "own">>), Deciding(<<"many", "own">>), Deciding(<<"closed", "ops">>), Moving,
       Trying(<<"own">>, <<PPut("ops", 2, 30), PPut("many", 3, 31)>>),
       Trying(<<"own", "plain">>, <<PPut("many", 1, 30), PPut("own", 2, 31)>>),
       Trying(<<"own", "ops">>, <<PDelete("own", 30), PPut("device", 1, 31), PPut("plain", 2, 32)>>),
       Trying(<<"own", "plain">>, <<PDelete("ops", 30), PPut("wide", 1, 31)>>),
       Trying(<<"own">>, <<PDelete("own", 30)>>),
       Trying(<<"own">>, <<PPut("foreign", 2, 30), PPut("plain", 3, 31)>>),
       Trying(<<"own">>, <<PPut("twice", 1, 30)>>), Trying(<<"own">>, <<PPut("inner", 2, 30)>>),
       Trying(<<"plain">>, <<PPut("ops", 2, 30), PPut("own", 2, 31)>>),
       Trying(<<"plain">>, <<PPut("ops", 2, 30), PPut("ops", 3, 31)>>) >>
=============================================================================
