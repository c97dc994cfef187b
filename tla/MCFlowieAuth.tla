----------------------------- MODULE MCFlowieAuth -----------------------------
(***************************************************************************)
(* FlowieAuth with three threads, two principals and a few administrative  *)
(* commands, and FlowiePolicy with the scenarios of MCFlowiePolicy: a      *)
(* behaviour is one of the one or one of the other.                        *)
(***************************************************************************)
EXTENDS FlowieAuth, MCFlowiePolicy

Cmd(op, target, detail, secret, n) ==
    [op |-> op, dom |-> "d", target |-> target, detail |-> detail, kind |-> "role", ordinal |-> 1,
     actor |-> "root", secret |-> secret, expected |-> 0, req |-> <<"a", n>>]
After(d, cmds) ==
    LET f[n \in 0..Len(cmds)] == IF n = 0 THEN d ELSE Execute(f[n - 1], cmds[n]).db IN f[Len(cmds)]
MCStart ==
    After(EmptyDatabase, <<
        Cmd("domain_create", "d", "domain", None, 1), Cmd("user_create", "ann", "human", None, 2),
        Cmd("generate", "ann", "argon2id", "s1", 3), Cmd("user_create", "bob", "human", None, 4),
        Cmd("generate", "bob", "argon2id", "s1", 5), Cmd("role_create", "ops", "role", None, 6),
        Cmd("rule_put", "ops", "allow", None, 7), Cmd("publish", "d", None, None, 8)>>)
Rotate == Cmd("rotate", "ann", "argon2id", "s2", 9)
AddRole == Cmd("user_role_add", "ann", "ops", None, 10)
Disable == Cmd("user_disable", "ann", None, None, 11)
Publish == Cmd("publish", "d", None, None, 12)
Request(kind, user, secret) == [kind |-> kind, caller |-> "c", key |-> <<"d", user>>, secret |-> secret]
Logins ==
    [external |-> FALSE, cached |-> {<<<<"d", "ann">>, "s1">>}, parallel |-> 3, begun |-> 3, changes |-> 1, now |-> 2, commands |-> {Disable},
     requests |-> {Request("login", "ann", "s1"), Request("login", "bob", "s1")}]
Renewal ==
    [external |-> FALSE, cached |-> {}, parallel |-> 2, begun |-> 3, changes |-> 1, now |-> 3, commands |-> {Rotate},
     requests |-> {Request("login", "ann", "s1"), Request("login", "ann", "s2")}]
Brokers ==
    [external |-> FALSE, cached |-> {}, parallel |-> 2, begun |-> 3, changes |-> 1, now |-> 2, commands |-> {Rotate, AddRole, Publish},
     requests |-> {Request("mqtt", "ann", "s1")}]
External ==
    [external |-> TRUE, cached |-> {}, parallel |-> 2, begun |-> 3, changes |-> 1, now |-> 2, commands |-> {AddRole, Disable},
     requests |-> {Request("mqtt", "ann", "s1"), Request("login", "ann", "s1")}]
MCScenarios == <<Logins, Renewal, Brokers, External>>
Symmetry == Permutations(Threads)

VARIABLE part

MCInit ==
    /\ part \in {"auth", "policy"} /\ Init /\ PolicyInit
    /\ part = "auth" => pscene = 1
    /\ part = "policy" => scene = 1
MCNext ==
    /\ UNCHANGED part
    /\ \/ part = "auth" /\ Next /\ UNCHANGED policyVars
       \/ part = "policy" /\ PolicyNext /\ UNCHANGED vars
MCSpec == MCInit /\ [][MCNext]_<<vars, policyVars, part>>
=============================================================================
