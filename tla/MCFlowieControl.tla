--------------------------- MODULE MCFlowieControl ---------------------------
(***************************************************************************)
(* Six scenarios of FlowieControl, each with its own calls.                *)
(***************************************************************************)
EXTENDS FlowieControl, TLC

(* The databases are reached by commands of the store. *)
After(d, cmds) ==
    LET f[n \in 0..Len(cmds)] == IF n = 0 THEN d ELSE Execute(f[n - 1], cmds[n]).db IN f[Len(cmds)]
Numbered(name, cmds) == [i \in DOMAIN cmds |-> [cmds[i] EXCEPT !.req = <<name, i>>]]
Plain(op, dom, target, detail) == Cmd(op, dom, target, detail, "setup", <<>>)
Rule(op, kind, id, ordinal, document) ==
    [Plain(op, "d", id, document) EXCEPT !.kind = kind, !.ordinal = ordinal]
Bootstrapped == After(EmptyDatabase, [i \in 1..7 |-> BootstrapPlan[i].cmd])
WithSession(d, t, k) == management_session_issue(d, t, k, Ttl, SessionCapacity, SessionsPerPrincipal, 0)

CommandCall(as, name, cmd) == [kind |-> "command", as |-> as, cmd |-> [cmd EXCEPT !.req = <<name, 0>>]]
Login(k, secret) == [kind |-> "login", as |-> k, secret |-> secret]
PasswordChange(k, name, secret, dashboard) ==
    [kind |-> "password", as |-> k, req |-> name, secret |-> secret, dashboard |-> dashboard]

(* 1. From an empty database: bootstrap, the first password change, crashes. *)
Ann == <<"d", "ann">>
FromEmpty ==
    [boot |-> TRUE, guarded |-> {}, limit |-> 9, time |-> 0, crashes |-> 2,
     calls |-> <<Login(Root, "initial"), Login(Root, "root2"), PasswordChange(Root, "p", "root2", TRUE)>>]

(* 2. The administrator of a new domain is initialised, with retries that    *)
(*    overlap, and changes the password.                                     *)
ReadyForAdmin ==
    LET d == After(Bootstrapped, Numbered("s", <<
              [Plain("rotate", System, "root", "argon2id") EXCEPT !.secret = "root2"],
              Plain("user_role_remove", System, "root", MustChange),
              Plain("domain_create", "d", "d", "domain")>>))
    IN  WithSession(d, "t1", Root)
Administrator ==
    [boot |-> FALSE, guarded |-> {Root}, limit |-> 18, time |-> 0, crashes |-> 1,
     calls |-> <<[kind |-> "admin", as |-> Root, dom |-> "d", target |-> "ann", req |-> "a"],
                 Login(Ann, "initial"), PasswordChange(Ann, "q", "ann2", FALSE)>>]

(*    The same for a user that exists, and may be disabled meanwhile.        *)
ExistingUser == After(ReadyForAdmin, Numbered("e", <<Plain("user_create", "d", "ann", "human")>>))
Promoted ==
    [boot |-> FALSE, guarded |-> {Root}, limit |-> 18, time |-> 0, crashes |-> 0,
     calls |-> <<[kind |-> "admin", as |-> Root, dom |-> "d", target |-> "ann", req |-> "a"],
                 CommandCall(Root, "x", Plain("user_disable", "d", "ann", None))>>]

(* 3. Store commands of two administrators of a populated domain, exports.   *)
Populated ==
    After(ReadyForAdmin, Numbered("u", <<
        Plain("user_create", "d", "ann", "human"), Plain("role_create", "d", "security_admin", "role"),
        Plain("user_role_add", "d", "ann", "security_admin"),
        Plain("user_create", "d", "bob", "service"), Plain("group_create", "d", "g", None),
        Plain("group_create", "d", "h", "g"), Plain("membership_add", "d", "bob", "h"),
        Plain("role_create", "d", "ops", "role"), Rule("rule_put", "role", "ops", 1, "allow")>>))
Commands ==
    [boot |-> FALSE, guarded |-> {},
     limit |-> 21, time |-> 0, crashes |-> 0,
     calls |-> <<
        [kind |-> "export", dom |-> "d"],
        CommandCall(Ann, "c1", Plain("group_create", "d", "k", "h")),
        CommandCall(Ann, "c2", Plain("group_delete", "d", "h", None)),
        CommandCall(Ann, "c3", Plain("membership_remove", "d", "bob", "h")),
        CommandCall(Ann, "c4", Plain("user_disable", "d", "bob", None)),
        CommandCall(Ann, "c5", Plain("role_disable", "d", "ops", None)),
        CommandCall(Ann, "c6", Plain("user_role_add", "d", "bob", "ops")),
        CommandCall(Ann, "c7", Rule("rule_put", "user", "bob", 2, "deny")),
        CommandCall(Ann, "c8", Rule("rule_put", "group", "h", 1, "deny")),
        CommandCall(Ann, "c9", Rule("rule_delete", "role", "ops", 0, None)),
        CommandCall(Ann, "c10", Plain("publish", "d", "d", "policy")),
        CommandCall(Ann, "c11", Plain("credential_revoke", "d", "bob", None)),
        CommandCall(Ann, "c13", Plain("membership_add", "d", "bob", "k")),
        CommandCall(Ann, "c12", [Plain("generate", "d", "bob", "argon2id") EXCEPT !.secret = "s"])>>]

(* 4. A published domain with disabled rows is imported into another system; *)
(*    the tool crashes and is run again.                                     *)
Exporter ==
    After(EmptyDatabase, Numbered("v", <<
        Plain("domain_create", "d", "d", "domain"), Plain("user_create", "d", "bob", "service"),
        Plain("group_create", "d", "g", None), Plain("group_create", "d", "f", "g"),
        Plain("membership_add", "d", "bob", "f"), Plain("role_create", "d", "ops", "role"),
        Plain("role_create", "d", "old", "role"), Plain("user_role_add", "d", "bob", "old"),
        Rule("rule_put", "role", "ops", 1, "allow"), Plain("publish", "d", "d", "policy"),
        Plain("user_disable", "d", "bob", None), Plain("role_disable", "d", "old", None)>>))
Import ==
    [boot |-> FALSE, guarded |-> {Root}, limit |-> 40, time |-> 0, crashes |-> 1,
     calls |-> <<[kind |-> "import", dom |-> "d", req |-> "i"]>>]

(* 5. Sessions at their limits, expiring while they are used and logged out. *)
SystemAdmins ==
    After(Bootstrapped, Numbered("w", <<Plain("user_create", System, "ann", "human"),
                [Plain("generate", System, "ann", "argon2id") EXCEPT !.secret = "ann1"],
                Plain("user_role_add", System, "ann", "system_admin")>>))
Sessions ==
    [boot |-> FALSE, guarded |-> {Root}, limit |-> 11, time |-> 1, crashes |-> 0,
     calls |-> <<Login(Root, "initial"), Login(<<System, "ann">>, "ann1"),
                 [kind |-> "logout", as |-> <<System, "ann">>],
                 CommandCall(<<System, "ann">>, "x", Plain("user_disable", System, "ann", None))>>]

Symmetry == Permutations(Workers)
MCDatabases == <<EmptyDatabase, ReadyForAdmin, ExistingUser, WithSession(Populated, "t2", Ann),
                 Bootstrapped, SystemAdmins>>
MCScenarios == <<FromEmpty, Administrator, Promoted, Commands, Import, Sessions>>
=============================================================================
