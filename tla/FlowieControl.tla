---------------------------- MODULE FlowieControl ----------------------------
(***************************************************************************)
(* The control plane at work (control/flowie_control_*.c): the bootstrap   *)
(* that every start repeats, management requests arriving with a session   *)
(* token, the workflows made of several store commands (initialising the   *)
(* administrator of a domain, changing a password, importing a domain),    *)
(* exports, and logins executed by a job whose owner may give up waiting.  *)
(*                                                                         *)
(* Each worker is a thread of the server, or a run of the data tool, with  *)
(* one call in hand; a transaction of the store is one step.  A job that   *)
(* outlives the deadline of its caller keeps running, and the caller may   *)
(* retry: so any call may be begun at any time, again and concurrently.    *)
(***************************************************************************)
EXTENDS FlowieStore
LOCAL INSTANCE SequencesExt

CONSTANTS
    Workers,             \* threads and tool runs
    Tokens,              \* session tokens that may be drawn
    Databases,           \* databases the program can be in
    Scenarios,           \* for each, the calls made on it and the bounds: a revision after which no call
                         \* begins, the clock, the crashes
    Source,              \* the database that was exported for an import
    SessionCapacity,     \* management_session.capacity
    SessionsPerPrincipal,\* management_session.max_sessions_per_principal
    Ttl                  \* lifetime of a session

ASSUME ControlAssumption ==
    /\ SessionCapacity \in Nat \ {0} /\ SessionsPerPrincipal \in Nat \ {0} /\ Ttl \in Nat \ {0}

VARIABLES
    db,         \* the control database
    process,    \* "boot", "up" or "refused"
    worker,     \* what each worker is doing
    now,        \* the clock
    scene,      \* which scenario this behaviour plays
    crashes,    \* crashes so far
    given,      \* the owner of every token handed to a client
    \* what the properties look back at:
    sound,      \* every answer so far was true when it was given
    guarded     \* administrators initialised with a password they must change

vars == <<db, process, worker, now, scene, crashes, given, sound, guarded>>

Scenario == Scenarios[scene]

-----------------------------------------------------------------------------
System == "system"
Root == <<System, "root">>
MustChange == "password_change_required"

Cmd(op, dom, target, detail, actor, req) ==
    [op |-> op, dom |-> dom, target |-> target, detail |-> detail, actor |-> actor, req |-> req,
     expected |-> 0, secret |-> None, kind |-> None, ordinal |-> 0]

(* A step of a workflow: a command, the revision it expects ("any", one that *)
(* is fixed, or "read": the one read just before), the revision its answer   *)
(* must carry (0: any), and what EALREADY means.  `first' asks for the       *)
(* password to be verified before a credential is generated.                 *)
Step(cmd, expect, exact, dup) ==
    [cmd |-> cmd, expect |-> expect, exact |-> exact, dup |-> dup, first |-> FALSE]

(* bootstrap_apply: seven commands with fixed requests and revisions. *)
BootstrapPlan ==
    LET k(i, op, target, detail) == Cmd(op, System, target, detail, "bootstrap", <<"bootstrap", i>>)
        s(i, op, target, detail, dup) == Step([k(i, op, target, detail) EXCEPT !.expected = i - 1], "fixed", i, dup)
        credential == [k(3, "generate", "root", "argon2id") EXCEPT !.expected = 2, !.secret = "initial"]
    IN  <<s(1, "domain_create", System, "domain", "fail"),
          s(2, "user_create", "root", "human", "fail"),
          Step(credential, "fixed", 3, "next"),
          s(4, "role_create", "system_admin", "role", "fail"),
          s(5, "role_create", MustChange, "role", "fail"),
          s(6, "user_role_add", "root", "system_admin", "fail"),
          s(7, "user_role_add", "root", MustChange, "fail")>>
bootstrap_verify(d) ==
    user_enabled(d, Root) /\ d.users[Root].type = "human" /\ "system_admin" \in effective_roles(d, Root)

(* domain_admin_initialize: six commands whose requests derive from one. *)
AdminPlan(call, actor) ==
    LET k(i, op, target, detail) == Cmd(op, call.dom, target, detail, actor, <<call.req, i>>)
        credential == [k(2, "generate", call.target, "argon2id") EXCEPT !.secret = "initial"]
    IN  <<Step(k(1, "user_create", call.target, "human"), "read", 0, "check"),
          [Step(credential, "read", 0, "fail") EXCEPT !.first = TRUE],
          Step(k(3, "role_create", "security_admin", "role"), "read", 0, "next"),
          Step(k(4, "role_create", MustChange, "role"), "read", 0, "next"),
          Step(k(5, "user_role_add", call.target, "security_admin"), "read", 0, "next"),
          Step(k(6, "user_role_add", call.target, MustChange), "read", 0, "next")>>
(* The domain may hold no user but the administrator being initialised. *)
AdminPreflight(d, call) ==
    IF call.dom \notin d.domains THEN "ENOENT"
    ELSE IF Rows(d, call.dom, DOMAIN d.users) \subseteq {<<call.dom, call.target>>} THEN "OK" ELSE "EBUSY"

PasswordPlan_CompleteFirst(call, caller) ==
    LET k(i, op, detail) == Cmd(op, caller.key[1], caller.key[2], detail, caller.key[2], <<call.req, i>>)
        rotate == Step([k(1, "rotate", "argon2id") EXCEPT !.secret = call.secret], "any", 0, "verify")
        complete == Step(k(2, "user_role_remove", MustChange), "read", 0, "fail")
    IN  IF caller.permissions = {"password_change"} THEN <<complete, rotate>> ELSE <<rotate>>
(* password_change: rotate, and drop the obligation if that is all there is. *)
PasswordPlan(call, caller) ==
    LET k(i, op, detail) == Cmd(op, caller.key[1], caller.key[2], detail, caller.key[2], <<call.req, i>>)
        rotate == Step([k(1, "rotate", "argon2id") EXCEPT !.secret = call.secret], "any", 0, "verify")
        complete == Step(k(2, "user_role_remove", MustChange), "read", 0, "fail")
    IN  IF caller.permissions = {"password_change"} THEN <<rotate, complete>> ELSE <<rotate>>

(* What a domain holds apart from its secrets: what an export writes. *)
Tables == <<"users", "groups", "members", "roles", "userRoles", "policy">>
ExportTable(d, dom, table) ==
    CASE table = "users"   -> {[id |-> k[2], type |-> d.users[k].type, enabled |-> d.users[k].enabled] :
                                 k \in Rows(d, dom, DOMAIN d.users)}
      [] table = "groups"  -> {[id |-> k[2], parent |-> d.groups[k].parent, depth |-> d.groups[k].depth] :
                                 k \in Rows(d, dom, DOMAIN d.groups)}
      [] table = "members" -> {[user |-> m[2], group |-> m[3]] : m \in Rows(d, dom, d.members)}
      [] table = "roles"   -> {[id |-> k[2], enabled |-> d.roles[k]] : k \in Rows(d, dom, DOMAIN d.roles)}
      [] table = "userRoles" -> {[user |-> m[2], role |-> m[3]] : m \in Rows(d, dom, d.userRoles)}
      [] table = "policy"  -> {[kind |-> k[2], subject |-> k[3], ordinal |-> d.draft[k].ordinal,
                                document |-> d.draft[k].document, published |-> dom \in DOMAIN d.published] :
                                 k \in Rows(d, dom, DOMAIN d.draft)}
Exported(d, dom) == [i \in DOMAIN Tables |-> ExportTable(d, dom, Tables[i])]

(* data_import: rows in dependency order, the publication, then the users    *)
(* and roles that are disabled in the source.                                *)
ImportRows(src, dom) ==
    LET row(op, target, detail) == Cmd(op, dom, target, detail, "data", <<>>)
        each(set, f(_)) == LET q == SetToSeq(set) IN [i \in DOMAIN q |-> f(q[i])]
        sorted(set, before(_, _), f(_)) == LET q == SetToSortSeq(set, before) IN [i \in DOMAIN q |-> f(q[i])]
        t(i) == ExportTable(src, dom, Tables[i])
        off(set) == {r \in set : ~r.enabled}
    IN  <<row("domain_create", dom, "domain")>>
        \o each(t(1), LAMBDA r : row("user_create", r.id, r.type))
        \o sorted(t(2), LAMBDA g, h : g.depth < h.depth, LAMBDA g : row("group_create", g.id, g.parent))
        \o each(t(4), LAMBDA r : row("role_create", r.id, "role"))
        \o each(t(3), LAMBDA m : row("membership_add", m.user, m.group))
        \o each(t(5), LAMBDA m : row("user_role_add", m.user, m.role))
        \o sorted(t(6), LAMBDA p, q : p.ordinal < q.ordinal,
                  LAMBDA p : [row("rule_put", p.subject, p.document) EXCEPT !.kind = p.kind, !.ordinal = p.ordinal])
        \o (IF dom \in DOMAIN src.published THEN <<row("publish", dom, "policy")>> ELSE <<>>)
        \o each(off(t(1)), LAMBDA r : row("user_disable", r.id, None))
        \o each(off(t(4)), LAMBDA r : row("role_disable", r.id, None))
ImportPlan(call) ==
    LET rows == ImportRows(Source, call.dom)
    IN  [i \in DOMAIN rows |-> Step([rows[i] EXCEPT !.req = <<call.req, i>>], "read", 0, "fail")]
ImportPreflight(d, call) == IF d.domains \subseteq {System, call.dom} THEN "OK" ELSE "EBUSY"

CommandPlan(call, actor) ==
    <<Step([call.cmd EXCEPT !.actor = actor], "any", 0, "fail")>>

PlanOf(w) ==
    CASE w.call.kind = "bootstrap" -> BootstrapPlan
      [] w.call.kind = "admin" -> AdminPlan(w.call, w.caller.key[2])
      [] w.call.kind = "password" -> PasswordPlan(w.call, w.caller)
      [] w.call.kind = "import" -> ImportPlan(w.call)
      [] w.call.kind = "command" -> CommandPlan(w.call, w.caller.key[2])

-----------------------------------------------------------------------------
(* Callers *)

NoCaller == [key |-> <<None, None>>, permissions |-> {}]
ManagementRoles == {"viewer", "user_admin", "policy_admin", "security_admin", "system_admin"}
management_permissions(roles) ==
    IF MustChange \in roles THEN {"password_change"} ELSE roles \cap ManagementRoles
identity_resolve_principal(d, k) ==
    LET granted == management_permissions(effective_roles(d, k))
        usable == IF k[1] = System THEN granted ELSE granted \ {"system_admin"}
    IN  IF user_enabled(d, k) /\ usable # {} THEN [key |-> k, permissions |-> usable] ELSE NoCaller
caller_valid(caller, required) ==
    caller.permissions \cap {"security_admin", "system_admin", required} # {}

(* The commands that one method of the RPC, or one form, can send. *)
UserOps == {"user_create", "user_disable"}
GroupOps == {"group_create", "group_delete", "membership_add", "membership_remove"}
RoleOps == {"role_create", "role_disable", "user_role_add", "user_role_remove"}
CredentialOps == {"generate", "rotate", "credential_revoke"}
RuleOps == {"rule_put", "rule_delete"}
Required(op) ==
    CASE op \in UserOps \cup GroupOps -> "user_admin"
      [] op \in RuleOps \cup {"publish"} -> "policy_admin"
      [] op = "domain_create" -> "system_admin"
      [] op \in RoleOps \cup CredentialOps -> "security_admin"
(* What the service refuses before it reads the database. *)
management_authorize(call, caller) ==
    CASE call.kind = "command" ->
           /\ caller_valid(caller, Required(call.cmd.op))
           /\ caller.key[1] = (IF call.cmd.op = "domain_create" THEN System ELSE call.cmd.dom)
      [] call.kind = "admin" -> caller_valid(caller, "system_admin") /\ caller.key[1] = System
      [] call.kind = "password" -> caller_valid(caller, "password_change")

-----------------------------------------------------------------------------
(* Workers *)

Idle == [pc |-> "idle", call |-> [kind |-> "none"], caller |-> NoCaller, i |-> 0, at |-> 0,
         seen |-> NoRevisions, view |-> <<>>, token |-> None, owner |-> "armed"]
Main == "main"
Booting == [Idle EXCEPT !.pc = "preflight", !.call = [kind |-> "bootstrap"]]
Threads == Workers \cup {Main}

(* Where a worker goes to execute step i of its plan, or what it does after  *)
(* the last one.                                                             *)
StepPc(plan, i) ==
    IF i > Len(plan) THEN "done"
    ELSE IF plan[i].expect = "read" THEN "revision"
    ELSE IF plan[i].cmd.op \in {"generate", "rotate"} THEN "precheck" ELSE "commit"
Current(x) == PlanOf(x)[x.i]
Goto(x, pc) == [x EXCEPT !.pc = pc]
Advance(x) == [x EXCEPT !.i = @ + 1, !.pc = StepPc(PlanOf(x), x.i + 1)]
Command(x) ==
    IF Current(x).expect = "read" THEN [Current(x).cmd EXCEPT !.expected = x.at] ELSE Current(x).cmd

(* A call is over.  A failed bootstrap keeps the server from starting.       *)
Return(w, ok) ==
    /\ worker' = [worker EXCEPT ![w] = Idle]
    /\ process' = IF w = Main THEN (IF ok THEN "up" ELSE "refused") ELSE process
Continue(w, x) == worker' = [worker EXCEPT ![w] = x] /\ UNCHANGED process
(* What an answer of EALREADY leads to. *)
Duplicate(w, x) ==
    CASE Current(x).dup = "next" -> Continue(w, Advance(x))
      [] Current(x).dup = "check" -> Continue(w, Goto(x, "check"))
      [] Current(x).dup = "verify" -> Continue(w, Goto(x, "confirm"))
      [] Current(x).dup = "fail" -> Return(w, FALSE)

Init ==
    /\ scene \in DOMAIN Scenarios
    /\ db = Databases[scene]
    /\ process = IF Scenario.boot THEN "boot" ELSE "up"
    /\ worker = [w \in Threads |-> IF w = Main /\ Scenario.boot THEN Booting ELSE Idle]
    /\ now = 0 /\ crashes = 0 /\ sound = TRUE /\ guarded = Scenario.guarded
    /\ given = [t \in DOMAIN db.sessions |-> db.sessions[t].owner]

(* A request arrives, a login is submitted, or the data tool is run. *)
Begin(w, call) ==
    /\ process = "up" /\ worker[w].pc = "idle" /\ db.revision < Scenario.limit
    /\ \E t \in {None} \cup DOMAIN given :
         /\ (t # None) <=> (call.kind \in {"command", "admin", "password", "logout"})
         /\ t # None => given[t] = call.as
         /\ worker' = [worker EXCEPT ![w] = [Idle EXCEPT !.call = call, !.token = t, !.pc =
              CASE call.kind = "login" -> "login"
                [] call.kind \in {"import", "export"} -> "preflight"
                [] call.kind = "logout" -> "logout"
                [] OTHER -> "resolve"]]
    /\ UNCHANGED <<db, process, now, scene, crashes, given, sound, guarded>>

(* session_middleware: the token, then the principal behind it.              *)
SessionResolve(w) ==
    LET x == worker[w]
        a == management_session_resolve(db, x.token, now)
    IN  /\ x.pc = "resolve"
        /\ db' = a.db
        /\ IF a.rc = "OK"
           THEN Continue(w, [x EXCEPT !.pc = "identify", !.caller.key = db.sessions[x.token].owner])
           ELSE Return(w, FALSE)
        /\ UNCHANGED <<now, scene, crashes, given, sound, guarded>>
(* A principal that may do nothing loses the session.                        *)
IdentityResolve(w) ==
    LET x == worker[w]
        caller == identity_resolve_principal(db, x.caller.key)
        y == [x EXCEPT !.caller = caller, !.i = 1]
    IN  /\ x.pc = "identify" /\ x.call.kind # "login"
        /\ db' = IF caller = NoCaller THEN management_session_revoke(db, x.token) ELSE db
        /\ IF caller = NoCaller \/ ~management_authorize(x.call, caller) THEN Return(w, FALSE)
           ELSE Continue(w, Goto(y, IF x.call.kind = "admin" THEN "preflight" ELSE StepPc(PlanOf(y), 1)))
        /\ UNCHANGED <<now, scene, crashes, given, sound, guarded>>
Logout(w) ==
    /\ worker[w].pc = "logout"
    /\ db' = management_session_revoke(db, worker[w].token)
    /\ Return(w, TRUE)
    /\ UNCHANGED <<now, scene, crashes, given, sound, guarded>>

(* What a workflow looks at before its first command. *)
Preflight(w) ==
    LET x == worker[w]
        rc == CASE x.call.kind = "bootstrap" -> IF db.revision # 0 /\ System \notin db.domains THEN "EBUSY" ELSE "OK"
                [] x.call.kind = "admin" -> AdminPreflight(db, x.call)
                [] x.call.kind = "import" -> ImportPreflight(db, x.call)
                [] x.call.kind = "export" -> IF x.call.dom \in db.domains THEN "OK" ELSE "ENOENT"
        y == [x EXCEPT !.i = 1, !.at = db.revision]
    IN  /\ x.pc = "preflight"
        /\ IF rc # "OK" THEN Return(w, FALSE)
           ELSE Continue(w, Goto(y, IF x.call.kind = "export" THEN "table" ELSE StepPc(PlanOf(y), 1)))
        /\ UNCHANGED <<db, now, scene, crashes, given, sound, guarded>>

(* current_revision, read just before a command that expects it. *)
ReadRevision(w) ==
    LET x == [worker[w] EXCEPT !.at = db.revision]
    IN  /\ x.pc = "revision"
        /\ Continue(w, Goto(x, IF Current(x).first THEN "verify"
                               ELSE IF Current(x).cmd.op = "generate" THEN "precheck" ELSE "commit"))
        /\ UNCHANGED <<db, now, scene, crashes, given, sound, guarded>>

(* credential_verify inside a workflow: before generating a credential       *)
(* ("verify"), or to recognise a rotation that was already done ("confirm"). *)
VerifySecret(w) ==
    LET x == worker[w]
        c == Current(x).cmd
        v == credential_read(db, <<c.dom, c.target>>, c.secret)
    IN  /\ x.pc \in {"verify", "confirm"}
        /\ IF v.rc = "OK" THEN Continue(w, [x EXCEPT !.pc = "recheck", !.seen = v.seen])
           ELSE IF x.pc = "verify" THEN Continue(w, Goto(x, "precheck")) ELSE Return(w, FALSE)
        /\ UNCHANGED <<db, now, scene, crashes, given, sound, guarded>>
RecheckSecret(w) ==
    LET x == worker[w]
        c == Current(x).cmd
    IN  /\ x.pc = "recheck"
        /\ IF credential_recheck(db, <<c.dom, c.target>>, x.seen) = "OK"
           THEN Continue(w, Advance([x EXCEPT !.seen = NoRevisions])) ELSE Return(w, FALSE)
        /\ UNCHANGED <<db, now, scene, crashes, given, sound, guarded>>
(* The user that exists already must be usable. *)
CheckUser(w) ==
    LET x == worker[w]
        k == <<Current(x).cmd.dom, Current(x).cmd.target>>
    IN  /\ x.pc = "check"
        /\ IF user_enabled(db, k) /\ db.users[k].type = "human" THEN Continue(w, Advance(x)) ELSE Return(w, FALSE)
        /\ UNCHANGED <<db, now, scene, crashes, given, sound, guarded>>

CredentialPrecheck(w) ==
    LET x == worker[w]
        rc == credential_precheck(db, Command(x))
    IN  /\ x.pc = "precheck"
        /\ CASE rc = "OK" -> Continue(w, Goto(x, "commit"))
             [] rc = "EALREADY" -> Duplicate(w, x)
             [] OTHER -> Return(w, FALSE)
        /\ UNCHANGED <<db, now, scene, crashes, given, sound, guarded>>

(* What an OK answer to a command claims: the request is on record as asked, *)
(* under the revision the client is told.                                    *)
Claims(d, c, a) ==
    /\ c.req \in DOMAIN d.audit /\ SameRequest(d.audit[c.req], c)
    /\ a.revision = d.audit[c.req].revision /\ a.version = d.audit[c.req].version
CommitStep(w) ==
    LET x == worker[w]
        c == Command(x)
        a == Execute(db, c)
    IN  /\ x.pc = "commit"
        /\ db' = a.db
        /\ sound' = (sound /\ (a.rc = "OK" => Claims(a.db, c, a)))
        /\ CASE a.rc = "OK" /\ Current(x).exact \in {0, a.revision} -> Continue(w, Advance(x))
             [] a.rc = "EALREADY" -> Duplicate(w, x)
             [] OTHER -> Return(w, FALSE)
        /\ UNCHANGED <<now, scene, crashes, given, guarded>>

(* The last step of a call, with what its OK answer claims.                  *)
Initialised(d, k) ==
    /\ Active(d, k) /\ d.users[k].type = "human"
    /\ (IF k = Root THEN "system_admin" ELSE "security_admin") \in effective_roles(d, k)
Finish(w) ==
    LET x == worker[w]
        k == IF x.call.kind = "bootstrap" THEN Root ELSE <<x.call.dom, x.call.target>>
    IN  /\ x.pc = "done"
        /\ Return(w, x.call.kind = "bootstrap" => bootstrap_verify(db))
        /\ sound' = (sound /\ CASE x.call.kind = "admin" -> Initialised(db, k)
                                [] x.call.kind = "import" ->
                                     Exported(db, x.call.dom) = Exported(Source, x.call.dom)
                                [] OTHER -> TRUE)
        /\ guarded' = IF x.call.kind = "admin" \/ (x.call.kind = "bootstrap" /\ bootstrap_verify(db))
                      THEN guarded \cup {k} ELSE guarded
        \* a password changed on the dashboard ends the session it was changed in
        /\ db' = IF x.call.kind = "password" /\ x.call.dashboard
                 THEN management_session_revoke(db, x.token) ELSE db
        /\ UNCHANGED <<now, scene, crashes, given>>

(* data_export: one table after the other, then the revision once more.      *)
ExportStep(w) ==
    LET x == worker[w]
    IN  /\ x.pc = "table"
        /\ Continue(w, [x EXCEPT !.view = Append(@, ExportTable(db, x.call.dom, Tables[x.i])), !.i = @ + 1,
                                 !.pc = IF x.i = Len(Tables) THEN "compare" ELSE @])
        /\ UNCHANGED <<db, now, scene, crashes, given, sound, guarded>>
ExportFinish(w) ==
    LET x == worker[w]
    IN  /\ x.pc = "compare"
        /\ Return(w, db.revision = x.at)
        /\ sound' = (sound /\ (db.revision = x.at => x.view = Exported(db, x.call.dom)))
        /\ UNCHANGED <<db, now, scene, crashes, given, guarded>>

-----------------------------------------------------------------------------
(* Logins.  FlowieAuth models how a verification is cached and limited; here *)
(* it reads the credential, and takes the principal only if it is unchanged. *)
LoginVerify(w) ==
    LET x == worker[w]
        v == credential_read(db, x.call.as, x.call.secret)
    IN  /\ x.pc = "login"
        /\ IF v.rc = "OK" THEN Continue(w, [x EXCEPT !.pc = "snapshot", !.seen = v.seen]) ELSE Return(w, FALSE)
        /\ UNCHANGED <<db, now, scene, crashes, given, sound, guarded>>
LoginSnapshot(w) ==
    LET x == worker[w]
    IN  /\ x.pc = "snapshot"
        /\ IF principal_snapshot(db, x.call.as, x.seen).rc # "OK" THEN Return(w, FALSE)
           ELSE Continue(w, Goto(x, "identify"))
        /\ UNCHANGED <<db, now, scene, crashes, given, sound, guarded>>
LoginIdentify(w) ==
    LET x == worker[w]
    IN  /\ x.pc = "identify" /\ x.call.kind = "login"
        /\ IF identity_resolve_principal(db, x.call.as) = NoCaller THEN Return(w, FALSE)
           ELSE Continue(w, Goto(x, "issue"))
        /\ UNCHANGED <<db, now, scene, crashes, given, sound, guarded>>
Unused == Tokens \ (DOMAIN given \cup DOMAIN db.sessions \cup {worker[w].token : w \in Threads})
LoginIssue(w) ==
    LET x == worker[w]
    IN  /\ x.pc = "issue"
        /\ \E t \in Unused :
             /\ db' = management_session_issue(db, t, x.call.as, now + Ttl, SessionCapacity,
                                               SessionsPerPrincipal, now)
             /\ Continue(w, [x EXCEPT !.pc = "completed", !.token = t])
        /\ UNCHANGED <<now, scene, crashes, given, sound, guarded>>
(* The owner of the job takes the token of a login it saw completed ...      *)
LoginAccept(w) ==
    LET x == worker[w]
    IN  /\ x.pc = "completed" /\ x.owner = "armed"
        /\ given' = Put(given, x.token, x.call.as)
        /\ Return(w, TRUE)
        /\ UNCHANGED <<db, now, scene, crashes, sound, guarded>>
(* ... or, not having seen that at its deadline, abandons the job.           *)
LoginAbandon(w) ==
    LET x == worker[w]
    IN  /\ x.call.kind = "login" /\ x.owner = "armed"
        /\ Continue(w, [x EXCEPT !.owner = "abandoned"])
        /\ UNCHANGED <<db, now, scene, crashes, given, sound, guarded>>
LoginRevoke_Forget(w) ==
    /\ worker[w].pc = "completed" /\ worker[w].owner = "abandoned"
    /\ Return(w, FALSE)
    /\ UNCHANGED <<db, now, scene, crashes, given, sound, guarded>>
LoginRevoke(w) ==
    LET x == worker[w]
    IN  /\ x.pc = "completed" /\ x.owner = "abandoned"
        /\ db' = management_session_revoke(db, x.token)
        /\ Return(w, FALSE)
        /\ UNCHANGED <<now, scene, crashes, given, sound, guarded>>

-----------------------------------------------------------------------------
Tick == now < Scenario.time /\ now' = now + 1 /\ UNCHANGED <<db, process, worker, scene, crashes, given, sound, guarded>>
(* The process dies: only the database is left, and the next start begins    *)
(* with the bootstrap.                                                       *)
Crash ==
    /\ crashes < Scenario.crashes /\ process # "refused"
    /\ crashes' = crashes + 1 /\ process' = "boot"
    /\ worker' = [w \in Threads |-> IF w = Main THEN Booting ELSE Idle]
    /\ UNCHANGED <<db, now, scene, given, sound, guarded>>

Run(w) ==
    \/ SessionResolve(w) \/ IdentityResolve(w) \/ Logout(w) \/ Preflight(w) \/ ReadRevision(w)
    \/ VerifySecret(w) \/ RecheckSecret(w) \/ CheckUser(w) \/ CredentialPrecheck(w) \/ CommitStep(w)
    \/ Finish(w) \/ ExportStep(w) \/ ExportFinish(w) \/ LoginVerify(w) \/ LoginSnapshot(w)
    \/ LoginIdentify(w) \/ LoginIssue(w) \/ LoginAccept(w) \/ LoginRevoke(w)
Next ==
    \/ \E w \in Workers : \E i \in DOMAIN Scenario.calls : Begin(w, Scenario.calls[i])
    \/ \E w \in Threads : Run(w)
    \/ \E w \in Workers : LoginAbandon(w)
    \/ Tick \/ Crash
Spec == Init /\ [][Next]_vars

-----------------------------------------------------------------------------
(* Properties *)

(* Every worker is at a point of the program that its call can reach, and    *)
(* the sessions are ordered twice, each exactly once in either order.        *)
TypeOK ==
    /\ process \in {"boot", "up", "refused"} /\ now \in 0..Scenario.time /\ crashes \in 0..Scenario.crashes
    /\ \A w \in Threads : LET x == worker[w] IN
         /\ x.pc \in {"verify", "recheck", "check", "precheck", "commit"} => x.i \in DOMAIN PlanOf(x)
         /\ x.pc \in {"snapshot", "issue", "completed"} => x.call.kind = "login"
         /\ x.owner = "abandoned" => x.call.kind = "login"
    /\ \A q \in {db.issued, db.used} :
         {q[i] : i \in DOMAIN q} = DOMAIN db.sessions /\ Len(q) = Cardinality(DOMAIN db.sessions)
    /\ sound \in BOOLEAN /\ guarded \subseteq DOMAIN db.users

(* Every OK the control plane answered was true when it was given: a command *)
(* is on record under the revision told (also for a retry), an initialised   *)
(* administrator can log in and has the role, an import left the domain as   *)
(* the source has it, and an export holds the domain of a single revision    *)
(* although every table was read in a transaction of its own.  And the       *)
(* bootstrap can always be repeated: whatever it had done when the process   *)
(* died, and whatever was done since, the server starts.                     *)
AnswersSound == sound /\ process # "refused"

(* No order of commands leaves a row whose referent is gone or disabled:     *)
(* groups hang below groups, members are users and groups, an assigned role  *)
(* exists, a rule of the draft or of the published policy names a subject    *)
(* that is enabled, ordinals are unique, and no user exceeds the limits that *)
(* a principal has room for.  The revision counts the commands that took     *)
(* effect: each one left one audit row, however often it was retried.        *)
DatabaseIntegrity ==
    /\ TypeOK
    /\ {db.audit[r].revision : r \in DOMAIN db.audit} = 1..db.revision
    /\ Cardinality(DOMAIN db.audit) = db.revision
    /\ \A k \in DOMAIN db.groups :
         LET g == db.groups[k] IN
         /\ g.depth \in 0..MaxDepth
         /\ IF g.parent = None THEN g.depth = 0
            ELSE <<k[1], g.parent>> \in DOMAIN db.groups /\ db.groups[<<k[1], g.parent>>].depth = g.depth - 1
    /\ \A m \in db.members : <<m[1], m[2]>> \in DOMAIN db.users /\ <<m[1], m[3]>> \in DOMAIN db.groups
    /\ \A m \in db.userRoles : <<m[1], m[2]>> \in DOMAIN db.users /\ <<m[1], m[3]>> \in DOMAIN db.roles
    /\ \A r \in DOMAIN db.draft :
         /\ policy_subject_enabled(db, r[1], r[2], r[3])
         /\ \A q \in DOMAIN db.draft \ {r} : q[1] = r[1] => db.draft[q].ordinal # db.draft[r].ordinal
    /\ \A dom \in DOMAIN db.published : \A r \in db.published[dom].rules :
         policy_subject_enabled(db, dom, r.kind, r.subject)
    /\ \A k \in DOMAIN db.users :
         /\ Cardinality(effective_groups(db, k)) <= MaxGroups
         /\ Cardinality(effective_roles(db, k)) <= MaxRoles

(* Once an administrator was initialised, by the bootstrap or on request,    *)
(* they hold password_change_required for as long as the password is the     *)
(* initial one: no retry, crash or concurrent change frees them of it.       *)
InitialPasswordGuarded ==
    \A k \in guarded : db.creds[k].secret = "initial" => MustChange \in effective_roles(db, k)

(* The obligation is dropped once and for all: neither a restart, which      *)
(* repeats the bootstrap, nor a job that outlived its caller imposes it      *)
(* again after the password was changed.                                     *)
ObligationNotReimposed ==
    [][\A k \in guarded : MustChange \notin effective_roles(db, k) => MustChange \notin effective_roles(db', k)]_vars

(* A session that exists was handed to a client or is still in the hands of  *)
(* the job that issued it, which will hand it over or revoke it; only a      *)
(* crash can leave one behind.  And no limit on sessions is ever exceeded.   *)
SessionsAccountedFor ==
    /\ \A t \in DOMAIN db.sessions :
         t \in DOMAIN given \/ crashes > 0 \/ \E w \in Workers : worker[w].pc = "completed" /\ worker[w].token = t
    /\ Cardinality(DOMAIN db.sessions) <= SessionCapacity
    /\ \A t \in DOMAIN db.sessions :
         Cardinality({u \in DOMAIN db.sessions : db.sessions[u].owner = db.sessions[t].owner}) <= SessionsPerPrincipal
=============================================================================
