----------------------------- MODULE FlowieStore -----------------------------
(***************************************************************************)
(* The control database (control/flowie_control_store.c): identities,      *)
(* groups, roles, credentials, the draft and the published policy, the     *)
(* audit log and the management sessions.  A database is a record `d'; a   *)
(* table is a function from its primary key to its row, or a set when the  *)
(* row carries nothing else.                                               *)
(*                                                                         *)
(* Every function of the store is one serializable transaction, so it is   *)
(* an operator from a database and a command to an answer, which holds the *)
(* result code, the revision told to the caller and the database left      *)
(* behind.  Only issuing and verifying a credential take more than one     *)
(* transaction, because the key derivation runs outside the database.      *)
(***************************************************************************)
EXTENDS Integers, FiniteSets, Sequences

CONSTANTS
    MaxRevision,   \* INT64_MAX: a revision that cannot be advanced
    MaxGroups,     \* FLOWIE_SECURITY_MAX_GROUPS
    MaxRoles,      \* FLOWIE_SECURITY_MAX_ROLES
    MaxDepth       \* FLOWIE_CONTROL_GROUP_MAX_DEPTH

ASSUME StoreAssumption == {MaxRevision, MaxGroups, MaxRoles, MaxDepth} \subseteq Nat

None == "none"

Put(f, k, v) == [x \in DOMAIN f \cup {k} |-> IF x = k THEN v ELSE f[x]]
Drop(f, k) == [x \in DOMAIN f \ {k} |-> f[x]]

EmptyDatabase ==
    [revision |-> 0, domains |-> {}, users |-> <<>>, creds |-> <<>>, groups |-> <<>>,
     members |-> {}, roles |-> <<>>, userRoles |-> {}, draft |-> <<>>, published |-> <<>>,
     audit |-> <<>>, sessions |-> <<>>, issued |-> <<>>, used |-> <<>>]

Answer(d, rc, row, replayed) ==
    [db |-> d, rc |-> rc, revision |-> row.revision, version |-> row.version, replayed |-> replayed]
Reply(d, rc) == Answer(d, rc, [revision |-> 0, version |-> 0], FALSE)

(***************************************************************************)
(* A command is a record: the operation, the domain, the target, a detail, *)
(* the request id, the actor and the expected revision (0: any).  The      *)
(* audit row of a request is also what answers its replays.                *)
(***************************************************************************)
SameRequest(a, c) ==
    /\ a.op = c.op /\ a.actor = c.actor /\ a.dom = c.dom /\ a.target = c.target
    /\ c.detail = None \/ a.detail = c.detail
replay_CurrentRevision(d, c) ==
    IF SameRequest(d.audit[c.req], c) THEN Answer(d, "OK", [revision |-> d.revision, version |-> 0], TRUE)
    ELSE Reply(d, "EBUSY")
replay(d, c) ==
    IF SameRequest(d.audit[c.req], c) THEN Answer(d, "OK", d.audit[c.req], TRUE)
    ELSE Reply(d, "EBUSY")
Replayed(d, c) == c.req \in DOMAIN d.audit

(* The row also carries the policy version that a publication produced       *)
(* (flowie_control_policy_publish_result).                                   *)
insert_audit(d, c) ==
    [d EXCEPT !.revision = @ + 1,
              !.audit = Put(@, c.req, [op |-> c.op, actor |-> c.actor, dom |-> c.dom, target |-> c.target,
                                       detail |-> c.detail, revision |-> d.revision + 1,
                                       version |-> IF c.op = "publish" THEN d.published[c.dom].version ELSE 0])]

(* The frame of every command: replay, the expected revision, the checks of  *)
(* the command in `rc', then its tables with the next revision and an audit. *)
Transact(d, c, rc, tables) ==
    IF Replayed(d, c) THEN replay(d, c)
    ELSE IF c.expected \notin {0, d.revision} THEN Reply(d, "EBUSY")
    ELSE IF rc # "OK" THEN Reply(d, rc)
    ELSE IF d.revision >= MaxRevision THEN Reply(d, "ERANGE")
    ELSE LET e == insert_audit(tables, c) IN Answer(e, "OK", e.audit[c.req], FALSE)

-----------------------------------------------------------------------------
(* Lookups *)

user_enabled(d, k) == k \in DOMAIN d.users /\ d.users[k].enabled
role_enabled(d, k) == k \in DOMAIN d.roles /\ d.roles[k]
Rows(d, dom, table) == {k \in table : k[1] = dom}

(* The groups of a user and all their ancestors. *)
effective_groups(d, k) ==
    LET up[n \in 0..MaxDepth] ==
          IF n = 0 THEN {m[3] : m \in {x \in d.members : <<x[1], x[2]>> = k}}
          ELSE up[n - 1] \cup ({d.groups[<<k[1], g>>].parent : g \in up[n - 1]} \ {None})
    IN  up[MaxDepth]
effective_roles(d, k) == {r \in {a[3] : a \in {x \in d.userRoles : <<x[1], x[2]>> = k}} :
                            role_enabled(d, <<k[1], r>>)}

policy_subject_enabled(d, dom, kind, id) ==
    CASE kind = "user"  -> user_enabled(d, <<dom, id>>)
      [] kind = "role"  -> role_enabled(d, <<dom, id>>)
      [] kind = "group" -> <<dom, id>> \in DOMAIN d.groups
PublishedRules(d, dom) == IF dom \in DOMAIN d.published THEN d.published[dom].rules ELSE {}
policy_subject_referenced(d, dom, kind, id) ==
    \/ <<dom, kind, id>> \in DOMAIN d.draft
    \/ \E r \in PublishedRules(d, dom) : r.kind = kind /\ r.subject = id

-----------------------------------------------------------------------------
(* Domains, groups and users *)

domain_create(d, c) ==
    Transact(d, c, IF c.dom \in d.domains THEN "EALREADY" ELSE "OK",
             [d EXCEPT !.domains = @ \cup {c.dom}])

(* The detail of a group's creation is its parent. *)
GroupCreateCheck(d, c) ==
    LET parent == <<c.dom, c.detail>>
    IN  IF c.detail = None /\ c.dom \notin d.domains THEN "ENOENT"
        ELSE IF c.detail # None /\ parent \notin DOMAIN d.groups THEN "ENOENT"
        ELSE IF c.detail # None /\ d.groups[parent].depth >= MaxDepth THEN "ENOSPC"
        ELSE IF <<c.dom, c.target>> \in DOMAIN d.groups THEN "EALREADY" ELSE "OK"
group_create(d, c) ==
    Transact(d, c, GroupCreateCheck(d, c),
             [d EXCEPT !.groups = Put(@, <<c.dom, c.target>>,
                [parent |-> c.detail,
                 depth |-> IF c.detail = None THEN 0 ELSE d.groups[<<c.dom, c.detail>>].depth + 1])])

group_references(d, dom, g) ==
    \/ \E x \in Rows(d, dom, DOMAIN d.groups) : d.groups[x].parent = g
    \/ \E m \in d.members : m[1] = dom /\ m[3] = g
GroupDeleteCheck(d, c) ==
    IF <<c.dom, c.target>> \notin DOMAIN d.groups THEN "ENOENT"
    ELSE IF \/ group_references(d, c.dom, c.target)
            \/ policy_subject_referenced(d, c.dom, "group", c.target) THEN "EBUSY"
    ELSE "OK"
group_delete(d, c) ==
    Transact(d, c, GroupDeleteCheck(d, c), [d EXCEPT !.groups = Drop(@, <<c.dom, c.target>>)])

user_create(d, c) ==
    Transact(d, c, IF c.dom \notin d.domains THEN "ENOENT"
                   ELSE IF <<c.dom, c.target>> \in DOMAIN d.users THEN "EALREADY" ELSE "OK",
             [d EXCEPT !.users = Put(@, <<c.dom, c.target>>,
                                     [type |-> c.detail, enabled |-> TRUE, revision |-> d.revision + 1])])

UserDisableCheck_Unreferenced(d, c) ==
    IF <<c.dom, c.target>> \notin DOMAIN d.users THEN "ENOENT"
    ELSE IF ~user_enabled(d, <<c.dom, c.target>>) THEN "EALREADY" ELSE "OK"
UserDisableCheck(d, c) ==
    IF <<c.dom, c.target>> \notin DOMAIN d.users THEN "ENOENT"
    ELSE IF ~user_enabled(d, <<c.dom, c.target>>) THEN "EALREADY"
    ELSE IF policy_subject_referenced(d, c.dom, "user", c.target) THEN "EBUSY"
    ELSE "OK"
user_disable(d, c) ==
    Transact(d, c, UserDisableCheck(d, c),
             [d EXCEPT !.users[<<c.dom, c.target>>].enabled = FALSE,
                       !.users[<<c.dom, c.target>>].revision = d.revision + 1])

(* The detail of a membership is the group, that of an assignment the role. *)
Member(c) == <<c.dom, c.target, c.detail>>
MembershipAddCheck(d, c) ==
    LET k == <<c.dom, c.target>>
        after == [d EXCEPT !.members = @ \cup {Member(c)}]
    IN  IF k \notin DOMAIN d.users THEN "ENOENT"
        ELSE IF ~user_enabled(d, k) THEN "EPERM"
        ELSE IF <<c.dom, c.detail>> \notin DOMAIN d.groups THEN "ENOENT"
        ELSE IF Member(c) \in d.members THEN "EALREADY"
        ELSE IF Cardinality(effective_groups(after, k)) > MaxGroups THEN "ENOSPC"
        ELSE "OK"
membership_add(d, c) ==
    Transact(d, c, MembershipAddCheck(d, c), [d EXCEPT !.members = @ \cup {Member(c)}])
membership_remove(d, c) ==
    Transact(d, c, IF Member(c) \in d.members THEN "OK" ELSE "ENOENT",
             [d EXCEPT !.members = @ \ {Member(c)}])

-----------------------------------------------------------------------------
(* Roles *)

role_create(d, c) ==
    Transact(d, c, IF c.dom \notin d.domains THEN "ENOENT"
                   ELSE IF <<c.dom, c.target>> \in DOMAIN d.roles THEN "EALREADY" ELSE "OK",
             [d EXCEPT !.roles = Put(@, <<c.dom, c.target>>, TRUE)])

RoleDisableCheck(d, c) ==
    IF <<c.dom, c.target>> \notin DOMAIN d.roles THEN "ENOENT"
    ELSE IF ~role_enabled(d, <<c.dom, c.target>>) THEN "EALREADY"
    ELSE IF policy_subject_referenced(d, c.dom, "role", c.target) THEN "EBUSY"
    ELSE "OK"
role_disable(d, c) ==
    Transact(d, c, RoleDisableCheck(d, c), [d EXCEPT !.roles[<<c.dom, c.target>>] = FALSE])

UserRoleAddCheck(d, c) ==
    LET k == <<c.dom, c.target>>
        r == <<c.dom, c.detail>>
    IN  IF k \notin DOMAIN d.users THEN "ENOENT"
        ELSE IF ~user_enabled(d, k) THEN "EPERM"
        ELSE IF r \notin DOMAIN d.roles THEN "ENOENT"
        ELSE IF ~role_enabled(d, r) THEN "EPERM"
        ELSE IF Member(c) \in d.userRoles THEN "EALREADY"
        ELSE IF Cardinality(effective_roles(d, k)) >= MaxRoles THEN "ENOSPC"
        ELSE "OK"
user_role_add_OnReplayToo(d, c) ==
    LET e == [d EXCEPT !.userRoles = @ \cup {Member(c)}]
    IN  IF Replayed(d, c) THEN replay(e, c) ELSE Transact(d, c, UserRoleAddCheck(d, c), e)
user_role_add(d, c) ==
    Transact(d, c, UserRoleAddCheck(d, c), [d EXCEPT !.userRoles = @ \cup {Member(c)}])
user_role_remove(d, c) ==
    Transact(d, c, IF Member(c) \in d.userRoles THEN "OK" ELSE "ENOENT",
             [d EXCEPT !.userRoles = @ \ {Member(c)}])

-----------------------------------------------------------------------------
(* Credentials.  A credential holds a secret in place of its salted hash.    *)

CredentialIssueCheck(d, c) ==
    LET k == <<c.dom, c.target>>
    IN  IF k \notin DOMAIN d.users THEN "ENOENT"
        ELSE IF ~user_enabled(d, k) THEN "EPERM"
        ELSE IF c.op = "rotate" /\ k \notin DOMAIN d.creds THEN "ENOENT"
        ELSE IF c.op = "generate" /\ k \in DOMAIN d.creds THEN "EALREADY"
        ELSE "OK"
(* A replay is refused: the secret of the first answer is not kept. *)
NoReplay(a) == IF a.replayed THEN Reply(a.db, "EALREADY") ELSE a
(* The look before the key derivation, outside a transaction. *)
credential_precheck(d, c) ==
    LET a == NoReplay(Transact(d, c, CredentialIssueCheck(d, c), d)) IN IF a.rc = "ERANGE" THEN "OK" ELSE a.rc
credential_issue(d, c) ==
    NoReplay(Transact(d, c, CredentialIssueCheck(d, c),
             [d EXCEPT !.creds = Put(@, <<c.dom, c.target>>,
                                     [secret |-> c.secret, enabled |-> TRUE, revision |-> d.revision + 1])]))

CredentialRevokeCheck(d, c) ==
    LET k == <<c.dom, c.target>>
    IN  IF k \notin DOMAIN d.users \/ k \notin DOMAIN d.creds THEN "ENOENT"
        ELSE IF ~d.creds[k].enabled THEN "EALREADY" ELSE "OK"
credential_revoke(d, c) ==
    Transact(d, c, CredentialRevokeCheck(d, c),
             [d EXCEPT !.creds[<<c.dom, c.target>>].enabled = FALSE,
                       !.creds[<<c.dom, c.target>>].revision = d.revision + 1])

(* The revisions a verification or a cached candidate is checked against. *)
NoRevisions == [user |-> 0, credential |-> 0]
Revisions(d, k) == [user |-> d.users[k].revision, credential |-> d.creds[k].revision]
Active(d, k) == user_enabled(d, k) /\ k \in DOMAIN d.creds /\ d.creds[k].enabled
(* credential_verify reads, derives outside the database, and reads again. *)
credential_read(d, k, secret) ==
    IF Active(d, k) /\ d.creds[k].secret = secret THEN [rc |-> "OK", seen |-> Revisions(d, k)]
    ELSE [rc |-> "EPERM", seen |-> NoRevisions]
credential_recheck(d, k, seen) ==
    IF Active(d, k) /\ Revisions(d, k) = seen THEN "OK" ELSE "EBUSY"
credential_state(d, k) == IF Active(d, k) THEN Revisions(d, k) ELSE NoRevisions
(* The one domain in which the principal may log in, or None. *)
credential_resolve(d, u) ==
    LET doms == {x \in d.domains : Active(d, <<x, u>>)}
    IN  IF Cardinality(doms) = 1 THEN CHOOSE x \in doms : TRUE ELSE None

PrincipalIf(d, k, ok) ==
    IF ok THEN [rc |-> "OK", groups |-> effective_groups(d, k), roles |-> effective_roles(d, k)]
    ELSE [rc |-> "EPERM", groups |-> {}, roles |-> {}]
principal_snapshot(d, k, seen) == PrincipalIf(d, k, Active(d, k) /\ Revisions(d, k) = seen)
external_principal_snapshot(d, k) == PrincipalIf(d, k, user_enabled(d, k))

-----------------------------------------------------------------------------
(* Policy.  A document is a name; its subject is the target of the command.  *)

RuleKey(c) == <<c.dom, c.kind, c.target>>
OrdinalTaken(d, c) == \E x \in Rows(d, c.dom, DOMAIN d.draft) \ {RuleKey(c)} : d.draft[x].ordinal = c.ordinal
SubjectCheck(d, dom, kind, id) ==
    IF policy_subject_enabled(d, dom, kind, id) THEN "OK"
    ELSE IF \/ kind = "user" /\ <<dom, id>> \in DOMAIN d.users
            \/ kind = "role" /\ <<dom, id>> \in DOMAIN d.roles THEN "EPERM"
    ELSE "ENOENT"
RulePutCheck(d, c) ==
    IF c.dom \notin d.domains THEN "ENOENT"
    ELSE IF SubjectCheck(d, c.dom, c.kind, c.target) # "OK" THEN SubjectCheck(d, c.dom, c.kind, c.target)
    ELSE IF OrdinalTaken(d, c) THEN "EINVAL" ELSE "OK"
policy_subject_rule_put(d, c) ==
    Transact(d, c, RulePutCheck(d, c),
             [d EXCEPT !.draft = Put(@, RuleKey(c), [ordinal |-> c.ordinal, document |-> c.detail])])
policy_subject_rule_delete(d, c) ==
    Transact(d, c, IF RuleKey(c) \in DOMAIN d.draft THEN "OK" ELSE "ENOENT",
             [d EXCEPT !.draft = Drop(@, RuleKey(c))])

Compiled(d, dom) == {[kind |-> x[2], subject |-> x[3], document |-> d.draft[x].document] :
                       x \in Rows(d, dom, DOMAIN d.draft)}
policy_validate(d, dom) ==
    IF Rows(d, dom, DOMAIN d.draft) = {} THEN "ENOENT"
    ELSE IF \A r \in Compiled(d, dom) : policy_subject_enabled(d, dom, r.kind, r.subject) THEN "OK"
    ELSE "EPERM"
policy_version(d, dom) == IF dom \in DOMAIN d.published THEN d.published[dom].version ELSE 0
(* The version a publication produced is kept by its request for replays. *)
policy_publish(d, c) ==
    Transact(d, c, policy_validate(d, c.dom),
             [d EXCEPT !.published = Put(@, c.dom, [version |-> policy_version(d, c.dom) + 1,
                                                    rules |-> Compiled(d, c.dom)])])

-----------------------------------------------------------------------------
(* Management sessions.  The two sequence columns only order the sessions:   *)
(* `issued' lists the tokens by issued_sequence, `used' by last_used.        *)

Without(seq, gone) == SelectSeq(seq, LAMBDA t : t \notin gone)
RemoveSessions(d, gone) ==
    [d EXCEPT !.sessions = [t \in DOMAIN @ \ gone |-> @[t]],
              !.issued = Without(@, gone), !.used = Without(@, gone)]
FirstOf(seq, n) == {seq[i] : i \in 1..n}
Over(n, max) == IF n >= max THEN n - max + 1 ELSE 0
session_delete_expired(d, now) ==
    RemoveSessions(d, {t \in DOMAIN d.sessions : d.sessions[t].expires <= now})
session_evict_principal(d, k, max) ==
    LET own == SelectSeq(d.issued, LAMBDA t : d.sessions[t].owner = k)
    IN  RemoveSessions(d, FirstOf(own, Over(Len(own), max)))
session_evict_global(d, capacity) ==
    RemoveSessions(d, FirstOf(d.used, Over(Len(d.used), capacity)))
management_session_issue(d, t, k, expires, capacity, max, now) ==
    LET e == session_evict_global(session_evict_principal(session_delete_expired(d, now), k, max), capacity)
    IN  [e EXCEPT !.sessions = Put(@, t, [owner |-> k, expires |-> expires]),
                  !.issued = Append(@, t), !.used = Append(@, t)]
management_session_resolve(d, t, now) ==
    IF t \notin DOMAIN d.sessions THEN Reply(d, "ENOENT")
    ELSE IF now >= d.sessions[t].expires THEN Reply(RemoveSessions(d, {t}), "ENOENT")
    ELSE Reply([d EXCEPT !.used = Append(Without(@, {t}), t)], "OK")
management_session_revoke(d, t) == RemoveSessions(d, {t})

-----------------------------------------------------------------------------
Operations ==
    {"domain_create", "group_create", "group_delete", "user_create", "user_disable", "membership_add",
     "membership_remove", "role_create", "role_disable", "user_role_add", "user_role_remove", "generate",
     "rotate", "credential_revoke", "rule_put", "rule_delete", "publish"}
(* One command of the store by the name of its operation. *)
Execute(d, c) ==
    CASE c.op = "domain_create" -> domain_create(d, c)
      [] c.op = "group_create" -> group_create(d, c)
      [] c.op = "group_delete" -> group_delete(d, c)
      [] c.op = "user_create" -> user_create(d, c)
      [] c.op = "user_disable" -> user_disable(d, c)
      [] c.op = "membership_add" -> membership_add(d, c)
      [] c.op = "membership_remove" -> membership_remove(d, c)
      [] c.op = "role_create" -> role_create(d, c)
      [] c.op = "role_disable" -> role_disable(d, c)
      [] c.op = "user_role_add" -> user_role_add(d, c)
      [] c.op = "user_role_remove" -> user_role_remove(d, c)
      [] c.op \in {"generate", "rotate"} -> credential_issue(d, c)
      [] c.op = "credential_revoke" -> credential_revoke(d, c)
      [] c.op = "rule_put" -> policy_subject_rule_put(d, c)
      [] c.op = "rule_delete" -> policy_subject_rule_delete(d, c)
      [] c.op = "publish" -> policy_publish(d, c)
=============================================================================
