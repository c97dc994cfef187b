----------------------------- MODULE FlowiePolicy -----------------------------
(***************************************************************************)
(* The access policy, from the document an administrator saves to the      *)
(* decision about one connect, publish or subscribe: the document language *)
(* (control/flowie_control_acl.c), the dry run and the publication         *)
(* (control/flowie_control_store.c), the check a broker sends to the       *)
(* control plane (server/flowie_server_http_security.c,                    *)
(* control/flowie_control_acl_iris_endpoint.c) and the evaluation          *)
(* (flowie/src/flowie_security.c, flowie/src/flowie.c).                    *)
(*                                                                         *)
(* A check is one HTTP exchange during which the control plane makes two   *)
(* transactions; administrators save and publish between them.             *)
(***************************************************************************)
EXTENDS FlowieStore, FlowieTopicIndex, TLC

CONSTANTS
    Plain,             \* level names of static characters without '$'
    Alternatives,      \* "{a,b}" -> the sequence of its items
    RolePlaceholders,  \* "%<role>" -> the role
    ClientRoles,       \* client id -> the roles it ends with -> what is in front of "-<role>"
    NotSegments,       \* the names that are empty or hold a '/', '+' or '#'
    Documents,         \* name -> [kind, subject, connection, entries], an entry being
                       \*         [effect, actions, topic |-> sequence of levels]
    MaxPattern,        \* FLOWIE_SECURITY_PATTERN_MAX, in levels
    MaxEntries,        \* FLOWIE_CONTROL_ACL_MAX_ENTRIES
    MaxAlternatives,   \* FLOWIE_CONTROL_ACL_MAX_ALTERNATIVES
    MaxPolicyRules,    \* FLOWIE_SECURITY_MAX_RULES
    PrincipalTtl,      \* auth.principal_ttl
    PolicyScenarios    \* a sequence of
                       \*   [start |-> the commands that made the database,
                       \*    key |-> the user of the session,
                       \*    clients |-> its possible client ids, requests |-> what it may ask,
                       \*    changes |-> what one administrator tries and saves,
                       \*    publish |-> the command that then publishes it,
                       \*    others |-> commands of the other administrators,
                       \*    checks, edits, faults, now |-> bounds on checks, commands of others,
                       \*                                   failing exchanges and the clock]

ASSUME PolicyAssumption ==
    {MaxPattern, MaxEntries, MaxAlternatives, MaxPolicyRules, PrincipalTtl} \subseteq Nat \ {0}

FirstError(rcs) == LET bad == SelectSeq(rcs, LAMBDA r : r # "OK") IN IF bad = <<>> THEN "OK" ELSE Head(bad)

-----------------------------------------------------------------------------
(* The document language.  The text of a document is its first line and its  *)
(* entries; an entry that allows is written without an effect.               *)

topic_static(s, dollar) == s \in Plain \/ (dollar /\ s \in Dollar)
AlternativeRc(items, i) ==
    IF ~topic_static(items[i], TRUE) THEN "EPROTO"
    ELSE IF i > MaxAlternatives THEN "ENOSPC"
    ELSE IF \E j \in 1..i - 1 : items[j] = items[i] THEN "EPROTO" ELSE "OK"
topic_alternatives(items) ==
    FirstError([i \in DOMAIN items |-> AlternativeRc(items, i)] \o <<IF Len(items) < 2 THEN "EPROTO" ELSE "OK">>)

Placeholders == {"%u", "%c"} \cup DOMAIN RolePlaceholders
SegmentRc(s, first, final) ==
    IF first THEN (IF topic_static(s, FALSE) THEN "OK" ELSE "EPROTO")
    ELSE IF s = "#" THEN (IF final THEN "OK" ELSE "EPROTO")
    ELSE IF s \in Placeholders THEN "OK"
    ELSE IF s \in DOMAIN Alternatives THEN (IF final THEN topic_alternatives(Alternatives[s]) ELSE "EPROTO")
    ELSE IF s = "+" \/ topic_static(s, TRUE) THEN "OK" ELSE "EPROTO"
acl_topic_parse(levels) ==
    IF Len(levels) > MaxPattern THEN "ENOSPC"
    ELSE FirstError([i \in DOMAIN levels |-> SegmentRc(levels[i], i = 1, i = Len(levels))]
                      \o <<IF Len(levels) < 2 THEN "EPROTO" ELSE "OK">>)
alternative_count(levels) ==
    IF Last(levels) \in DOMAIN Alternatives THEN Len(Alternatives[Last(levels)]) ELSE 1

access_name(actions) ==
    IF actions = {"subscribe"} THEN "read" ELSE IF actions = {"publish"} THEN "write" ELSE "readwrite"
access_mode(name) ==
    CASE name = "read" -> {"subscribe"} [] name = "write" -> {"publish"}
      [] name = "readwrite" -> {"publish", "subscribe"}
acl_format(doc) ==
    [kind |-> doc.kind, subject |-> doc.subject, connection |-> doc.connection,
     lines |-> [i \in DOMAIN doc.entries |->
                  [effect |-> IF doc.entries[i].effect = "deny" THEN "deny" ELSE "",
                   access |-> access_name(doc.entries[i].actions), topic |-> doc.entries[i].topic]]]

(* An entry is parsed, then added if there is room; the whole is accepted    *)
(* last, and refused if it denies the connection and yet has entries.        *)
acl_entry_add(line, i) ==
    IF acl_topic_parse(line.topic) # "OK" THEN acl_topic_parse(line.topic)
    ELSE IF i > MaxEntries THEN "ENOSPC" ELSE "OK"
parse_accept(text) == IF text.connection = "deny" /\ text.lines # <<>> THEN "EPROTO" ELSE "OK"
acl_parse(text) ==
    [rc |-> FirstError(Append([i \in DOMAIN text.lines |-> acl_entry_add(text.lines[i], i)], parse_accept(text))),
     document |-> [kind |-> text.kind, subject |-> text.subject, connection |-> text.connection,
                   entries |-> [i \in DOMAIN text.lines |->
                                  [effect |-> IF text.lines[i].effect = "deny" THEN "deny" ELSE "allow",
                                   actions |-> access_mode(text.lines[i].access),
                                   topic |-> text.lines[i].topic]]]]

(* Every topic is in the domain, and the text is the canonical one. *)
SyntaxOf(dom, text, parsed) ==
    IF parsed.rc # "OK" THEN parsed
    ELSE IF \/ \E i \in DOMAIN parsed.document.entries : parsed.document.entries[i].topic[1] # dom
            \/ acl_format(parsed.document) # text THEN [parsed EXCEPT !.rc = "EPROTO"]
    ELSE parsed
document_syntax_validate(dom, text) == SyntaxOf(dom, text, acl_parse(text))

(* One rule for the connection, one for every entry and alternative. *)
rule_base(doc, dom) == [kind |-> doc.kind, subject |-> doc.subject, dom |-> dom]
acl_rule(doc, dom, entry, topic) ==
    [effect |-> entry.effect, actions |-> entry.actions, adapter |-> TRUE, pattern |-> topic] @@ rule_base(doc, dom)
expand_topic(topic, item) == Append(Front(topic), item)
EntryRules(doc, dom, entry) ==
    IF Last(entry.topic) \in DOMAIN Alternatives
    THEN [i \in DOMAIN Alternatives[Last(entry.topic)] |->
            acl_rule(doc, dom, entry, expand_topic(entry.topic, Alternatives[Last(entry.topic)][i]))]
    ELSE <<acl_rule(doc, dom, entry, entry.topic)>>
acl_compile(doc, dom) ==
    <<[effect |-> doc.connection, actions |-> {"connect"}, adapter |-> FALSE, pattern |-> <<>>] @@ rule_base(doc, dom)>>
      \o FlattenSeq([i \in DOMAIN doc.entries |-> EntryRules(doc, dom, doc.entries[i])])

-----------------------------------------------------------------------------
(* Saving and publishing.  The draft names a document; its text is stored.   *)

Count(entries, may(_)) ==
    FoldLeft(LAMBDA n, e : IF may(e) THEN n + alternative_count(e.topic) ELSE n, 0, entries)
Validated(rc, rules, denies) == [rc |-> rc, rules |-> rules, denies |-> denies]
DocumentRc(d, dom, parsed) ==
    FirstError(<<parsed.rc, IF dom \in d.domains THEN "OK" ELSE "ENOENT",
                 SubjectCheck(d, dom, parsed.document.kind, parsed.document.subject),
                 IF 1 + Count(parsed.document.entries, LAMBDA e : TRUE) > MaxPolicyRules THEN "ENOSPC" ELSE "OK">>)
DocumentCounts(rc, doc) ==
    IF rc # "OK" THEN Validated(rc, 0, 0)
    ELSE Validated("OK", 1 + Count(doc.entries, LAMBDA e : TRUE),
                   (IF doc.connection = "deny" THEN 1 ELSE 0) + Count(doc.entries, LAMBDA e : e.effect = "deny"))
ValidateParsed(d, dom, parsed) == DocumentCounts(DocumentRc(d, dom, parsed), parsed.document)
policy_document_validate(d, dom, text) == ValidateParsed(d, dom, document_syntax_validate(dom, text))

TextOf(name) == acl_format(Documents[name])
DraftInOrder(d, rows) == SetToSortSeq(rows, LAMBDA a, b : d.draft[a].ordinal < d.draft[b].ordinal)
ValidateAdd(total, done) ==
    IF done.rc # "OK" THEN Validated(done.rc, 0, 0)
    ELSE IF total.rules + done.rules > MaxPolicyRules THEN Validated("ENOSPC", 0, 0)
    ELSE Validated("OK", total.rules + done.rules, total.denies + done.denies)
ValidateRows(d, dom, rows) ==
    FoldLeft(LAMBDA total, row : IF total.rc # "OK" THEN total
               ELSE ValidateAdd(total, policy_document_validate(d, dom, TextOf(d.draft[row].document))),
             Validated("OK", 0, 0), rows)
policy_validate_database(d, dom) ==
    LET total == ValidateRows(d, dom, DraftInOrder(d, Rows(d, dom, DOMAIN d.draft)))
    IN  IF total.rc = "OK" /\ total.rules = 0 THEN Validated("ENOENT", 0, 0) ELSE total

PutRc(d, c, done) == IF done.rc # "OK" THEN done.rc ELSE IF OrdinalTaken(d, c) THEN "EINVAL" ELSE "OK"
store_rule_put(d, c) ==
    Transact(d, c, PutRc(d, c, policy_document_validate(d, c.dom, TextOf(c.detail))),
             [d EXCEPT !.draft = Put(@, RuleKey(c), [ordinal |-> c.ordinal, document |-> c.detail])])
(* A published rule is stored as a line of eight fields; only the rule of    *)
(* the connection has an empty pattern.                                      *)
subject_name(kind) == IF kind = "user" THEN "principal" ELSE kind
rule_format_line(r) ==
    <<r.effect, subject_name(r.kind), r.subject, r.dom,
      SelectSeq(<<"connect", "publish", "subscribe">>, LAMBDA a : a \in r.actions),
      IF r.adapter THEN "mqtt_topic" ELSE "generic", IF r.adapter THEN "adapter" ELSE "prefix", r.pattern>>
rule_actions(names) == IF names = <<>> \/ ~IsInjective(names) THEN "EPROTO" ELSE "OK"
LineRc(f) ==
    IF f[8] = <<>> /\ ~(f[5] = <<"connect">> /\ f[6] = "generic" /\ f[7] = "prefix") THEN "EPROTO"
    ELSE rule_actions(f[5])
rule_parse_line(f) ==
    [effect |-> f[1], kind |-> IF f[2] = "principal" THEN "user" ELSE f[2], subject |-> f[3], dom |-> f[4],
     actions |-> Range(f[5]), adapter |-> f[7] = "adapter", pattern |-> f[8]]

(* The lines are compiled in the order of the draft.  The ordinal of a       *)
(* publication is the expiry of the bundle, zero for none.                   *)
CompiledLines(d, dom, rows) ==
    LET rules == FlattenSeq([i \in DOMAIN rows |-> acl_compile(Documents[d.draft[rows[i]].document], dom)])
    IN  [i \in DOMAIN rules |-> rule_format_line(rules[i])]
store_policy_publish(d, c) ==
    Transact(d, c, policy_validate_database(d, c.dom).rc,
             [d EXCEPT !.published = Put(@, c.dom,
                [version |-> policy_version(d, c.dom) + 1, rules |-> Compiled(d, c.dom), expires |-> c.ordinal,
                 lines |-> CompiledLines(d, c.dom, DraftInOrder(d, Rows(d, c.dom, DOMAIN d.draft)))])])
PolicyExecute(d, c) ==
    CASE c.op = "rule_put" -> store_rule_put(d, c)
      [] c.op = "publish" -> store_policy_publish(d, c)
      [] OTHER -> Execute(d, c)

-----------------------------------------------------------------------------
(* The dry run of a list of changes (commands that put or delete a rule):    *)
(* the rows no change targets keep their ordinals and rules, those of all    *)
(* the others are free, and the changes are applied in their order.          *)

Duplicate(changes, i) == \E j \in 1..i - 1 : RuleKey(changes[j]) = RuleKey(changes[i])
Targeted(changes) == {RuleKey(changes[i]) : i \in DOMAIN changes}
KeptRows(d, dom, changes) == Rows(d, dom, DOMAIN d.draft) \ Targeted(changes)
DryStart(d, changes, kept, total) ==
    [rc |-> total.rc, rules |-> total.rules, denies |-> total.denies,
     used |-> {d.draft[row].ordinal : row \in kept},
     diagnostics |-> {<<"duplicate_change", i>> : i \in {j \in DOMAIN changes : Duplicate(changes, j)}}]
diagnostic_add(s, code, i) == [s EXCEPT !.diagnostics = @ \cup {<<code, i>>}]
candidate_error(rc) ==
    CASE rc = "ENOENT" -> "subject_not_found" [] rc = "EPERM" -> "subject_disabled"
      [] rc = "ENOSPC" -> "rule_limit" [] rc \in {"EINVAL", "EPROTO"} -> "invalid_document"
DryCounted(s, i, done) ==
    IF s.rules + done.rules > MaxPolicyRules THEN diagnostic_add(s, "rule_limit", i)
    ELSE [s EXCEPT !.rules = @ + done.rules, !.denies = @ + done.denies]
DryPut_Uncounted(s, c, i, done) ==
    IF done.rc # "OK" THEN diagnostic_add(s, candidate_error(done.rc), i)
    ELSE IF c.ordinal \in s.used THEN diagnostic_add(s, "ordinal_conflict", i)
    ELSE DryCounted(s, i, done)
DryPut(s, c, i, done) ==
    IF done.rc # "OK" THEN diagnostic_add(s, candidate_error(done.rc), i)
    ELSE IF c.ordinal \in s.used THEN diagnostic_add(s, "ordinal_conflict", i)
    ELSE DryCounted([s EXCEPT !.used = @ \cup {c.ordinal}], i, done)
DryChange(d, changes, s, i) ==
    IF Duplicate(changes, i) THEN s
    ELSE IF changes[i].op = "rule_delete"
         THEN (IF RuleKey(changes[i]) \in DOMAIN d.draft THEN s ELSE diagnostic_add(s, "delete_target_not_found", i))
    ELSE DryPut(s, changes[i], i, policy_document_validate(d, changes[i].dom, TextOf(changes[i].detail)))
DryResult(s) ==
    IF s.rc # "OK" THEN [rc |-> s.rc, valid |-> FALSE, rules |-> 0, denies |-> 0, diagnostics |-> {}]
    ELSE IF s.diagnostics # {} THEN [rc |-> "OK", valid |-> FALSE, rules |-> 0, denies |-> 0, diagnostics |-> s.diagnostics]
    ELSE IF s.rules = 0 THEN [rc |-> "OK", valid |-> FALSE, rules |-> 0, denies |-> 0, diagnostics |-> {<<"empty_policy", 0>>}]
    ELSE [rc |-> "OK", valid |-> TRUE, rules |-> s.rules, denies |-> s.denies, diagnostics |-> {}]
DryRows(d, changes, s) ==
    IF s.rc # "OK" THEN s
    ELSE FoldLeft(LAMBDA t, i : DryChange(d, changes, t, i), s, [i \in DOMAIN changes |-> i])
policy_dry_run(d, dom, changes) ==
    LET kept == KeptRows(d, dom, changes)
    IN  DryResult(DryRows(d, changes, DryStart(d, changes, kept, ValidateRows(d, dom, DraftInOrder(d, kept)))))

-----------------------------------------------------------------------------
(* Evaluation.  A request is [action, resource], the resource a filter (for  *)
(* a publish, one that is a topic); `who' is the [username, client] of the   *)
(* connection, `p' its principal.                                            *)

filter_compile(pattern) == [i \in DOMAIN pattern |-> IF pattern[i] \in Placeholders THEN "+" ELSE pattern[i]]
uses_placeholders(pattern) == \E i \in DOMAIN pattern : pattern[i] \in Placeholders
identity_segment_valid(name) == name \notin NotSegments
role_client_id(client, role) ==
    IF identity_segment_valid(client) /\ role \in DOMAIN ClientRoles[client]
    THEN {base \in {ClientRoles[client][role]} : identity_segment_valid(base)} ELSE {}
ExpectedLevel(segment, who) ==
    IF segment = "%u" THEN {name \in {who.username} : identity_segment_valid(name)}
    ELSE IF segment = "%c" THEN {name \in {who.client} : identity_segment_valid(name)}
    ELSE role_client_id(who.client, RolePlaceholders[segment])
(* Level by level against the resource as the client wrote it. *)
placeholders_match(pattern, resource, who) ==
    /\ Len(resource) >= Len(pattern)
    /\ \A i \in DOMAIN pattern : pattern[i] \in Placeholders => resource[i] \in ExpectedLevel(pattern[i], who)

security_resource(filter) == IF is_shared(filter) THEN <<"$share", filter.share>> \o filter.levels ELSE filter.levels
Levels(levels) == [share |-> "", levels |-> levels]
Candidates(lines) == {i \in DOMAIN lines : lines[i].adapter}
compile_leaf(lines) ==
    FoldLeft(LAMBDA index, i : IF i \in Candidates(lines)
               THEN insert_bound(index, Levels(filter_compile(lines[i].pattern)), i).index ELSE index,
             topic_index_init, [i \in DOMAIN lines |-> i])
visited(index, req) ==
    IF req.action = "subscribe" THEN visit_containing(index, req.resource)
    ELSE visit_topic(index, req.resource.levels)
emit_candidate(pattern, req, who) ==
    uses_placeholders(pattern) => placeholders_match(pattern, security_resource(req.resource), who)
evaluate_leaf(lines, req, who) ==
    {i \in visited(compile_leaf(lines), req) : emit_candidate(lines[i].pattern, req, who)}

subject_matches(rule, p) ==
    CASE rule.kind = "user" -> rule.subject = p.user
      [] rule.kind = "role" -> rule.subject \in p.roles
      [] rule.kind = "group" -> rule.subject \in p.groups
Decision(effect, reason, version) == [effect |-> effect, reason |-> reason, version |-> version]
RuleApplies(rule, req, p, emitted) ==
    rule.dom = p.dom /\ req.action \in rule.actions /\ subject_matches(rule, p) /\ (rule.adapter => emitted)
Decided(decision, rule) ==
    [decision EXCEPT !.effect = rule.effect, !.reason = IF rule.effect = "allow" THEN "allow_rule" ELSE "deny_rule"]
(* The rules in their order; the first that denies ends the search. *)
rules_evaluate_Last(lines, emitted, req, p, decision) ==
    FoldLeft(LAMBDA dec, i : IF ~RuleApplies(lines[i], req, p, i \in emitted) THEN dec
               ELSE Decided(dec, lines[i]), decision, [i \in DOMAIN lines |-> i])
rules_evaluate(lines, emitted, req, p, decision) ==
    FoldLeft(LAMBDA dec, i : IF dec.reason = "deny_rule" \/ ~RuleApplies(lines[i], req, p, i \in emitted) THEN dec
               ELSE Decided(dec, lines[i]), decision, [i \in DOMAIN lines |-> i])
realm_evaluate(bundle, lines, req, p, who, now) ==
    IF p.expires # 0 /\ p.expires <= now THEN Decision("deny", "principal_expired", bundle.version)
    ELSE IF p.version # bundle.version THEN Decision("deny", "policy_version_mismatch", bundle.version)
    ELSE rules_evaluate(lines, IF req.action = "connect" THEN {} ELSE evaluate_leaf(lines, req, who),
                        req, p, Decision("deny", "default_deny", bundle.version))

-----------------------------------------------------------------------------
(* The answer of the control plane and what the broker makes of it. *)

acl_status(rc) == IF rc = "OK" THEN 200 ELSE IF rc = "EPERM" THEN 403
                  ELSE IF rc \in {"EPROTO", "EINVAL"} THEN 400 ELSE 503
http_response_status(status) ==
    IF status = 200 THEN "OK" ELSE IF status \in {401, 403} THEN "EPERM" ELSE IF status = 429 THEN "EBUSY" ELSE "EIO"
acl_decode(decision) ==
    IF decision.version # 0 /\ (decision.effect = "allow" <=> decision.reason = "allow_rule") THEN "OK" ELSE "EPROTO"
http_authorize(status, decision) ==
    IF http_response_status(status) # "OK" THEN http_response_status(status) ELSE acl_decode(decision)
realm_authorize(status, decision, p) ==
    FirstError(<<http_authorize(status, decision),
                 IF status = 200 /\ decision.version # p.version THEN "EPROTO" ELSE "OK",
                 IF status = 200 /\ decision.effect = "deny" THEN "EPERM" ELSE "OK">>)
NoDecision == Decision("deny", "default_deny", 0)

-----------------------------------------------------------------------------
VARIABLES
    pdb,       \* the control database
    pnow,      \* the clock
    pscene,    \* the scenario
    session,   \* the client's connection and the principal it was given
    ask,       \* the check under way
    admin,     \* the administrator who tries, saves and publishes the changes
    spent,     \* checks, commands of others and failed exchanges so far
    verdict    \* whether every answer so far was right

policyVars == <<pdb, pnow, pscene, session, ask, admin, spent, verdict>>

Plot == PolicyScenarios[pscene]
Domain == Plot.key[1]
Who == [username |-> Plot.key[2], client |-> session.client]
NoSession == [on |-> FALSE, client |-> "", p |-> [version |-> 0]]
NoAsk == [pc |-> "idle", req |-> [action |-> "none"], since |-> 0, at |-> 0, seen |-> {}]
NoAdmin == [pc |-> "idle", i |-> 1, dry |-> [rc |-> "none"], alone |-> TRUE, blocked |-> FALSE, refused |-> FALSE,
            rules |-> 0, denies |-> 0]

(***************************************************************************)
(* The reference reading of a policy, from its documents: a topic stands   *)
(* for what it becomes once an alternative is chosen and the placeholders  *)
(* are replaced; it covers a filter if it matches every topic the filter   *)
(* matches; what is denied is denied whatever else is allowed.  One        *)
(* restriction of the code is part of it: a topic with a placeholder does  *)
(* not cover a shorter one, so "d/%u/#" leaves out the level "d/<user>".   *)
(***************************************************************************)
Readings(topic) ==
    IF Last(topic) \in DOMAIN Alternatives
    THEN {Append(Front(topic), item) : item \in Range(Alternatives[Last(topic)])} ELSE {topic}
Replacement(s, who) ==
    (IF s \notin Placeholders THEN {s}
     ELSE IF s = "%u" THEN {who.username} ELSE IF s = "%c" THEN {who.client}
     ELSE IF who.client \notin NotSegments /\ RolePlaceholders[s] \in DOMAIN ClientRoles[who.client]
          THEN {ClientRoles[who.client][RolePlaceholders[s]]} ELSE {})
      \ (IF s \in Placeholders THEN NotSegments ELSE {})
Substituted(topic, who) ==
    IF \E i \in DOMAIN topic : Replacement(topic[i], who) = {} THEN {}
    ELSE {[i \in DOMAIN topic |-> CHOOSE x \in Replacement(topic[i], who) : TRUE]}
PolicyTopics == {t \in SeqOf(Plain \cup Dollar \cup {"another"}, MaxPattern + 1) : t # <<>>}
MatchesAll(levels, req) ==
    IF req.action = "publish" THEN topic_matches(Levels(levels), req.resource.levels)
    ELSE \A t \in PolicyTopics : topic_matches(req.resource, t) => topic_matches(Levels(levels), t)
Covers(topic, req, who) ==
    \E reading \in Readings(topic) :
        /\ uses_placeholders(reading) => Len(req.resource.levels) >= Len(reading)
        /\ \E levels \in Substituted(reading, who) : MatchesAll(levels, req)
EffectsOf(doc, req, who) ==
    IF req.action = "connect" THEN {doc.connection}
    ELSE {e.effect : e \in {x \in Range(doc.entries) : req.action \in x.actions /\ Covers(x.topic, req, who)}}
Effects(bundle, req, p, who) ==
    UNION {EffectsOf(Documents[r.document], req, who) : r \in {x \in bundle.rules : subject_matches(x, p)}}
Permits(bundle, req, p, who) == "allow" \in Effects(bundle, req, p, who) /\ "deny" \notin Effects(bundle, req, p, who)
(* A shared filter is compared with placeholders as it is written, prefix    *)
(* included; that case is left out.                                          *)
Unclear(bundle, req) ==
    /\ req.action # "connect" /\ is_shared(req.resource)
    /\ \E r \in bundle.rules : \E e \in Range(Documents[r.document].entries) : uses_placeholders(e.topic)

Lasts(expires, t) == expires = 0 \/ t < expires
RightGrant(bundle, p, t) ==
    /\ bundle.version = p.version /\ Lasts(p.expires, t) /\ Lasts(bundle.expires, t)
    /\ Unclear(bundle, ask.req) \/ Permits(bundle, ask.req, p, Who)
RightDenial(bundle, p) ==
    \/ bundle.version # p.version \/ ~Lasts(p.expires, pnow) \/ ~Lasts(bundle.expires, pnow)
    \/ Unclear(bundle, ask.req) \/ ~Permits(bundle, ask.req, p, Who)
Right(rc) ==
    /\ rc = "OK" => \E bundle \in ask.seen : RightGrant(bundle, session.p, ask.since)
    /\ rc = "EPERM" => \E bundle \in ask.seen : RightDenial(bundle, session.p)

-----------------------------------------------------------------------------
PolicyInit ==
    /\ pscene \in DOMAIN PolicyScenarios
    /\ pdb = FoldLeft(LAMBDA d, c : PolicyExecute(d, c).db, EmptyDatabase, Plot.start) /\ pnow = 1
    /\ session = NoSession /\ ask = NoAsk /\ admin = NoAdmin
    /\ spent = [checks |-> 0, edits |-> 0, faults |-> 0] /\ verdict = TRUE

(* authenticate_username: the control plane answers with the roles, the      *)
(* groups and the policy version of the moment; without a published policy   *)
(* it refuses.  FlowieAuth models how it finds them.                         *)
Principal(client, snapshot, version) ==
    [on |-> TRUE, client |-> client,
     p |-> [user |-> Plot.key[2], dom |-> Domain, roles |-> snapshot.roles, groups |-> snapshot.groups,
            version |-> version, expires |-> pnow + PrincipalTtl]]
Authenticate ==
    /\ ask.pc = "idle" /\ spent.checks < Plot.checks
    /\ policy_version(pdb, Domain) # 0
    /\ \E client \in Plot.clients : \E snapshot \in {external_principal_snapshot(pdb, Plot.key)} :
          snapshot.rc = "OK" /\ session' = Principal(client, snapshot, policy_version(pdb, Domain))
    /\ UNCHANGED <<pdb, pnow, pscene, ask, admin, spent, verdict>>

(* security_authorize and acl_encode: the scope and the method of the        *)
(* principal are not sent, and the domain asked about is its own.            *)
Ask ==
    /\ session.on /\ ask.pc = "idle" /\ spent.checks < Plot.checks
    /\ \E req \in Plot.requests :
          ask' = [pc |-> "sent", req |-> req, since |-> pnow, at |-> 0, seen |-> {pdb.published[Domain]}]
    /\ spent' = [spent EXCEPT !.checks = @ + 1]
    /\ UNCHANGED <<pdb, pnow, pscene, session, admin, verdict>>

Settle(status, decision) ==
    \E rc \in {realm_authorize(status, decision, session.p)} : verdict' = (verdict /\ Right(rc)) /\ ask' = NoAsk
AskGoto(pc) == ask' = [ask EXCEPT !.pc = pc, !.at = pnow] /\ UNCHANGED verdict
unasked == <<pdb, pnow, pscene, session, admin>>

(* The exchange fails, or the control plane does not know the broker (403):  *)
(* neither says anything about the policy.                                   *)
Unanswered ==
    /\ ask.pc = "sent" /\ spent.faults < Plot.faults
    /\ spent' = [spent EXCEPT !.faults = @ + 1]
    /\ ask' = NoAsk /\ UNCHANGED <<unasked, verdict>>
(* The clock is read once, before the two transactions. *)
Arrive ==
    /\ ask.pc = "sent"
    /\ IF Lasts(session.p.expires, pnow) THEN AskGoto("status")
       ELSE Settle(200, Decision("deny", "principal_expired", session.p.version))
    /\ UNCHANGED <<unasked, spent>>
policy_status(d, dom) == [version |-> d.published[dom].version, expires |-> d.published[dom].expires]
StatusRead ==
    /\ ask.pc = "status"
    /\ \E status \in {policy_status(pdb, Domain)} :
          IF status.version # session.p.version \/ ~Lasts(status.expires, ask.at)
          THEN Settle(200, Decision("deny", "policy_version_mismatch", session.p.version))
          ELSE ask' = [ask EXCEPT !.pc = "bundle"] /\ UNCHANGED verdict
    /\ UNCHANGED <<unasked, spent>>
(* A bundle published since the first transaction is not the one required. *)
BundleRc(bundle, version) ==
    IF bundle.version # version THEN "ENOENT"
    ELSE FirstError([i \in DOMAIN bundle.lines |-> LineRc(bundle.lines[i])])
bundle_load(bundle) == [i \in DOMAIN bundle.lines |-> rule_parse_line(bundle.lines[i])]
BundleRead ==
    /\ ask.pc = "bundle"
    /\ \E bundle \in {pdb.published[Domain]} : \E rc \in {BundleRc(bundle, session.p.version)} :
          IF rc # "OK" THEN Settle(acl_status(rc), NoDecision)
          ELSE \E lines \in {bundle_load(bundle)} :
                 Settle(200, realm_evaluate(bundle, lines, ask.req, session.p, Who, ask.at))
    /\ UNCHANGED <<unasked, spent>>

-----------------------------------------------------------------------------
(* Every command may publish; a check under way may see the new bundle.      *)
Seen(d) == IF ask.pc = "idle" \/ Domain \notin DOMAIN d.published THEN ask
           ELSE [ask EXCEPT !.seen = @ \cup {d.published[Domain]}]
Commit(d) == pdb' = d /\ ask' = Seen(d)
unedited == <<pnow, pscene, session, verdict>>

DryRun ==
    /\ admin.pc = "idle" /\ Plot.changes # <<>>
    /\ admin' = [admin EXCEPT !.pc = "saving", !.dry = policy_dry_run(pdb, Domain, Plot.changes)]
    /\ UNCHANGED <<pdb, ask, spent, unedited>>

(* A change may be refused because a row that a later change moves or        *)
(* deletes still has its ordinal.                                            *)
HeldByLater(d, changes, i) ==
    /\ changes[i].op = "rule_put"
    /\ \E j \in i + 1..Len(changes) :
          /\ RuleKey(changes[j]) \in DOMAIN d.draft \ {RuleKey(changes[i])}
          /\ d.draft[RuleKey(changes[j])].ordinal = changes[i].ordinal
Saved(rc, held) ==
    [admin EXCEPT !.i = @ + 1, !.blocked = @ \/ (rc # "OK" /\ held), !.refused = @ \/ rc # "OK"]
Save ==
    /\ admin.pc = "saving" /\ admin.i <= Len(Plot.changes)
    /\ \E a \in {PolicyExecute(pdb, Plot.changes[admin.i])} :
          Commit(a.db) /\ admin' = Saved(a.rc, HeldByLater(pdb, Plot.changes, admin.i))
    /\ UNCHANGED <<spent, unedited>>
Denying(lines) == Len(SelectSeq(lines, LAMBDA line : line[1] = "deny"))
Published(a) ==
    IF a.rc # "OK" THEN [admin EXCEPT !.pc = "done", !.refused = TRUE]
    ELSE [admin EXCEPT !.pc = "done", !.rules = Len(a.db.published[Domain].lines),
                       !.denies = Denying(a.db.published[Domain].lines)]
PublishChanges ==
    /\ admin.pc = "saving" /\ admin.i > Len(Plot.changes)
    /\ \E a \in {PolicyExecute(pdb, Plot.publish)} : Commit(a.db) /\ admin' = Published(a)
    /\ UNCHANGED <<spent, unedited>>

OtherAdministrator ==
    /\ spent.edits < Plot.edits
    /\ \E c \in Plot.others : \E a \in {PolicyExecute(pdb, c)} :
          a.rc = "OK" /\ ~a.replayed /\ Commit(a.db)
    /\ spent' = [spent EXCEPT !.edits = @ + 1]
    /\ admin' = [admin EXCEPT !.alone = @ /\ admin.pc # "saving"]
    /\ UNCHANGED unedited
PolicyTick ==
    /\ pnow < Plot.now /\ pnow' = pnow + 1
    /\ UNCHANGED <<pdb, pscene, session, ask, admin, spent, verdict>>

PolicyNext ==
    \/ Authenticate \/ Ask \/ Unanswered \/ Arrive \/ StatusRead \/ BundleRead
    \/ DryRun \/ Save \/ PublishChanges \/ OtherAdministrator \/ PolicyTick

-----------------------------------------------------------------------------
(* A check is answered as one bundle that was published during it says,      *)
(* read by the reference: the broker never grants by a bundle other than the *)
(* one the principal was authenticated under, by an expired bundle or to an  *)
(* expired principal, and never denies what the bundle permits, whatever is  *)
(* published between the two transactions of the check and however the       *)
(* documents are formatted, parsed, expanded, compiled and indexed.          *)
ChecksCurrent == verdict

(* What a dry run announces comes true if nobody else writes meanwhile: a    *)
(* list of changes found valid can be saved and published, with as many      *)
(* rules and denials as announced, unless a change needs the ordinal of a    *)
(* row that a later one still holds; and a list found invalid cannot.        *)
NoDuplicates(changes) == ~ \E i \in DOMAIN changes : Duplicate(changes, i)
DryRunHonest ==
    admin.pc = "done" /\ admin.alone =>
        IF admin.dry.valid
        THEN admin.blocked \/ (~admin.refused /\ admin.rules = admin.dry.rules /\ admin.denies = admin.dry.denies)
        ELSE NoDuplicates(Plot.changes) => admin.refused
=============================================================================
