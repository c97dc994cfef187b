------------------------------ MODULE FlowieRouting ------------------------------
(***************************************************************************)
(* Subscriptions, retained messages and the selection of the receivers of a *)
(* publication in flowie_endpoint.c and flowie_session.c.  The subscriptions *)
(* of the session owners are the truth; the endpoint keeps a derived index   *)
(* (entries in slots, members with positions, a bitmap of session ids, the   *)
(* topic trie) that is updated in place or, after a failure, marked invalid  *)
(* and rebuilt by the next publication.  Retained messages live in a vector, *)
(* an index by topic and, with persistence, rows of the repository.          *)
(*                                                                          *)
(* All of this runs on the endpoint's single owner lane, so one packet is    *)
(* one action.  What a delivery does after its receiver is chosen is the     *)
(* subject of FlowieSend.                                                    *)
(***************************************************************************)
EXTENDS FlowieTopicIndex, FiniteSetsExt

CONSTANTS
  Session,        \* client ids
  Persistent,     \* those whose session outlives its connection
  Old,            \* those speaking MQTT 3.1, whose SUBACK cannot refuse
  Denied,         \* pairs <<session, filter>> the access rules refuse
  MaxSubs,        \* max_subscriptions of one session
  MaxRetained,    \* max_retained_messages
  Persistence,    \* whether a repository is configured
  MaxFaults,      \* bound on failing saves, allocations and deletions
  Scenarios       \* what the clients do, and bounds on their steps and on the clock:
                  \* [clients, packets, filters, publishes, steps, time]

VARIABLES
  tables,    \* sessions (a vector), owners, online, nextId, index
  retained,  \* [messages |-> vector, at |-> index by topic]
  rows,      \* the repository's retained rows, by topic
  now,       \* seconds
  missed,    \* ghost: publications a member of a shared group was passed over
  plan,      \* the scenario
  spent      \* [steps, faults]

vars == <<tables, retained, rows, now, missed, plan, spent>>

NoFault == "none"
NoExpiry == -1            \* a PUBLISH without a Message Expiry Interval

-----------------------------------------------------------------------------
(* The derived subscription index. *)
Inactive == [active |-> FALSE]
NoBinding == [node |-> Root, position |-> 0, bucket |-> "none"]

empty_index ==
  [entries |-> <<>>, free |-> <<>>, filters |-> <<>>, topics |-> topic_index_init, valid |-> TRUE]

entry_init(filter) ==
  [active |-> TRUE, filter |-> filter, shared |-> is_shared(filter), members |-> <<>>,
   at |-> <<>>, ids |-> {}, cursor |-> 0, binding |-> NoBinding]

entry_lookup(index, filter) ==
  IF filter \in DOMAIN index.filters /\ index.entries[index.filters[filter]].active
    THEN index.filters[filter] ELSE NoEntry

Member(session, id, sub) ==
  [session |-> session, id |-> id, qos |-> sub.qos, no_local |-> sub.no_local,
   rap |-> sub.rap, identifier |-> sub.identifier]

member_add(entry, member) ==
  [entry EXCEPT !.members = Append(@, member),
                !.at = (member.id :> Len(entry.members) + 1) @@ @,
                !.ids = @ \cup {member.id}]

\* A new entry takes the last free slot, or the vector grows; then it is bound
\* into the trie and found by its filter.
EntryStore(index, entry, slot, bound) ==
  LET stored == [entry EXCEPT !.binding = bound.binding]
      reused == slot \in DOMAIN index.entries
  IN  [index EXCEPT !.entries = IF reused THEN [@ EXCEPT ![slot] = stored] ELSE Append(@, stored),
                    !.free = IF reused THEN Front(@) ELSE @,
                    !.filters = (entry.filter :> slot) @@ @,
                    !.topics = bound.index]

EntryInsert(index, entry, slot) ==
  EntryStore(index, entry, slot, insert_bound(index.topics, entry.filter, slot))

entry_add(index, entry) ==
  EntryInsert(index, entry, IF index.free # <<>> THEN Last(index.free) ELSE Len(index.entries) + 1)

MemberPut(index, slot, filter, member) ==
  IF slot = NoEntry THEN entry_add(index, member_add(entry_init(filter), member))
  ELSE IF member.id \in DOMAIN index.entries[slot].at
    THEN [index EXCEPT !.entries[slot].members[index.entries[slot].at[member.id]] = member]
  ELSE [index EXCEPT !.entries[slot] = member_add(@, member)]

member_upsert(index, session, id, sub) ==
  IF ~ index.valid THEN index
  ELSE MemberPut(index, entry_lookup(index, sub.filter), sub.filter, Member(session, id, sub))

\* The last member of the vector takes the place of the one that leaves.
MemberDrop(entry, id) ==
  LET position == entry.at[id]
      members == SwapRemove(entry.members, position)
      others == DOMAIN entry.at \ {id}
  IN  [entry EXCEPT !.members = members,
                    !.at = [i \in others |-> IF position <= Len(members) /\ members[position].id = i
                                               THEN position ELSE entry.at[i]],
                    !.ids = @ \ {id}]

\* Without its last member the entry goes: its slot becomes free, the trie
\* forgets it, and the entry moved inside its trie node learns its position.
EntryForget_StaleBinding(index, slot, entry, gone) ==
  [index EXCEPT !.entries[slot] = Inactive,
                !.free = Append(@, slot),
                !.filters = [f \in DOMAIN @ \ {entry.filter} |-> @[f]],
                !.topics = gone.index]

EntryForget(index, slot, entry, gone) ==
  LET moved == IF gone.moved = NoEntry THEN index.entries
               ELSE [index.entries EXCEPT ![gone.moved].binding.position = entry.binding.position]
  IN  [index EXCEPT !.entries = [moved EXCEPT ![slot] = Inactive],
                    !.free = Append(@, slot),
                    !.filters = [f \in DOMAIN @ \ {entry.filter} |-> @[f]],
                    !.topics = gone.index]

entry_drop(index, slot) ==
  EntryForget(index, slot, index.entries[slot],
              index_remove(index.topics, index.entries[slot].binding, slot))

MemberOut(index, slot, id) ==
  IF ~ index.valid \/ slot = NoEntry THEN index
  ELSE IF id \notin DOMAIN index.entries[slot].at THEN index
  ELSE IF Len(index.entries[slot].members) > 1
    THEN [index EXCEPT !.entries[slot] = MemberDrop(@, id)]
  ELSE entry_drop(index, slot)

member_remove(index, id, filter) == MemberOut(index, entry_lookup(index, filter), id)

\* subscription_session_remove walks every slot.
subscription_session_remove(index, id) ==
  FoldLeft(LAMBDA ix, slot :
             IF ix.entries[slot].active /\ id \in DOMAIN ix.entries[slot].at
               THEN member_remove(ix, id, ix.entries[slot].filter) ELSE ix,
           index, [i \in 1..Len(index.entries) |-> i])

\* subscription_index_rebuild stages a new index from the session owners; a
\* shared group keeps the cursor its entry had.
KeptCursor(index, filter) ==
  LET old == entry_lookup(index, filter)
  IN  IF old = NoEntry THEN 0 ELSE index.entries[old].cursor

RebuildEntry(old, staged, filter) ==
  IF entry_lookup(staged, filter) # NoEntry THEN staged
  ELSE entry_add(staged, [entry_init(filter) EXCEPT !.cursor = KeptCursor(old, filter)])

RebuildJoin(staged, filter, member) ==
  [staged EXCEPT !.entries[entry_lookup(staged, filter)] = member_add(@, member)]

RebuildMember(old, staged, session, id, sub) ==
  RebuildJoin(RebuildEntry(old, staged, sub.filter), sub.filter, Member(session, id, sub))

index_rebuild(t) ==
  FoldLeft(LAMBDA staged, s :
             FoldLeft(LAMBDA ix, sub : RebuildMember(t.index, ix, s, t.owners[s].id, sub),
                      staged, t.owners[s].subs),
           empty_index, t.sessions)
-----------------------------------------------------------------------------
(* Sessions: created, taken offline, removed.  (The connection's own route id  *)
(* comes from the same counter; nothing here depends on it.)                  *)
session_create(t, s) ==
  [t EXCEPT !.sessions = Append(@, s),
            !.owners[s] = [id |-> t.nextId, subs |-> <<>>],
            !.online = @ \cup {s},
            !.nextId = @ + 1]

\* session_remove: the index forgets the session (or is marked invalid when
\* that fails), and the last session takes its place in the vector.
session_remove(t, s, fault) ==
  LET i == SelectInSeq(t.sessions, LAMBDA x : x = s)
  IN  [t EXCEPT !.index = IF fault = "index" THEN [@ EXCEPT !.valid = FALSE]
                          ELSE subscription_session_remove(@, t.owners[s].id),
                !.sessions = SwapRemove(@, i),
                !.owners[s] = [id |-> 0, subs |-> <<>>],
                !.online = @ \ {s}]

connection_close(t, s) ==
  IF s \in Persistent THEN [t EXCEPT !.online = @ \ {s}] ELSE session_remove(t, s, NoFault)

-----------------------------------------------------------------------------
(* The retained messages. *)
retained_find(ret, topic) == IF topic \in DOMAIN ret.at THEN ret.at[topic] ELSE NoEntry

remove_memory(ret, topic) ==
  LET i == ret.at[topic]
      messages == SwapRemove(ret.messages, i)
      left == DOMAIN ret.at \ {topic}
  IN  [messages |-> messages,
       at |-> [x \in left |-> IF i <= Len(messages) /\ messages[i].topic = x THEN i ELSE ret.at[x]]]

\* repository_retained_save: the row's revision must be the expected one, and a
\* new row must fit.
retained_save(stored, message, expected, fault) ==
  LET found == message.topic \in DOMAIN stored
      fits == IF found THEN stored[message.topic].revision = expected
              ELSE expected = 0 /\ Cardinality(DOMAIN stored) < MaxRetained
  IN  IF ~ Persistence THEN [ok |-> TRUE, rows |-> stored]
      ELSE IF fault = "save" \/ ~ fits THEN [ok |-> FALSE, rows |-> stored]
      ELSE [ok |-> TRUE, rows |-> (message.topic :> message) @@ stored]

retained_delete(stored, message, fault) ==
  LET gone == message.topic \in DOMAIN stored /\ stored[message.topic].revision = message.revision
  IN  IF ~ Persistence THEN [ok |-> TRUE, rows |-> stored]
      ELSE IF fault = "delete" \/ ~ gone THEN [ok |-> FALSE, rows |-> stored]
      ELSE [ok |-> TRUE, rows |-> [x \in DOMAIN stored \ {message.topic} |-> stored[x]]]

\* Row first, then memory.
RemoveAfter(ret, stored, topic, deleted) ==
  IF deleted.ok THEN [ok |-> TRUE, retained |-> remove_memory(ret, topic), rows |-> deleted.rows]
  ELSE [ok |-> FALSE, retained |-> ret, rows |-> stored]

retained_remove(ret, stored, topic, fault) ==
  LET i == retained_find(ret, topic)
  IN  IF i = NoEntry THEN [ok |-> TRUE, retained |-> ret, rows |-> stored]
      ELSE RemoveAfter(ret, stored, topic, retained_delete(stored, ret.messages[i], fault))

publish_expiry_at(publish) == IF publish.expiry = NoExpiry THEN 0 ELSE now + publish.expiry

\* retained_message_apply: an existing message is saved and then replaced; a new
\* one enters memory first and leaves it again when the save fails.
RetainedReplace(ret, stored, i, message, saved) ==
  IF saved.ok
    THEN [ok |-> TRUE, retained |-> [ret EXCEPT !.messages[i] = message], rows |-> saved.rows]
    ELSE [ok |-> FALSE, retained |-> ret, rows |-> stored]

RetainedAdd_Keep(added, stored, message, saved) ==
  [ok |-> saved.ok, retained |-> added, rows |-> saved.rows]

RetainedAdd(added, stored, message, saved) ==
  IF saved.ok THEN [ok |-> TRUE, retained |-> added, rows |-> saved.rows]
  ELSE [ok |-> FALSE, retained |-> remove_memory(added, message.topic), rows |-> stored]

RetainedStore(ret, stored, i, message, before, fault) ==
  IF i # NoEntry
    THEN RetainedReplace(ret, stored, i, message, retained_save(stored, message, before, fault))
  ELSE IF Len(ret.messages) >= MaxRetained THEN [ok |-> FALSE, retained |-> ret, rows |-> stored]
  ELSE RetainedAdd([messages |-> Append(ret.messages, message),
                    at |-> (message.topic :> Len(ret.messages) + 1) @@ ret.at],
                   stored, message, retained_save(stored, message, 0, fault))

retained_apply(ret, stored, publisher, publish, fault) ==
  LET i == retained_find(ret, publish.topic)
      before == IF i = NoEntry THEN 0 ELSE ret.messages[i].revision
      message == [topic |-> publish.topic, payload |-> publish.payload, qos |-> publish.qos,
                  publisher |-> publisher, expiry |-> publish_expiry_at(publish),
                  revision |-> IF Persistence THEN before + 1 ELSE 0]
  IN  IF publish.payload = "" THEN retained_remove(ret, stored, publish.topic, fault)
      ELSE RetainedStore(ret, stored, i, message, before, fault)

\* The replay of retained messages to a new subscription walks the vector; an
\* expired message is removed on the way, so the walk stays where it is.
Expired(message) == message.expiry # 0 /\ message.expiry <= now

ReplayDrop_Advance(walk, gone) ==
  [walk EXCEPT !.ok = gone.ok, !.retained = gone.retained, !.rows = gone.rows, !.i = @ + 1]

ReplayDrop(walk, gone) ==
  [walk EXCEPT !.ok = gone.ok, !.retained = gone.retained, !.rows = gone.rows]

ReplaySend(walk, m, session, sub) ==
  LET own == sub.no_local /\ m.publisher = tables.owners[session].id
      packet == [topic |-> m.topic, payload |-> m.payload, qos |-> Min({m.qos, sub.qos}),
                 expiry |-> IF m.expiry = 0 THEN NoExpiry ELSE m.expiry - now]
  IN  [walk EXCEPT !.i = @ + 1,
                   !.sent = IF topic_matches(sub.filter, m.topic) /\ ~ own THEN Append(@, packet)
                            ELSE @]

replay_step(walk, session, sub, fault) ==
  LET m == walk.retained.messages[walk.i]
  IN  IF ~ walk.ok \/ walk.i > Len(walk.retained.messages) THEN walk
      ELSE IF Expired(m) THEN ReplayDrop(walk, retained_remove(walk.retained, walk.rows, m.topic, fault))
      ELSE ReplaySend(walk, m, session, sub)

retained_replay(ret, stored, session, sub, existed, fault) ==
  LET start == [ok |-> TRUE, i |-> 1, retained |-> ret, rows |-> stored, sent |-> <<>>]
  IN  IF is_shared(sub.filter) \/ sub.handling = 2 \/ (sub.handling = 1 /\ existed) THEN start
      ELSE FoldLeft(LAMBDA w, k : replay_step(w, session, sub, fault), start,
                    [k \in 1..Len(ret.messages) |-> k])
-----------------------------------------------------------------------------
(* SUBSCRIBE and UNSUBSCRIBE. *)
subscription_find(subs, filter) == SelectInSeq(subs, LAMBDA x : x.filter = filter)

\* Replace the options of a filter already held, or append; beyond the limit of
\* the session the whole packet is refused.
subscription_apply(subs, sub) ==
  LET i == subscription_find(subs, sub.filter)
  IN  IF i # 0 THEN [subs EXCEPT ![i] = sub] ELSE Append(subs, sub)

owner_subscribe(subs, packet) ==
  FoldLeft(LAMBDA a, sub :
             IF ~ a.ok \/ (subscription_find(a.subs, sub.filter) = 0 /\ Len(a.subs) >= MaxSubs)
               THEN [a EXCEPT !.ok = FALSE]
               ELSE [a EXCEPT !.subs = subscription_apply(@, sub),
                              !.changed = @ \/ subscription_apply(a.subs, sub) # a.subs],
           [ok |-> TRUE, changed |-> FALSE, subs |-> subs], packet)

owner_unsubscribe(subs, filters) ==
  FoldLeft(LAMBDA a, f :
             LET i == subscription_find(a.subs, f)
             IN  IF i = 0 THEN [a EXCEPT !.codes = Append(@, "no_subscription")]
                 ELSE [subs |-> SwapRemove(a.subs, i), codes |-> Append(a.codes, "success")],
           [subs |-> subs, codes |-> <<>>], filters)

index_apply_subscribe(t, s, packet) ==
  FoldLeft(LAMBDA ix, sub : member_upsert(ix, s, t.owners[s].id, sub), t.index, packet)
index_apply_unsubscribe(t, s, filters) ==
  FoldLeft(LAMBDA ix, f : member_remove(ix, t.owners[s].id, f), t.index, filters)

\* commit_staged: the row is saved, then the staged owner replaces the old one;
\* a failure of the index update leaves it invalid, never the owner.  What the
\* failing update had already changed goes with the rebuild.
Committed(t, s, subs, index, fault) ==
  [t EXCEPT !.owners[s].subs = subs,
            !.index = IF fault = "index" THEN [@ EXCEPT !.valid = FALSE] ELSE index]

\* prepare_subscribe: authorize each entry, subscribe a staged owner with the
\* authorized ones, save, update the index, answer, replay.  An error closes
\* the connection.
SubscribeFault == {NoFault, "clone", "save", "index", "delete"}

Codes(s, packet, code) ==
  [i \in 1..Len(packet) |-> IF <<s, packet[i].filter>> \in Denied THEN "not_authorized" ELSE code]

Answer(ok, t, ret, stored, codes, sent) ==
  [ok |-> ok, tables |-> t, retained |-> ret, rows |-> stored, codes |-> codes, sent |-> sent]

ReplayAll(s, granted, fault) ==
  LET existed(sub) == subscription_find(tables.owners[s].subs, sub.filter) # 0
      next(w, r) == [ok |-> r.ok, retained |-> r.retained, rows |-> r.rows,
                     sent |-> Append(w.sent, r.sent)]
  IN  FoldLeft(LAMBDA w, sub :
                 IF ~ w.ok THEN w
                 ELSE next(w, retained_replay(w.retained, w.rows, s, sub, existed(sub), fault)),
               [ok |-> TRUE, retained |-> retained, rows |-> rows, sent |-> <<>>], granted)

SubscribeReplayed(s, packet, after, replays) ==
  Answer(replays.ok, IF replays.ok THEN after ELSE connection_close(after, s),
         replays.retained, replays.rows, Codes(s, packet, "granted"), replays.sent)

SubscribeRefused(s, packet, granted, staged, fault) ==
  \/ s \in Old /\ (Len(granted) < Len(packet) \/ ~ staged.ok)
  \/ granted # <<>> /\ fault = "clone"
  \/ staged.ok /\ staged.changed /\ fault = "save"

SubscribeStaged(s, packet, granted, staged, fault) ==
  IF SubscribeRefused(s, packet, granted, staged, fault)
    THEN Answer(FALSE, connection_close(tables, s), retained, rows, <<>>, <<>>)
  ELSE IF granted = <<>> \/ ~ staged.ok
    THEN Answer(TRUE, tables, retained, rows, Codes(s, packet, "no_space"), <<>>)
  ELSE SubscribeReplayed(s, packet,
         IF staged.changed
           THEN Committed(tables, s, staged.subs, index_apply_subscribe(tables, s, granted), fault)
           ELSE tables,
         ReplayAll(s, granted, fault))

Granted(s, packet) == SelectSeq(packet, LAMBDA sub : <<s, sub.filter>> \notin Denied)

SubscribeOutcome(s, packet, fault) ==
  SubscribeStaged(s, packet, Granted(s, packet),
                  owner_subscribe(tables.owners[s].subs, Granted(s, packet)), fault)

UnsubscribeStaged(s, filters, staged, fault) ==
  LET changed == staged.subs # tables.owners[s].subs
  IN  IF fault = "clone" \/ (changed /\ fault = "save")
        THEN Answer(FALSE, connection_close(tables, s), retained, rows, <<>>, <<>>)
      ELSE Answer(TRUE,
             IF changed
               THEN Committed(tables, s, staged.subs, index_apply_unsubscribe(tables, s, filters), fault)
               ELSE tables,
             retained, rows, staged.codes, <<>>)

UnsubscribeOutcome(s, filters, fault) ==
  UnsubscribeStaged(s, filters, owner_unsubscribe(tables.owners[s].subs, filters), fault)

-----------------------------------------------------------------------------
(* The receivers of a publication. *)
Identifiers(member) == IF member.identifier = 0 THEN {} ELSE {member.identifier}

\* Overlapping subscriptions of one session give one target with the highest
\* QoS; a member chosen for a shared group is a target of its own.
target_add(targets, member, group) ==
  LET i == IF group = <<>>
             THEN SelectInSeq(targets, LAMBDA x : x.session = member.session /\ x.group = <<>>)
             ELSE 0
  IN  IF i = 0
        THEN Append(targets, [session |-> member.session, qos |-> member.qos, rap |-> member.rap,
                              ids |-> Identifiers(member), group |-> group])
        ELSE [targets EXCEPT ![i].qos = Max({@, member.qos}), ![i].rap = @ \/ member.rap,
                             ![i].ids = @ \cup Identifiers(member)]

Own(member, publisher) == member.no_local /\ member.id = publisher

fan_out(targets, entry, publisher) ==
  FoldLeft(LAMBDA ts, m : IF Own(m, publisher) THEN ts ELSE target_add(ts, m, <<>>),
           targets, entry.members)

\* pattern_selection_begin and _next: from the ticket, once around the members
\* in the order of their session ids; the first that is connected is chosen.
Ranked(ids) == SetToSortSeq(ids, <)

round_robin(t, entry, publisher) ==
  LET n == Cardinality(entry.ids)
      ranked == Ranked(entry.ids)
      candidate(k) == entry.members[entry.at[ranked[((entry.cursor + k) % n) + 1]]]
      fit == {k \in 0..n-1 : /\ ~ Own(candidate(k), publisher)
                             /\ candidate(k).session \in t.online}
  IN  IF fit = {} THEN <<>> ELSE <<candidate(Min(fit))>>

Share(a, slot, filter, chosen) ==
  [entries |-> [a.entries EXCEPT ![slot].cursor = @ + 1],
   targets |-> IF chosen = <<>> THEN a.targets ELSE target_add(a.targets, chosen[1], <<filter>>)]

SelectEntry(t, a, slot, entry, publisher, topic) ==
  IF ~ topic_matches(entry.filter, topic) THEN a
  ELSE IF ~ entry.shared THEN [a EXCEPT !.targets = fan_out(@, entry, publisher)]
  ELSE Share(a, slot, entry.filter, round_robin(t, entry, publisher))

fanout_select(t, publisher, topic) ==
  FoldLeft(LAMBDA a, slot : SelectEntry(t, a, slot, a.entries[slot], publisher, topic),
           [entries |-> t.index.entries, targets |-> <<>>],
           index_match(t.index.topics, topic))

\* fanout_delivery_build: without a connection only a QoS above zero of a
\* session that persists is kept.
deliveries(t, targets, publish) ==
  LET reach(x) == x.session \in t.online
                    \/ (Min({x.qos, publish.qos}) > 0 /\ x.session \in Persistent)
      packet(x) == [session |-> x.session, qos |-> Min({x.qos, publish.qos}), ids |-> x.ids,
                    retain |-> publish.retain /\ x.rap, group |-> x.group]
      reached == SelectSeq(targets, reach)
  IN  [i \in 1..Len(reached) |-> packet(reached[i])]
-----------------------------------------------------------------------------
(* What the lane does. *)
Group(t, filter) ==
  {[session |-> m.session, on |-> m.session \in t.online, no_local |-> m.no_local] :
     m \in UNION {{Member(s, t.owners[s].id, sub) :
                     sub \in {x \in Range(t.owners[s].subs) : x.filter = filter}} :
                  s \in Range(t.sessions)}}

Eligible(filter, publisher) ==
  {m \in Group(tables, filter) : m.on /\ ~ (m.no_local /\ m.session = publisher)}

SharedFilters == {f \in UNION {UNION {{sub.filter : sub \in Range(p)} : p \in sc.packets} :
                               sc \in Scenarios} : is_shared(f)}

Missed0 == [p \in SharedFilters \X Session |-> 0]
\* The count of a group starts anew when its members or their connections change.
MissedKept(old, new) ==
  [p \in DOMAIN missed |-> IF Group(old, p[1]) = Group(new, p[1]) THEN missed[p] ELSE 0]

Busy(fault) ==
  /\ spent.steps < plan.steps
  /\ fault = NoFault \/ spent.faults < MaxFaults
  /\ spent' = [steps |-> spent.steps + 1,
               faults |-> spent.faults + (IF fault = NoFault THEN 0 ELSE 1)]

NoTables ==
  [sessions |-> <<>>, owners |-> [s \in Session |-> [id |-> 0, subs |-> <<>>]],
   online |-> {}, nextId |-> 1, index |-> empty_index]

\* The clients of the scenario have connected.
Init ==
  /\ plan \in Scenarios
  /\ tables = FoldLeft(session_create, NoTables, plan.clients)
  /\ retained = [messages |-> <<>>, at |-> <<>>]
  /\ rows = <<>>
  /\ now = 0
  /\ missed = Missed0
  /\ spent = [steps |-> 0, faults |-> 0]

Connect(s) ==
  /\ s \notin tables.online
  /\ tables' = IF s \in Range(tables.sessions) THEN [tables EXCEPT !.online = @ \cup {s}]
               ELSE session_create(tables, s)
  /\ missed' = MissedKept(tables, tables')
  /\ UNCHANGED <<retained, rows, now, plan, spent>>

Disconnect(s) ==
  /\ s \in tables.online
  /\ Busy(NoFault)
  /\ tables' = connection_close(tables, s)
  /\ missed' = MissedKept(tables, tables')
  /\ UNCHANGED <<retained, rows, now, plan>>

\* The session of a client that stayed away ends.
SessionEnd(s, fault) ==
  /\ s \in Range(tables.sessions) \ tables.online
  /\ Busy(fault)
  /\ fault # NoFault => tables.index.valid /\ tables.owners[s].subs # <<>>
  /\ tables' = session_remove(tables, s, fault)
  /\ missed' = MissedKept(tables, tables')
  /\ UNCHANGED <<retained, rows, now, plan>>

Changes(done) ==
  /\ tables' = done.tables
  /\ retained' = done.retained
  /\ rows' = done.rows
  /\ UNCHANGED <<now, plan>>

\* A fault is taken where it makes a difference.
Subscribe(s, packet, fault) ==
  /\ s \in tables.online
  /\ Busy(fault)
  /\ \E done \in {SubscribeOutcome(s, packet, fault)} :
       /\ fault # NoFault => done # SubscribeOutcome(s, packet, NoFault)
       /\ Changes(done)
       /\ missed' = MissedKept(tables, done.tables)

Unsubscribe(s, filters, fault) ==
  /\ s \in tables.online
  /\ Busy(fault)
  /\ \E done \in {UnsubscribeOutcome(s, filters, fault)} :
       /\ fault # NoFault => done # UnsubscribeOutcome(s, filters, NoFault)
       /\ Changes(done)
       /\ missed' = MissedKept(tables, done.tables)

\* fanout_apply: the retained store first (its failure refuses the message),
\* then nobody receives what has expired already, then the receivers are
\* selected from the index, which is rebuilt when it is not valid.
PublishTo(fresh, publish, kept, selected) ==
  [ok |-> TRUE, routed |-> TRUE, retained |-> kept.retained, rows |-> kept.rows,
   tables |-> [fresh EXCEPT !.index.entries = selected.entries],
   sent |-> deliveries(fresh, selected.targets, publish)]

PublishKept(id, publish, kept, fresh, fault) ==
  LET late == publish.expiry # NoExpiry /\ publish_expiry_at(publish) <= now
  IN  IF kept.ok /\ ~ late /\ (tables.index.valid \/ fault # "rebuild")
        THEN PublishTo(fresh, publish, kept, fanout_select(fresh, id, publish.topic))
        ELSE [ok |-> kept.ok /\ late, routed |-> FALSE, retained |-> kept.retained,
              rows |-> kept.rows, tables |-> tables, sent |-> <<>>]

PublishOutcome(s, publish, fault) ==
  PublishKept(tables.owners[s].id, publish,
    IF publish.retain THEN retained_apply(retained, rows, tables.owners[s].id, publish, fault)
    ELSE [ok |-> TRUE, retained |-> retained, rows |-> rows],
    IF tables.index.valid THEN tables ELSE [tables EXCEPT !.index = index_rebuild(tables)],
    fault)

Passed(topic, sent, publisher) ==
  [p \in DOMAIN missed |->
     IF ~ topic_matches(p[1], topic) THEN missed[p]
     ELSE IF \E x \in Range(sent) : x.group = <<p[1]>> /\ x.session = p[2] THEN 0
     ELSE IF \E m \in Eligible(p[1], publisher) : m.session = p[2] THEN missed[p] + 1
     ELSE 0]

Publish(s, publish, fault) ==
  /\ s \in tables.online
  /\ Busy(fault)
  /\ \E done \in {PublishOutcome(s, publish, fault)} :
       /\ fault # NoFault => done # PublishOutcome(s, publish, NoFault)
       /\ Changes(done)
       /\ missed' = IF done.routed THEN Passed(publish.topic, done.sent, s) ELSE missed

Tick ==
  /\ now < plan.time
  /\ now' = now + 1
  /\ UNCHANGED <<tables, retained, rows, missed, plan, spent>>

\* restore_sessions: the sessions that persist come back offline, in the order
\* of the rows, and new ids follow the highest that came back; expired retained
\* rows are deleted, the others are loaded, and the index is built.
restore_session_rows(order) ==
  [sessions |-> order, online |-> {}, index |-> empty_index,
   nextId |-> 1 + Max({0} \cup {tables.owners[s].id : s \in Range(order)}),
   owners |-> [s \in Session |-> IF s \in Range(order) THEN tables.owners[s]
                                 ELSE [id |-> 0, subs |-> <<>>]]]

restore_retained_rows(order) ==
  [messages |-> [i \in DOMAIN order |-> rows[order[i]]],
   at |-> [x \in Range(order) |-> SelectInSeq(order, LAMBDA y : y = x)]]

Restart ==
  /\ Persistence
  /\ Busy(NoFault)
  /\ \E order \in SetToSeqs(Range(tables.sessions) \cap Persistent) :
       \E base \in {restore_session_rows(order)} :
         tables' = [base EXCEPT !.index = index_rebuild(base)]
  /\ \E order \in SetToSeqs({x \in DOMAIN rows : ~ Expired(rows[x])}) :
       /\ retained' = restore_retained_rows(order)
       /\ rows' = [x \in Range(order) |-> rows[x]]
  /\ missed' = Missed0
  /\ UNCHANGED <<now, plan>>

RoutingNext ==
  \/ \E s \in Range(plan.clients) :
       \/ Connect(s)
       \/ Disconnect(s)
       \/ \E fault \in {NoFault, "index"} : SessionEnd(s, fault)
       \/ \E packet \in plan.packets, fault \in SubscribeFault : Subscribe(s, packet, fault)
       \/ \E filters \in plan.filters, fault \in {NoFault, "clone", "save", "index"} :
            Unsubscribe(s, filters, fault)
       \/ \E publish \in plan.publishes, fault \in {NoFault, "save", "delete", "rebuild"} :
            Publish(s, publish, fault)
  \/ Tick
  \/ Restart

RoutingSpec == Init /\ [][RoutingNext]_vars
-----------------------------------------------------------------------------
(* Properties. *)
TypeOK ==
  /\ tables.online \subseteq Range(tables.sessions)
  /\ \A s \in Session : (s \in Range(tables.sessions)) = (tables.owners[s].id # 0)
  /\ now \in 0..plan.time /\ spent.steps \in 0..plan.steps /\ spent.faults \in 0..MaxFaults

\* What every check answered with SALTS_EPROTO in the index code relies on: the
\* filter map, the free slots, the members' positions, the bitmap, the bindings
\* into the trie and the slots of its nodes tell the same story, and no node of
\* the trie is kept for nothing.
IndexSound ==
  LET ix == tables.index
      used == {i \in DOMAIN ix.entries : ix.entries[i].active}
  IN  /\ Range(ix.free) = DOMAIN ix.entries \ used
      /\ Len(ix.free) = Cardinality(Range(ix.free))
      /\ {ix.entries[i].filter : i \in used} = DOMAIN ix.filters
      /\ \A i \in used :
           LET e == ix.entries[i]
           IN  /\ ix.filters[e.filter] = i
               /\ binding_valid(ix.topics, e.binding, i)
               /\ e.members # <<>>
               /\ e.ids = {m.id : m \in Range(e.members)} /\ e.ids = DOMAIN e.at
               /\ \A n \in DOMAIN e.members : e.at[e.members[n].id] = n
      /\ \A n \in DOMAIN ix.topics.nodes : ix.topics.slot[ix.topics.nodes[n]] = n
      /\ \A node \in DOMAIN ix.topics.slot \ {Root} : ~ node_empty(ix.topics, node)

\* The subscriptions of the sessions that a publication reaches, read off the
\* session owners with the matcher of the lexer.
Wanted(s, publisher, publish) ==
  {sub \in Range(tables.owners[s].subs) :
     /\ ~ is_shared(sub.filter)
     /\ topic_matches(sub.filter, publish.topic)
     /\ ~ (sub.no_local /\ s = publisher)}

Reaches(s, qos) == s \in tables.online \/ (qos > 0 /\ s \in Persistent)

Expected(s, publisher, publish) ==
  LET subs == Wanted(s, publisher, publish)
  IN  [session |-> s, qos |-> Min({publish.qos, Max({sub.qos : sub \in subs})}),
       ids |-> {sub.identifier : sub \in subs} \ {0},
       retain |-> publish.retain /\ (\E sub \in subs : sub.rap), group |-> <<>>]

\* Whatever history of SUBSCRIBE, UNSUBSCRIBE, ended sessions, failed updates and
\* rebuilds led to the index, a publication reaches exactly the sessions whose
\* owner holds a matching subscription, once, with the highest granted QoS and
\* every identifier, and exactly one connected member of each shared group
\* (flowie_fanout_select against the session owners, "the only subscription truth").
\* The members take turns: none that is connected is passed over by as many
\* consecutive messages as the group has members, even when the index is rebuilt
\* in between (flowie_pattern_selection_begin, the cursor kept by
\* flowie_subscription_index_rebuild).
RoutesFollowOwners ==
  /\ \A p \in DOMAIN missed :
       missed[p] # 0 => missed[p] < Cardinality(Group(tables, p[1]))
  /\ \A pub \in tables.online, publish \in plan.publishes :
    \A done \in {PublishOutcome(pub, publish, NoFault)} :
      LET normal == {s \in Range(tables.sessions) :
                       Wanted(s, pub, publish) # {} /\ Reaches(s, Expected(s, pub, publish).qos)}
          plain == SelectSeq(done.sent, LAMBDA x : x.group = <<>>)
          grouped(f) == SelectSeq(done.sent, LAMBDA x : x.group = <<f>>)
      IN  done.routed =>
            /\ Len(plain) = Cardinality(normal)
            /\ Range(plain) = {Expected(s, pub, publish) : s \in normal}
            /\ \A f \in SharedFilters :
                 LET fit == IF topic_matches(f, publish.topic) THEN Eligible(f, pub) ELSE {}
                 IN  /\ Len(grouped(f)) = (IF fit = {} THEN 0 ELSE 1)
                     /\ \A x \in Range(grouped(f)) : x.session \in {m.session : m \in fit}

\* The data structures under the index agree with each other and with the
\* session owners whenever the index is marked valid, through slots that are
\* freed and reused, members and trie entries moved by a swap-remove, and nodes
\* that are pruned (flowie_subscription_member_upsert, _remove, topic_index_prune).
IndexAgreesWithOwners ==
  /\ TypeOK
  /\ tables.index.valid =>
       /\ IndexSound
       /\ \A i \in DOMAIN tables.index.entries :
            LET e == tables.index.entries[i]
            IN  e.active =>
                  Range(e.members) =
                    UNION {{Member(s, tables.owners[s].id, sub) :
                              sub \in {x \in Range(tables.owners[s].subs) : x.filter = e.filter}} :
                           s \in Range(tables.sessions)}
       /\ {sub.filter : sub \in UNION {Range(tables.owners[s].subs) : s \in Range(tables.sessions)}}
            = DOMAIN tables.index.filters

\* The retained messages in memory, their index by topic and the rows of the
\* repository are the same messages with the same revisions, whichever of save,
\* replacement, deletion and expiry failed (flowie_retained_message_apply,
\* _remove, _remove_memory).
RetainedDurable ==
  /\ DOMAIN retained.at = {m.topic : m \in Range(retained.messages)}
  /\ Len(retained.messages) = Cardinality(DOMAIN retained.at)
  /\ Len(retained.messages) <= MaxRetained
  /\ \A x \in DOMAIN retained.at : retained.messages[retained.at[x]].topic = x
  /\ Persistence => /\ DOMAIN rows = DOMAIN retained.at
                    /\ \A x \in DOMAIN rows : rows[x] = retained.messages[retained.at[x]]

AsksReplay(s, sub) ==
  /\ ~ is_shared(sub.filter)
  /\ \/ sub.handling = 0
     \/ sub.handling = 1 /\ \A old \in Range(tables.owners[s].subs) : old.filter # sub.filter

DueReplay(s, sub) ==
  {m.topic : m \in {x \in Range(retained.messages) :
                      /\ topic_matches(sub.filter, x.topic)
                      /\ ~ Expired(x)
                      /\ ~ (sub.no_local /\ x.publisher = tables.owners[s].id)}}

\* The SUBACK tells the truth: what it grants the session holds, with the options
\* of the last entry for that filter, and a packet of which nothing is granted
\* leaves the subscriptions alone; and each granted subscription that asks for
\* retained messages got every live one that matches, once, although expired
\* ones are removed from the vector during the walk
\* (flowie_endpoint_prepare_subscribe, flowie_retained_replay_subscription).
SubscribeAnswered ==
  \A s \in tables.online, packet \in plan.packets, fault \in SubscribeFault :
    \A done \in {SubscribeOutcome(s, packet, fault)} :
      LET before == tables.owners[s].subs
          subs == done.tables.owners[s].subs
          granted(i) == done.codes[i] = "granted"
          final(i) == \A j \in DOMAIN packet :
                        (j > i /\ granted(j)) => packet[j].filter # packet[i].filter
          sub(i) == Granted(s, packet)[i]
          topics(i) == [k \in DOMAIN done.sent[i] |-> done.sent[i][k].topic]
      IN  done.ok =>
            /\ \A i \in DOMAIN packet : granted(i) /\ final(i) => packet[i] \in Range(subs)
            /\ (\A i \in DOMAIN packet : ~ granted(i)) => subs = before
            /\ \A i \in DOMAIN done.sent :
                 /\ Range(topics(i)) = (IF AsksReplay(s, sub(i)) THEN DueReplay(s, sub(i)) ELSE {})
                 /\ Len(topics(i)) = Cardinality(Range(topics(i)))
=============================================================================
