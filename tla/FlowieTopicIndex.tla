---------------------------- MODULE FlowieTopicIndex ----------------------------
(***************************************************************************)
(* The topic trie of flowie_topic_index.c, which both the subscription      *)
(* index and the compiled access rules are built on, and the matcher of the *)
(* MQTT lexer it must agree with.  A topic or a filter is the sequence of   *)
(* its levels.  A node is named by the path of edges that leads to it, with *)
(* "+" for the plus edge; its two entry vectors keep their order, because   *)
(* bindings name positions in them.                                         *)
(***************************************************************************)
EXTENDS Integers, Sequences, FiniteSets, SequencesExt

CONSTANT
  Dollar      \* the level names that begin with '$'

\* Positions and slots count from 1; zero is "none" (FLOWIE_TOPIC_INDEX_NO_ENTRY).
NoEntry == 0

\* A filter is [share |-> group name or "", levels |-> sequence of levels];
\* topic_filter_inner drops the prefix "$share/<group>/".
filter_inner(filter) == filter.levels
is_shared(filter) == filter.share # ""

\* vec_swap_remove: the last element takes the place of the removed one.
SwapRemove(s, i) == [j \in 1..Len(s)-1 |-> IF j = i THEN s[Len(s)] ELSE s[j]]

-----------------------------------------------------------------------------
\* The matcher of the lexer: level by level, "#" matches what remains (the
\* parent level included), and a topic that begins with '$' is hidden from a
\* filter that begins with a wildcard.
LevelsAgree(levels, topic, n) == \A i \in 1..n : levels[i] \in {"+", topic[i]}

topic_matches(filter, topic) ==
  LET levels == filter_inner(filter)
      n == Len(levels)
  IN  /\ ~ (topic[1] \in Dollar /\ levels[1] \in {"+", "#"})
      /\ IF levels[n] = "#"
           THEN Len(topic) >= n - 1 /\ LevelsAgree(levels, topic, n - 1)
           ELSE Len(topic) = n /\ LevelsAgree(levels, topic, n)

-----------------------------------------------------------------------------
\* An index: the node vector (a sequence of paths), each node's slot in it, and
\* the two vectors of entries of every node.
Root == <<>>

topic_index_init ==
  [nodes |-> <<Root>>, slot |-> (Root :> 1), terminal |-> (Root :> <<>>), hash |-> (Root :> <<>>)]

node_create(index, path) ==
  [nodes    |-> Append(index.nodes, path),
   slot     |-> (path :> Len(index.nodes) + 1) @@ index.slot,
   terminal |-> (path :> <<>>) @@ index.terminal,
   hash     |-> (path :> <<>>) @@ index.hash]

exact_child(index, path) ==
  IF path \in DOMAIN index.slot THEN index ELSE node_create(index, path)

\* The walk creates the nodes that are missing, then appends the entry to the
\* vector of the last node and tells the caller where it is.
NodeOf(levels) == IF Last(levels) = "#" THEN Front(levels) ELSE levels
BucketOf(levels) == IF Last(levels) = "#" THEN "hash" ELSE "terminal"

walk_create(index, path) ==
  FoldLeft(LAMBDA t, n : exact_child(t, SubSeq(path, 1, n)), index, [n \in 1..Len(path) |-> n])

entry_push(index, path, bucket, entry) ==
  [index |-> [index EXCEPT ![bucket][path] = Append(@, entry)],
   binding |-> [node |-> path, position |-> Len(index[bucket][path]) + 1, bucket |-> bucket]]

insert_bound(index, filter, entry) ==
  entry_push(walk_create(index, NodeOf(filter_inner(filter))), NodeOf(filter_inner(filter)),
             BucketOf(filter_inner(filter)), entry)

Children(index, path) ==
  {p \in DOMAIN index.slot : Len(p) = Len(path) + 1 /\ SubSeq(p, 1, Len(path)) = path}

node_empty(index, path) ==
  /\ Children(index, path) = {}
  /\ index.terminal[path] = <<>>
  /\ index.hash[path] = <<>>

\* One round of topic_index_prune: the node leaves the node vector, whose last
\* node takes its slot.
node_leaves(index, path, removed, nodes) ==
  LET rest == DOMAIN index.slot \ {path}
  IN  [nodes |-> nodes,
       slot |-> [p \in rest |-> IF removed <= Len(nodes) /\ p = nodes[removed]
                                  THEN removed ELSE index.slot[p]],
       terminal |-> [p \in rest |-> index.terminal[p]],
       hash |-> [p \in rest |-> index.hash[p]]]

node_remove(index, path) ==
  node_leaves(index, path, index.slot[path], SwapRemove(index.nodes, index.slot[path]))

\* Upwards from the emptied node, until one is still in use or the root.
prune_node(index, path) ==
  IF path # Root /\ node_empty(index, path) THEN node_remove(index, path) ELSE index

index_prune(index, path) ==
  FoldLeft(LAMBDA t, n : prune_node(t, SubSeq(path, 1, Len(path) - n)),
           index, [n \in 1..Len(path) |-> n - 1])

\* The caller's binding must name its own entry (SALTS_EPROTO otherwise).  The
\* entry that was moved into the hole is reported, for its owner to be told.
binding_valid(index, binding, entry) ==
  /\ binding.node \in DOMAIN index.slot
  /\ binding.position \in DOMAIN index[binding.bucket][binding.node]
  /\ index[binding.bucket][binding.node][binding.position] = entry

index_remove(index, binding, entry) ==
  LET old == index[binding.bucket][binding.node]
  IN  [moved |-> IF binding.position < Len(old) THEN Last(old) ELSE NoEntry,
       index |-> index_prune([index EXCEPT ![binding.bucket][binding.node] =
                                             SwapRemove(@, binding.position)],
                             binding.node)]

-----------------------------------------------------------------------------
\* topic_index_match: the set of active nodes advances by one level at a time.
\* A topic that begins with '$' takes no wildcard edge at the first level.
Existing(index, path) == IF path \in DOMAIN index.slot THEN <<path>> ELSE <<>>
Entries(index, bucket, paths) == FlattenSeq([i \in 1..Len(paths) |-> index[bucket][paths[i]]])

match_level(index, topic, state, n) ==
  LET wild == ~ (n = 1 /\ topic[1] \in Dollar)
      step(p) == (IF wild THEN Existing(index, Append(p, "+")) ELSE <<>>)
                   \o Existing(index, Append(p, topic[n]))
  IN  [out  |-> IF wild THEN state.out \o Entries(index, "hash", state.at) ELSE state.out,
       at   |-> FlattenSeq([i \in 1..Len(state.at) |-> step(state.at[i])])]

index_match_NoParent(index, topic) ==
  LET walked == FoldLeft(LAMBDA s, n : match_level(index, topic, s, n),
                         [out |-> <<>>, at |-> <<Root>>], [n \in 1..Len(topic) |-> n])
  IN  walked.out \o Entries(index, "terminal", walked.at)

index_match(index, topic) ==
  LET walked == FoldLeft(LAMBDA s, n : match_level(index, topic, s, n),
                         [out |-> <<>>, at |-> <<Root>>], [n \in 1..Len(topic) |-> n])
      ends == [i \in 1..Len(walked.at) |->
                 index.terminal[walked.at[i]] \o index.hash[walked.at[i]]]
  IN  walked.out \o FlattenSeq(ends)

\* visit_topic_node hands every matching entry to the visitor, depth first; the
\* visitors that use it do not depend on the order, so the result is a set.
visit_end(index, path) == Range(index.terminal[path]) \cup Range(index.hash[path])

visit_topic(index, topic) ==
  LET wild(n) == ~ (n = 1 /\ topic[1] \in Dollar)
      edges(n) == {topic[n]} \cup (IF wild(n) THEN {"+"} ELSE {})
      reached(n) == {p \in DOMAIN index.slot : Len(p) = n /\ \A i \in 1..n : p[i] \in edges(i)}
  IN  UNION {Range(index.hash[p]) : p \in UNION {reached(n - 1) : n \in {m \in 1..Len(topic) : wild(m)}}}
        \cup UNION {visit_end(index, p) : p \in reached(Len(topic))}

\* visit_containing_node: the entries whose filter covers everything the
\* requested filter matches.  A requested "#" is covered by "#" entries only, a
\* requested "+" by "+" and "#", a level that begins with '$' by no wildcard.
visit_containing(index, requested) ==
  LET levels == filter_inner(requested)
      system == levels[1] \in Dollar
      plain == IF Last(levels) = "#" THEN Front(levels) ELSE levels
      wild(n) == ~ (n = 1 /\ system)
      edges(n) == {levels[n]} \cup (IF wild(n) THEN {"+"} ELSE {})
      reached(n) == {p \in DOMAIN index.slot : Len(p) = n /\ \A i \in 1..n : p[i] \in edges(i)}
      covering == UNION {Range(index.hash[p]) :
                           p \in UNION {reached(n - 1) : n \in {m \in 1..Len(levels) : wild(m)}}}
  IN  covering \cup (IF Last(levels) = "#" THEN {}
                     ELSE UNION {visit_end(index, p) : p \in reached(Len(plain))})
=============================================================================
