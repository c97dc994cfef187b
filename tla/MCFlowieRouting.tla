---------------------------- MODULE MCFlowieRouting ----------------------------
(***************************************************************************)
(* Instances of FlowieRouting for TLC.  The first scenario moves            *)
(* subscriptions of three sessions in and out of the index, the second has  *)
(* a shared group, the third retained messages with expiry.                 *)
(***************************************************************************)
EXTENDS FlowieRouting

Plain(levels) == [share |-> "", levels |-> levels]
Sub(filter, qos, no_local, rap, handling, identifier) ==
  [filter |-> filter, qos |-> qos, no_local |-> no_local, rap |-> rap, handling |-> handling,
   identifier |-> identifier]
Msg(topic, qos, retain, payload, expiry) ==
  [topic |-> topic, qos |-> qos, retain |-> retain, payload |-> payload, expiry |-> expiry]

A == Plain(<<"a">>)
AB == Plain(<<"a", "b">>)
APlus == Plain(<<"a", "+">>)
AHash == Plain(<<"a", "#">>)
Hash == Plain(<<"#">>)
SysHash == Plain(<<"$s", "#">>)
Jobs == [share |-> "g", levels |-> <<"a">>]

\* Filters that share trie nodes: two entries in one terminal vector, two in
\* the "#" vectors of a node and its parent.
Moves ==
  [packets |-> {<<Sub(A, 1, FALSE, FALSE, 0, 1)>>, <<Sub(Jobs, 1, FALSE, FALSE, 0, 0)>>,
                <<Sub(AHash, 0, TRUE, TRUE, 0, 2), Sub(Hash, 1, FALSE, FALSE, 0, 0)>>},
   filters |-> {<<A>>, <<Jobs>>, <<AHash, Hash>>},
   publishes |-> {Msg(<<"a">>, 1, FALSE, "x", NoExpiry), Msg(<<"a", "b">>, 0, FALSE, "x", NoExpiry)},
   steps |-> 5, time |-> 0, clients |-> <<"c1", "c2">>]

\* A shared group of three.
Groups ==
  [packets |-> {<<Sub(Jobs, 1, FALSE, FALSE, 0, 0)>>},
   filters |-> {<<Jobs>>},
   publishes |-> {Msg(<<"a">>, 1, FALSE, "x", NoExpiry)},
   steps |-> 6, time |-> 0, clients |-> <<"c1", "c2", "c3">>]

\* Retained messages on three topics, replaced, deleted and expiring.
Retain ==
  [packets |-> {<<Sub(AHash, 1, TRUE, TRUE, 1, 0), Sub(Hash, 0, FALSE, FALSE, 0, 0)>>,
                <<Sub(SysHash, 1, FALSE, FALSE, 2, 0)>>},
   filters |-> {<<AHash>>},
   publishes |-> {Msg(<<"a">>, 1, TRUE, "x", 1), Msg(<<"a", "b">>, 0, TRUE, "x", NoExpiry),
                  Msg(<<"$s", "b">>, 0, TRUE, "x", 0), Msg(<<"a">>, 0, TRUE, "", NoExpiry)},
   steps |-> 4, time |-> 1, clients |-> <<"c1", "c2">>]

MCScenarios == {Moves, Groups, Retain}
MCDollar == {"$s"}
MCDenied == {<<"c1", Hash>>, <<"c2", SysHash>>}
=============================================================================
