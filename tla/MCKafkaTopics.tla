---------------------------- MODULE MCKafkaTopics ----------------------------
(* Scenarios for KafkaTopics: two resources, their specs and what goes wrong. *)
EXTENDS KafkaTopics

T(n, parts, rf, cfg) == [name |-> n, parts |-> parts, rf |-> rf, cfg |-> cfg, preserve |-> FALSE,
                         flaw |-> "none"]
With(e) == [x \in Event |-> IF x \in e THEN 1 ELSE 0]
S(one, two, deletes, e) ==
  [edits |-> <<one, two>>, deletes |-> [r \in 1..2 |-> r \in deletes], max |-> With(e)]
Idle == <<[T("c", 1, 1, {}) EXCEPT !.flaw = "label"]>>

Lives == {
  \* settings, partitions and replicas change; answers are lost, calls refused
  S(<<T("a", 1, 1, {<<"k", 1>>, <<"l", 1>>}), T("a", 2, 2, {<<"k", 2>>})>>, Idle, {1},
    {"lost", "refuse", "abort"}),
  \* fewer partitions, and back; Kafka is not Ready for a while
  S(<<T("a", 2, 1, {}), T("a", 1, 1, {}), T("a", 2, 2, {})>>, Idle, {1}, {"down", "refuse"}),
  \* two passes share a client that dies, or whose identity is renewed
  S(<<T("a", 1, 1, {})>>, <<T("b", 1, 1, {})>>, {}, {"break", "renew"}),
  S(<<T("a", 1, 1, {}), T("a", 2, 1, {})>>, <<T("b", 1, 1, {})>>, {2}, {"connect", "renew"}),
  \* a topic that is preserved
  S(<<T("a", 1, 1, {}), [T("a", 1, 1, {}) EXCEPT !.preserve = TRUE]>>, <<T("b", 1, 1, {})>>, {1},
    {"break"}),
  \* two resources that name one topic
  S(<<T("a", 2, 1, {})>>, <<T("a", 1, 1, {<<"k", 1>>})>>, {}, {"lost"})
}
=============================================================================
