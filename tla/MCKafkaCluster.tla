---------------------------- MODULE MCKafkaCluster ----------------------------
(***************************************************************************)
(* Instances of KafkaCluster: a controller pool 1 and a broker pool 2.     *)
(***************************************************************************)
EXTENDS KafkaCluster

Plain(name, port) ==
  [name |-> name, port |-> port, type |-> "internal", tls |-> FALSE, auth |-> NoAuth,
   host |-> None, over |-> <<>>, peers |-> None]
Outside(type, tls) == [Plain("EXT", 9094) EXCEPT !.type = type, !.tls = tls]
Over(b, host) == [broker |-> b, advHost |-> None, advPort |-> None, nodePort |-> None,
                  host |-> Some(host)]
Behind == [Outside("ingress", TRUE) EXCEPT !.host = Some("boot"),
                                           !.over = <<Over(2, "two")>>]

Base == [version |-> 3, pin |-> None, config |-> 0, listeners |-> <<>>, ib |-> None,
         authorization |-> None, tokens |-> FALSE, logging |-> "off", metrics |-> "off",
         policy |-> FALSE, kerberos |-> FALSE, krb5 |-> FALSE,
         tuning |-> None, tiered |-> None, tracing |-> None]
With(type, tls) == [Base EXCEPT !.listeners = <<Plain("PLAIN", 9092), Outside(type, tls)>>]

Quiet == [e \in Event |-> 0]
Node == [ext |-> TRUE, int |-> TRUE]
Cluster(edits) ==
  [brokers |-> {2}, controllers |-> {1}, edits |-> edits, early |-> FALSE, provided |-> TRUE,
   max |-> Quiet, node |-> ("n1" :> Node @@ "n2" :> Node), home |-> <<"n1", "n2">>]
May(c, e) == [c EXCEPT !.max[e] = 1]

Guarded == [Base EXCEPT !.policy = TRUE, !.metrics = "pod",
                        !.listeners = <<[Plain("PLAIN", 9092) EXCEPT !.peers = Some("team")]>>]
Doubled == [Base EXCEPT !.listeners = <<Plain("A", 9092), Plain("B", 9092)>>]
Mutual == [Base EXCEPT !.listeners = <<[Plain("A", 9091) EXCEPT !.tls = TRUE,
                                                             !.auth = [kind |-> "tls"]]>>,
                       !.authorization = Some({"admin"}), !.tokens = TRUE]
Bearer == [Base EXCEPT !.listeners =
             <<Plain("PLAIN", 9092),
               [Plain("AUTH", 9095) EXCEPT !.tls = TRUE,
                                           !.auth = Oauth("jwt", {"jwks", "trust"}, TRUE, 1)]>>]

Tier(kind) == [kind |-> kind, s3 |-> None, gcs |-> None, metadata_manager |-> None,
               persistence |-> None]
Topic == [bootstrap |-> "self", num_partitions |-> Some(50), replication |-> None,
          event_queue_capacity |-> None, timings |-> TRUE]
Lake == Some([Tier("S3") EXCEPT
                !.s3 = Some([bucket |-> "lake", region |-> "north", credentials |-> TRUE]),
                !.metadata_manager = Some([kind |-> "Topic", topic |-> Some(Topic)])])
Cloud == Some([Tier("Gcs") EXCEPT
                 !.gcs = Some([bucket |-> "cloud", credentials |-> TRUE]),
                 !.metadata_manager = Some([kind |-> "InMemory", topic |-> None])])
Otlp == [endpoint |-> "collector", ratio |-> Some(10), service_name |-> None, timeout |-> None]
Archived == [Base EXCEPT !.tiered = Lake]

Lives == {
  \* a property edited while a pass or a pod fails
  May(Cluster(<<Base, [Base EXCEPT !.config = 1]>>), "abort"),
  May(Cluster(<<Base, [Base EXCEPT !.config = 1]>>), "pod"),
  \* a load balancer whose address comes late
  Cluster(<<With("loadbalancer", TRUE)>>),
  \* hosts behind an Ingress, node ports
  May(Cluster(<<[Base EXCEPT !.listeners = <<Plain("PLAIN", 9092), Behind>>]>>), "abort"),
  Cluster(<<Base, With("nodeport", TRUE)>>),
  \* an upgrade that the broker rejects at first, a pin that is no version
  May(Cluster(<<Base, [Base EXCEPT !.version = 4]>>), "reject"),
  Cluster(<<Base, [Base EXCEPT !.version = 4, !.pin = Some(0)]>>),
  \* an online downgrade, and one below its floor
  Cluster(<<Base, [Base EXCEPT !.pin = Some(2)]>>),
  Cluster(<<Base, [Base EXCEPT !.pin = Some(1)]>>),
  \* a filter and a Secret that come late
  [Cluster(<<[Base EXCEPT !.logging = "external"]>>) EXCEPT !.provided = FALSE],
  Cluster(<<[Base EXCEPT !.logging = "inline"]>>),
  [Cluster(<<Bearer>>) EXCEPT !.provided = FALSE],
  \* specs that are refused, and their correction
  Cluster(<<Base, Doubled>>),
  [Cluster(<<Doubled, Mutual>>) EXCEPT !.early = TRUE],
  [Cluster(<<[Base EXCEPT !.tuning = Some("heartbeat_interval" :> 9000)],
             [Base EXCEPT !.tiered = Some(Tier("S3"))],
             [Base EXCEPT !.tiered = Cloud, !.tracing = Some([otlp |-> None])],
             [Base EXCEPT !.tiered = Cloud, !.tracing = Some([otlp |-> Some(Otlp)])]>>)
     EXCEPT !.early = TRUE],
  \* a longer shutdown; a minimum above the default of its maximum
  Cluster(<<[Archived EXCEPT !.tuning = Some("controlled_shutdown_drain_timeout" :> 90000)]>>),
  Cluster(<<Base, [Base EXCEPT !.tuning = Some("replication_fetch_min" :> 2000000)]>>),
  \* a NetworkPolicy, a listener more, and no policy
  Cluster(<<Guarded, [With("ingress", TRUE) EXCEPT !.policy = TRUE, !.metrics = "service",
                        !.listeners = <<@[1], Behind>>]>>),
  Cluster(<<Guarded, [Base EXCEPT !.metrics = "both"]>>)}
=============================================================================
