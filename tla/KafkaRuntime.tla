---------------------------- MODULE KafkaRuntime ----------------------------
(***************************************************************************)
(* The settings of a Kafka resource that are about the broker process:     *)
(* broker tuning, tiered storage and tracing (crd/kafka.rs).  Which of     *)
(* them are valid, and what of them reaches the configuration file and the *)
(* pod of a broker (listeners.rs, kafka_node_pool.rs).                     *)
(*                                                                         *)
(* An optional value is a sequence of length at most one; "" is text that  *)
(* is empty once trimmed.  A tuning is a function from the fields that are *)
(* set to milliseconds, bytes, percent or counts; all are whole numbers,   *)
(* so the checks for fractions are left out; the rule of the record        *)
(* decompression limits belongs to the compression library.                *)
(***************************************************************************)
EXTENDS Integers, Sequences

None == <<>>
Some(x) == <<x>>
OrElse(a, b) == IF a # None THEN a ELSE b

-----------------------------------------------------------------------------
(* BrokerTuning *)

I32_MAX == 2147483647

\* The kinds of fields; a field that is in none of the sets must be positive.
NonnegativeFields ==
  {"partition_disk_scan_interval", "metadata_max_snapshot_interval",
   "txn_abort_cleanup_interval", "tls_reload_interval", "diskless_wal_trim_safety_lag",
   "streams_group_num_standby_replicas", "streams_group_num_warmup_replicas",
   "streams_group_acceptable_recovery_lag"}
PlainFields ==
  {"observer_lag_bound", "max_incremental_fetch_session_cache_slots", "max_connections",
   "max_connections_per_ip", "share_group_enable", "streams_group_enable"}
BoundedFields ==
  {"client_metrics_default_interval", "client_metrics_telemetry_max",
   "auto_join_voter_request_timeout", "replication_fetch_min", "replication_fetch_max",
   "replication_fetch_max_wait", "transaction_min_timeout", "metadata_raft_fetch_max"}
StringFields ==
  {"inter_broker_server_name", "share_group_isolation_level", "streams_group_assignor"}

validate_tuning_field(field, value) ==
  CASE field \in PlainFields \cup StringFields -> TRUE
    [] field \in NonnegativeFields -> value >= 0
    [] field = "leader_imbalance_per_broker" -> value \in 0 .. 100
    [] field = "transaction_max_timeout" -> value > 0 /\ value <= I32_MAX - 1
    [] field \in BoundedFields -> value > 0 /\ value <= I32_MAX
    [] OTHER -> value > 0

validate_strings(t) ==
  /\ "inter_broker_server_name" \in DOMAIN t => t["inter_broker_server_name"] # ""
  /\ "share_group_isolation_level" \in DOMAIN t =>
       t["share_group_isolation_level"] \in {"read-uncommitted", "read-committed"}
  /\ "streams_group_assignor" \in DOMAIN t =>
       t["streams_group_assignor"] \in {"auto", "sticky", "highly-available"}

Pair(left, low, right, high) == [left |-> left, low |-> low, right |-> right, high |-> high]

\* Pairs of fields, with the broker's defaults, whose first may not exceed the second.
Ordered ==
  {Pair("self_registration_backoff_min", 100, "self_registration_backoff_max", 5000),
   Pair("rlmm_bootstrap_backoff_initial", 250, "rlmm_bootstrap_backoff_max", 10000),
   Pair("replication_fetch_min", 1, "replication_fetch_max", 1048576),
   Pair("replication_reconnect_initial_delay", 100, "replication_reconnect_delay_cap", 5000),
   Pair("delegation_token_default_renew_period", 86400000,
        "delegation_token_max_lifetime", 604800000),
   Pair("client_metrics_eviction_tick", 60000, "client_metrics_stale_floor", 600000),
   Pair("unclean_recovery_aggressive_deadline", 2000, "unclean_recovery_balanced_deadline", 30000),
   Pair("telemetry_decompressed_output_floor", 16777216,
        "telemetry_decompressed_output_ceiling", 1073741824),
   Pair("consumer_group_min_session_timeout", 45000, "consumer_group_max_session_timeout", 60000),
   Pair("consumer_group_session_timeout", 45000, "consumer_group_max_session_timeout", 60000),
   Pair("consumer_group_min_session_timeout", 45000, "consumer_group_session_timeout", 45000),
   Pair("consumer_group_min_heartbeat_interval", 5000,
        "consumer_group_max_heartbeat_interval", 15000),
   Pair("consumer_group_heartbeat_interval", 5000, "consumer_group_max_heartbeat_interval", 15000),
   Pair("consumer_group_min_heartbeat_interval", 5000, "consumer_group_heartbeat_interval", 5000)}

\* Pairs whose first must be less.
Below ==
  {Pair("heartbeat_interval", 3000, "heartbeat_timeout", 9000),
   Pair("controller_heartbeat_interval", 500, "controller_election_timeout", 5000),
   Pair("transaction_min_timeout", 1000, "transaction_max_timeout", 900000)}

unwrap_or(t, field, default) == IF field \in DOMAIN t THEN t[field] ELSE default

SESSION_TIMEOUT == 45000 .. 60000
HEARTBEAT_INTERVAL == 5000 .. 15000

\* Mutant: a pair is compared only when both of its fields are set.
validate_relations_BothSet(t) ==
  /\ \A r \in Ordered : {r.left, r.right} \subseteq DOMAIN t => t[r.left] <= t[r.right]
  /\ \A r \in Below : {r.left, r.right} \subseteq DOMAIN t => t[r.left] < t[r.right]

validate_relations(t) ==
  /\ \A r \in Ordered : unwrap_or(t, r.left, r.low) <= unwrap_or(t, r.right, r.high)
  /\ \A r \in Below : unwrap_or(t, r.left, r.low) < unwrap_or(t, r.right, r.high)
  /\ \A f \in {"share_group_session_timeout", "streams_group_session_timeout"} :
       unwrap_or(t, f, 45000) \in SESSION_TIMEOUT
  /\ \A f \in {"share_group_heartbeat_interval", "streams_group_heartbeat_interval"} :
       unwrap_or(t, f, 5000) \in HEARTBEAT_INTERVAL

BrokerTuning_validate(t) ==
  /\ \A f \in DOMAIN t : validate_tuning_field(f, t[f])
  /\ validate_strings(t)
  /\ validate_relations(t)

\* The [runtime] table has the fields that are set; without any there is no table.
render_runtime_toml(tuning) == IF tuning = None \/ tuning = Some(<<>>) THEN None ELSE tuning

\* The broker fills in its defaults and does not start when a pair is out of order.
BrokerAccepts(runtime) ==
  runtime # None =>
    LET value(f, d) == IF f \in DOMAIN runtime[1] THEN runtime[1][f] ELSE d
    IN  /\ \A r \in Ordered : value(r.left, r.low) <= value(r.right, r.high)
        /\ \A r \in Below : value(r.left, r.low) < value(r.right, r.high)

\* The time that Kubernetes gives a broker to stop, in seconds.
termination_grace_period(tuning) ==
  IF tuning # None /\ "controlled_shutdown_drain_timeout" \in DOMAIN tuning[1]
  THEN tuning[1]["controlled_shutdown_drain_timeout"] \div 1000 + 30 ELSE 60

-----------------------------------------------------------------------------
(* TieredStorage *)

Positive(opt) == opt # None => opt[1] > 0

\* `timings` is the verdict of the broker's own check of the remaining fields.
TopicMetadataManagerSpec_validate(topic) ==
  /\ topic.bootstrap # ""
  /\ Positive(topic.num_partitions) /\ Positive(topic.replication)
  /\ Positive(topic.event_queue_capacity)
  /\ topic.timings

MetadataManagerSpec_validate(manager) ==
  IF manager.kind = "InMemory" THEN manager.topic = None
  ELSE manager.topic # None => TopicMetadataManagerSpec_validate(manager.topic[1])

TieredStorage_validate(tiered) ==
  /\ CASE tiered.kind = "Local" -> tiered.s3 = None /\ tiered.gcs = None
       [] tiered.kind = "S3" -> /\ tiered.gcs = None /\ tiered.s3 # None
                                /\ tiered.s3[1].bucket # "" /\ tiered.s3[1].region # ""
       [] tiered.kind = "Gcs" -> /\ tiered.s3 = None /\ tiered.gcs # None
                                 /\ tiered.gcs[1].bucket # ""
  /\ tiered.metadata_manager # None => MetadataManagerSpec_validate(tiered.metadata_manager[1])
  /\ tiered.persistence # None => tiered.kind = "Local" /\ tiered.persistence[1].size # ""

KEY_FILE == "gcs-credentials"

\* The [remote_storage] tables.  Of the credentials only the path of a GCS key is in the
\* file; a manager that is not in memory keeps its records in a topic.
render_remote_storage(tiered) ==
  IF tiered = None THEN None
  ELSE Some([backend |-> CASE tiered[1].kind = "Local" -> None
                           [] tiered[1].kind = "S3" -> Some([bucket |-> tiered[1].s3[1].bucket,
                                                             key |-> None])
                           [] tiered[1].kind = "Gcs" ->
                                Some([bucket |-> tiered[1].gcs[1].bucket,
                                      key |-> IF tiered[1].gcs[1].credentials
                                              THEN Some(KEY_FILE) ELSE None]),
             in_memory |-> /\ tiered[1].metadata_manager # None
                           /\ tiered[1].metadata_manager[1].kind = "InMemory",
             topic |-> IF tiered[1].metadata_manager = None THEN None
                       ELSE tiered[1].metadata_manager[1].topic])

\* What tiered storage adds to the pod, valid or not: credentials of S3 in the
\* environment, the key file of GCS, a volume for the local tier unless it has a claim.
TierEnv(tiered) ==
  IF tiered # None /\ tiered[1].kind = "S3" /\ tiered[1].s3 # None /\ tiered[1].s3[1].credentials
  THEN {"AWS_ACCESS_KEY_ID", "AWS_SECRET_ACCESS_KEY"} ELSE {}

TierVolumes(tiered) ==
  IF tiered = None THEN {}
  ELSE CASE tiered[1].kind = "Local" ->
              IF tiered[1].persistence = None THEN {"tier-storage"} ELSE {}
         [] tiered[1].kind = "Gcs" ->
              IF tiered[1].gcs # None /\ tiered[1].gcs[1].credentials THEN {KEY_FILE} ELSE {}
         [] OTHER -> {}

-----------------------------------------------------------------------------
(* Tracing *)

\* `ratio` is in percent.
Tracing_validate(tracing) ==
  /\ tracing.otlp # None
  /\ LET otlp == tracing.otlp[1]
     IN  /\ otlp.endpoint # ""
         /\ otlp.ratio # None => otlp.ratio[1] \in 0 .. 100
         /\ otlp.service_name # Some("")
         /\ Positive(otlp.timeout)

\* The block becomes the environment of the broker, one variable for each field.
TracingEnv(tracing) == IF tracing = None THEN None ELSE tracing[1].otlp

-----------------------------------------------------------------------------
(* validate_kafka_runtime of the reconcile pass *)

\* The conditions that are written to the status, in order, up to the first that fails.
validate_kafka_runtime(s) ==
  LET tuned == s.tuning = None \/ BrokerTuning_validate(s.tuning[1])
      tiered == s.tiered = None \/ TieredStorage_validate(s.tiered[1])
      traced == s.tracing = None \/ Tracing_validate(s.tracing[1])
  IN  IF ~tuned THEN <<[type |-> "KafkaConfigValid", status |-> FALSE]>>
      ELSE (IF s.tiered = None THEN <<>> ELSE <<[type |-> "TieredStorageReady", status |-> tiered]>>)
           \o (IF s.tracing = None \/ ~tiered THEN <<>>
               ELSE <<[type |-> "TracingReady", status |-> traced]>>)
=============================================================================
