----------------------------- MODULE KafkaCluster -----------------------------
(***************************************************************************)
(* The reconcile pass of a Kafka resource (kafka.rs) apart from its CA     *)
(* phase, which CaRotation models: the metadata version, logging, the      *)
(* keystore, the objects of external listeners, the ConfigMap, the hash    *)
(* that rolls the pools, metrics, the NetworkPolicy and the status.        *)
(*                                                                         *)
(* Around the pass run the pool controller, which renders StatefulSets     *)
(* (kafka_node_pool.rs), the pods, which read the ConfigMap and their      *)
(* certificate when they start, the cloud, which assigns load balancers,   *)
(* and a user, who edits the spec.  A pool has one pod; pool p has node p. *)
(* The writes of the pass are steps, after each of which it may fail.      *)
(***************************************************************************)
EXTENDS Integers, Sequences, FiniteSets, TLC, Rollout, Listeners

CONSTANT Scenarios   \* the clusters of this instance and what happens to them

\* What may happen how often: a step of the pass fails ("abort"), the broker rejects
\* UpdateFeatures ("reject"), a pod fails ("pod").
Event == {"abort", "reject", "pod"}

\* `edits` are the specs that the user applies, the first at creation; `early`
\* allows edits before the first metadata version is finalized.
ASSUME ScenarioAssumption ==
  \A c \in Scenarios :
    /\ c.brokers \subseteq Pool /\ c.controllers \subseteq Pool
    /\ c.brokers \cup c.controllers = Pool
    /\ c.edits # <<>> /\ c.early \in BOOLEAN
    /\ c.max \in [Event -> Nat]

VARIABLES
  scenario,
  edit,      \* how many edits the user has made
  events,    \* how often each event has happened
  ready,     \* whether the Secrets and ConfigMaps that the spec refers to exist
  status,    \* the status of the Kafka resource
  svc,       \* Services
  routes,    \* Ingresses and Routes
  keystore,  \* the certificates of the nodes
  cm,        \* the ConfigMap of the brokers
  policy,    \* the NetworkPolicy
  monitors,  \* the objects that make Prometheus scrape the brokers
  label,     \* the config-hash label of each pool
  reported,  \* readiness in each pool's status
  tmpl,      \* the pod template in each StatefulSet
  pod,       \* the pod of each pool
  level,     \* the metadata version finalized in the cluster
  pc,        \* where the pass is
  pass       \* what it has read and decided

userVars == <<scenario, edit, events, ready>>
objectVars == <<svc, routes, keystore, cm, policy, monitors>>
poolVars == <<reported, tmpl, pod>>
vars == <<userVars, objectVars, status, label, poolVars, level, pc, pass>>

Spec0 == scenario.edits[1]
kafka == scenario.edits[edit]        \* the spec
Brokers == scenario.brokers
Controllers == scenario.controllers

Happens(e) == events[e] < scenario.max[e] /\ events' = [events EXCEPT ![e] = @ + 1]

World == [svc |-> svc, node |-> scenario.node,
          at |-> [p \in Pool |-> IF pod[p].phase = "none" THEN None ELSE Some(scenario.home[p])]]

-----------------------------------------------------------------------------
(* version.rs *)

ONLINE_DOWNGRADE_FLOOR == 2    \* 3.7-IV0

\* None: invalid.  Versions are numbers; 0 stands for text that is no version and
\* for a level the broker does not support (below 3.3-IV3): both are refused
\* wherever they appear, for no binary below the floor admits a level above it.
evaluate(version, pin, finalized) ==
  LET resolved == IF pin = None THEN version ELSE pin[1]
  IN  IF \/ version = 0 \/ resolved = 0
         \/ resolved > version
         \/ finalized # None /\ resolved < finalized[1] /\ resolved < ONLINE_DOWNGRADE_FLOOR
      THEN None ELSE Some(resolved)

\* The level that a new node is formatted with.
resolved_metadata_version(s, st) ==
  IF st.metadata # None THEN st.metadata[1]
  ELSE IF s.pin # None THEN s.pin[1] ELSE s.version

\* Mutant: the StatefulSets may still carry the old version.
pools_rolled_to_version_AnyVersion(version) ==
  /\ \A p \in Pool : tmpl[p] # None
  /\ pools_converged(label, [p \in Pool |-> tmpl[p][1].hash],
                     [p \in Pool |-> IF pod[p].phase = "up" /\ pod[p].tmpl = tmpl[p]
                                     THEN tmpl[p][1].hash ELSE NoHash])

pools_rolled_to_version(version) ==
  /\ \A p \in Pool : tmpl[p] # None
  /\ pools_converged(label, [p \in Pool |-> tmpl[p][1].hash],
                     [p \in Pool |-> IF pod[p].phase = "up" /\ pod[p].tmpl = tmpl[p]
                                     THEN tmpl[p][1].hash ELSE NoHash])
  /\ \A p \in Pool : tmpl[p][1].version = version

-----------------------------------------------------------------------------
(* The hash *)

combined_config_hash(s, pin, filter) ==
  <<s.config, canonical_listener_intent(s.listeners, s.ib), s.metrics # "off", pin, filter,
    render_runtime_toml(s.tuning)>>

\* The certificates that are served are part of the hash that rolls the pools.
rollout_config_hash(base, ks) ==
  <<base, [p \in DOMAIN ks |-> ks[p].serial]>>

\* An external filter that cannot be read is no filter.
resolve_logging(s) ==
  CASE s.logging = "off" -> None
    [] s.logging = "inline" -> Some("inline")
    [] s.logging = "external" -> IF ready THEN Some("external") ELSE None

-----------------------------------------------------------------------------
(* Initial state: the resource and its pools were just created. *)

NoPass == [s |-> <<>>]
NoPod == [phase |-> "none", tmpl |-> None, toml |-> None, leaf |-> None]
HeadlessKey == [listener |-> "headless", id |-> BOOT]

Init ==
  /\ scenario \in Scenarios
  /\ edit = 1
  /\ events = [e \in Event |-> 0]
  /\ ready = scenario.provided
  /\ status = [version |-> None, listeners |-> "none", addresses |-> <<>>, metadata |-> None,
               policy |-> "none", logging |-> "none", checks |-> <<>>]
  /\ svc = <<>> /\ routes = <<>> /\ keystore = <<>> /\ cm = None
  /\ policy = None /\ monitors = {}
  /\ label = [p \in Pool |-> NoHash]
  /\ reported = [p \in Pool |-> FALSE]
  /\ tmpl = [p \in Pool |-> None]
  /\ pod = [p \in Pool |-> NoPod]
  /\ level = None
  /\ pc = "idle" /\ pass = NoPass

-----------------------------------------------------------------------------
(* The pass *)

Eff(s) == effective_listeners(s.listeners)
Ib(s) == effective_inter_broker_listener_name(s.listeners, s.ib)
Op(s) == operator_listener(IF s.listeners = <<>> THEN <<synthesized_default_listener>>
                           ELSE s.listeners)
HasExternal(s) == \E l \in Elems(s.listeners) : External(l)

Valid(s) ==
  /\ validate_listeners(IF s.listeners = <<>> THEN <<synthesized_default_listener>>
                        ELSE s.listeners, s.ib)
  /\ validate_operator_principal_isolation(s.listeners, s.authorization # None \/ s.tokens)

\* The Secrets that the OAuth and the Kerberos settings refer to exist, and brokers that
\* use Kerberos among themselves have credentials.  The trust bundle is written on the way.
reconcile_oauth_jwks_trust(s) == oauth_jwks_trust_mount(s.listeners) # {} => ready
reconcile_oauth_introspection_secret(s) ==
  oauth_introspection_secret_mount(s.listeners) # {} => ready
gssapi_secret_check(s) == gssapi_keytab_mount(s.listeners) # {} \/ s.krb5 => ready

validate_listener_dependencies(s) ==
  /\ reconcile_oauth_jwks_trust(s) /\ reconcile_oauth_introspection_secret(s)
  /\ gssapi_secret_check(s)
  /\ validate_inter_broker_gssapi(s.listeners, Ib(s), s.kerberos)

EndPass == pc' = "idle" /\ pass' = NoPass

Put(f, k, v) == [x \in DOMAIN f \cup {k} |-> IF x = k THEN v ELSE f[x]]

\* Conditions replace those of the same type.
with_conditions(checks, new) ==
  [t \in DOMAIN checks \cup {new[i].type : i \in DOMAIN new} |->
     IF \E i \in DOMAIN new : new[i].type = t
     THEN (CHOOSE c \in Elems(new) : c.type = t).status ELSE checks[t]]

RuntimeValid(s) == \A c \in Elems(validate_kafka_runtime(s)) : c.status

\* The headless Service, then the checks that end the pass, then the lists.
Begin ==
  /\ pc = "idle"
  /\ svc' = Put(svc, HeadlessKey, [type |-> "headless", port |-> Op(kafka).port,
                                   nodePort |-> None, ingress |-> None])
  /\ status' = [status EXCEPT !.checks = with_conditions(@, validate_kafka_runtime(kafka))]
  /\ IF RuntimeValid(kafka)
     THEN /\ pc' = "features"
          /\ pass' = [s |-> kafka, st |-> [metadata |-> status.metadata, policy |-> status.policy], label |-> label, reported |-> reported,
                      rolled |-> pools_rolled_to_version(kafka.version),
                      resolved |-> None, failed |-> FALSE, filter |-> None, hash |-> NoHash,
                      outcome |-> "invalid", addresses |-> <<>>, next |-> 1]
     ELSE UNCHANGED <<pc, pass>>
  /\ UNCHANGED <<userVars, routes, keystore, cm, policy, monitors, label, poolVars, level>>

Target == evaluate(pass.s.version, pass.s.pin, pass.st.metadata)

\* UpdateFeatures is due: the target differs and every pool runs the version.
CallsUpdate ==
  /\ Target # None /\ pass.st.metadata # None
  /\ Target # pass.st.metadata
  /\ pass.rolled

Decided(resolved, failed) ==
  LET filter == resolve_logging(pass.s)
      pin == IF resolved = None THEN None ELSE pass.s.pin
  IN  /\ pass' = [pass EXCEPT !.resolved = resolved, !.failed = failed, !.filter = filter,
                              !.rolled = FALSE,
                              !.hash = combined_config_hash(pass.s, pin, filter)]
      /\ pc' = CASE ~Valid(pass.s) -> "adopt"
                 [] Valid(pass.s) /\ ~validate_listener_dependencies(pass.s) -> "refuse"
                 [] OTHER -> "keystore"

BrokerReachable ==
  \E p \in Pool : /\ pod[p].phase = "up"
                  /\ \E l \in pod[p].toml[1].sections :
                       l.clientCa = Some("Cluster") /\ l.bind = Op(pass.s).port

\* reconcile_metadata_version and the logging filter.
Features ==
  /\ pc = "features"
  /\ \/ /\ ~CallsUpdate
        /\ Decided(CASE Target = None -> None
                     [] Target # None /\ pass.st.metadata = None ->
                          IF pass.rolled THEN Target ELSE None
                     [] OTHER -> pass.st.metadata, FALSE)
        /\ UNCHANGED <<events, level>>
     \/ /\ CallsUpdate /\ BrokerReachable
        /\ level' = Target /\ Decided(Target, FALSE) /\ UNCHANGED events
     \/ /\ CallsUpdate /\ ~BrokerReachable
        /\ Decided(None, TRUE) /\ UNCHANGED <<events, level>>
     \/ /\ CallsUpdate /\ Happens("reject")
        /\ Decided(None, TRUE) /\ UNCHANGED level
  /\ UNCHANGED <<scenario, edit, ready, objectVars, status, label, poolVars>>

\* A dependency that is missing ends the pass.
Refuse ==
  /\ pc = "refuse" /\ EndPass
  /\ status' = [status EXCEPT !.listeners = "dependency"]
  /\ UNCHANGED <<userVars, objectVars, label, poolVars, level>>

\* The names a node's certificate is requested with.  A broker whose load balancer
\* is pending gets none of the extra names.
RequestedSans(s, p) ==
  LET extra == compute_extra_sans(p, Eff(s), observe_listener_addresses(Eff(s), Brokers, World))
  IN  {PodHost(p), HeadlessHost}
      \cup (IF p \in Brokers /\ extra # None THEN extra[1] ELSE {})

\* ensure_broker_keystore: a certificate with other names is issued anew.
Keystore ==
  /\ pc = "keystore"
  /\ keystore' = [p \in Pool |->
        IF p \in DOMAIN keystore /\ keystore[p].sans = RequestedSans(pass.s, p) THEN keystore[p]
        ELSE [sans |-> RequestedSans(pass.s, p),
              serial |-> IF p \in DOMAIN keystore THEN keystore[p].serial + 1 ELSE 1]]
  /\ pass' = [pass EXCEPT !.hash = rollout_config_hash(@, keystore')]
  /\ pc' = IF HasExternal(pass.s) THEN "services" ELSE "configmap"
  /\ UNCHANGED <<userVars, svc, routes, cm, policy, monitors, status, label, poolVars, level>>

\* What the API server stores for a Service: it keeps or allocates a node port.
AutoNodePort(k) == Some(30000 + k.id)
Stored(k, want) ==
  LET old == k \in DOMAIN svc /\ svc[k].type = want.type
  IN  [type |-> want.type, port |-> want.port,
       nodePort |-> IF want.type \notin {"nodeport", "loadbalancer"} THEN None
                    ELSE OrElse(want.nodePort, IF old THEN svc[k].nodePort ELSE AutoNodePort(k)),
       ingress |-> IF old THEN svc[k].ingress ELSE None]

\* Objects are applied one by one; none is ever deleted.
ApplyServices ==
  /\ pc = "services"
  /\ LET keys == ExternalKeys(Eff(pass.s), Brokers)
         hosts == render_routes(Eff(pass.s), Brokers)
         apply(done) ==
           /\ svc' = [k \in DOMAIN svc \cup done |->
                        IF k \in done
                        THEN Stored(k, render_service(ByName(pass.s.listeners, k.listener), k.id))
                        ELSE svc[k]]
           /\ routes' = [k \in DOMAIN routes \cup (done \cap DOMAIN hosts) |->
                           IF k \in done \cap DOMAIN hosts THEN hosts[k] ELSE routes[k]]
     IN  \/ apply(keys) /\ pc' = "configmap" /\ UNCHANGED <<events, pass>>
         \/ \E some \in SUBSET keys :
               some # keys /\ apply(some) /\ Happens("abort") /\ EndPass
  /\ UNCHANGED <<scenario, edit, ready, keystore, cm, policy, monitors, status, label, poolVars, level>>

Addresses(s) ==
  resolve_addresses_per_broker(Eff(s), Ib(s), Op(s).name, Pool, Brokers, World)

Rendered(s) ==
  render_configmap(s, Eff(s), Ib(s), Op(s).name, Pool, Brokers, Controllers, Addresses(s)[1])

\* Mutant: only addresses of brokers that have no file yet are written.
WriteConfigMap_Once ==
  /\ pc = "configmap"
  /\ pc' = "adopt"
  /\ IF Addresses(pass.s) = None \/ cm # None
     THEN pass' = [pass EXCEPT !.outcome = "pending"] /\ UNCHANGED cm
     ELSE /\ cm' = Some([toml |-> Rendered(pass.s), filter |-> pass.filter])
          /\ pass' = [pass EXCEPT !.outcome = "ready",
                        !.addresses = build_listener_status(Eff(pass.s), Addresses(pass.s)[1],
                                                            Brokers, World)]
  /\ UNCHANGED <<userVars, svc, routes, keystore, policy, monitors, status, label, poolVars, level>>

\* While an external address is pending the ConfigMap stays as it is.
WriteConfigMap ==
  /\ pc = "configmap"
  /\ pc' = "adopt"
  /\ IF Addresses(pass.s) = None
     THEN pass' = [pass EXCEPT !.outcome = "pending"] /\ UNCHANGED cm
     ELSE /\ cm' = Some([toml |-> Rendered(pass.s), filter |-> pass.filter])
          /\ pass' = [pass EXCEPT !.outcome = "ready",
                        !.addresses = build_listener_status(Eff(pass.s), Addresses(pass.s)[1],
                                                            Brokers, World)]
  /\ UNCHANGED <<userVars, svc, routes, keystore, policy, monitors, status, label, poolVars, level>>

\* adopt_pools patches one pool after the other to the plan it made from its list.
AdoptPool ==
  /\ pc = "adopt"
  /\ label' = [label EXCEPT ![pass.next] =
                 plan_rollout(pass.label, pass.reported, pass.hash)[pass.next]]
  /\ pass' = [pass EXCEPT !.next = @ + 1]
  /\ pc' = IF pass.next = NPools THEN "objects" ELSE "adopt"
  /\ UNCHANGED <<userVars, objectVars, status, poolVars, level>>

\* reconcile_metrics: the kind that is not asked for is deleted, but only while
\* metrics are configured.
reconcile_metrics(metrics) ==
  CASE metrics = "pod" -> {"PodMonitor"}
    [] metrics = "service" -> {"ServiceMonitor", "Service"}
    [] OTHER -> monitors

InterBrokerPort(s) == ByName(Eff(s), Ib(s)).port

\* The policy is deleted when the status of the last pass says that it was rendered.
reconcile_network_policy(s, reason) ==
  IF s.policy
  THEN Some(render_network_policy(Eff(s), Op(s).name, InterBrokerPort(s), s.metrics # "off"))
  ELSE IF reason = "Available" THEN None ELSE policy

Objects ==
  /\ pc = "objects"
  /\ monitors' = reconcile_metrics(pass.s.metrics)
  /\ policy' = reconcile_network_policy(pass.s, pass.st.policy)
  /\ pc' = "report"
  /\ UNCHANGED <<userVars, svc, routes, keystore, cm, status, label, poolVars, level, pass>>

\* Mutant: the status keeps the version it has.
Report_Kept ==
  /\ pc = "report"
  /\ status' = [version |-> Some(Target # None /\ ~pass.failed),
                listeners |-> pass.outcome,
                addresses |-> pass.addresses,
                metadata |-> pass.st.metadata,
                policy |-> IF pass.s.policy THEN "Available" ELSE "Disabled",
                logging |-> IF pass.filter = None THEN "none" ELSE "available",
                checks |-> <<>>]
  /\ EndPass
  /\ UNCHANGED <<userVars, objectVars, label, poolVars, level>>

\* A version that is not resolved leaves the finalized one in the status.  The list of
\* conditions is replaced; the runtime checks are not in it.
Report ==
  /\ pc = "report"
  /\ status' = [version |-> Some(Target # None /\ ~pass.failed),
                listeners |-> pass.outcome,
                addresses |-> pass.addresses,
                metadata |-> OrElse(pass.resolved, pass.st.metadata),
                policy |-> IF pass.s.policy THEN "Available" ELSE "Disabled",
                logging |-> IF pass.filter = None THEN "none" ELSE "available",
                checks |-> <<>>]
  /\ EndPass
  /\ UNCHANGED <<userVars, objectVars, label, poolVars, level>>

\* A call fails or the operator stops.
Abort ==
  /\ pc # "idle" /\ Happens("abort") /\ EndPass
  /\ UNCHANGED <<scenario, edit, ready, objectVars, status, label, poolVars, level>>

-----------------------------------------------------------------------------
(* The pool controller and the pods *)

\* What of the parent enters the container, valid or not.
render_broker_container(s) ==
  [tokens |-> s.tokens, metrics |-> s.metrics # "off", logging |-> s.logging # "off",
   tracing |-> TracingEnv(s.tracing), env |-> TierEnv(s.tiered),
   files |-> oauth_jwks_trust_mount(s.listeners) \cup oauth_introspection_secret_mount(s.listeners)
             \cup gssapi_keytab_mount(s.listeners) \cup TierVolumes(s.tiered)
             \cup (IF s.krb5 THEN {"krb5-conf"} ELSE {})]

render_statefulset(s, st, hash) ==
  [hash |-> hash, version |-> s.version, seed |-> resolved_metadata_version(s, st),
   container |-> render_broker_container(s), grace |-> termination_grace_period(s.tuning)]

parent_version_gate == status.metadata # None \/ status.version = Some(TRUE)

SyncPool(p) ==
  /\ parent_version_gate
  /\ p \notin Controllers => \A c \in Controllers : reported[c]
  /\ tmpl' = [tmpl EXCEPT ![p] = Some(render_statefulset(kafka, status, label[p]))]
  /\ reported' = [reported EXCEPT ![p] = pod[p].phase = "up"]
  /\ UNCHANGED <<userVars, objectVars, status, label, pod, level, pc, pass>>

StopPod(p) ==
  /\ pod' = [pod EXCEPT ![p] = NoPod]
  /\ UNCHANGED <<scenario, edit, ready, objectVars, status, label, reported, tmpl, level, pc, pass>>

RollPod(p) == pod[p].phase # "none" /\ pod[p].tmpl # tmpl[p] /\ StopPod(p) /\ UNCHANGED events

FailPod(p) == pod[p].phase = "up" /\ Happens("pod") /\ StopPod(p)

SchedulePod(p) ==
  /\ pod[p].phase = "none" /\ tmpl[p] # None
  /\ pod' = [pod EXCEPT ![p] = [NoPod EXCEPT !.phase = "scheduled", !.tmpl = tmpl[p]]]
  /\ UNCHANGED <<userVars, objectVars, status, label, reported, tmpl, level, pc, pass>>

\* A pod waits for the files it mounts.  The first one formats the metadata log.
StartPod(p) ==
  /\ pod[p].phase = "scheduled" /\ cm # None /\ p \in DOMAIN keystore
  /\ pod' = [pod EXCEPT ![p].phase = "up", ![p].toml = Some(cm[1].toml[p]),
                        ![p].leaf = Some(keystore[p])]
  /\ level' = OrElse(level, Some(pod[p].tmpl[1].seed))
  /\ UNCHANGED <<userVars, objectVars, status, label, reported, tmpl, pc, pass>>

-----------------------------------------------------------------------------
(* The user and the cloud *)

Edit ==
  /\ edit < Len(scenario.edits)
  /\ scenario.early \/ status.metadata # None
  /\ edit' = edit + 1
  /\ UNCHANGED <<scenario, events, ready, objectVars, status, label, poolVars, level, pc, pass>>

Provide ==
  /\ ~ready /\ ready' = TRUE
  /\ UNCHANGED <<scenario, edit, events, objectVars, status, label, poolVars, level, pc, pass>>

AssignLoadBalancer(k) ==
  /\ svc[k].type = "loadbalancer" /\ svc[k].ingress = None
  /\ svc' = [svc EXCEPT ![k].ingress = Some(Host("lb", k.listener, k.id))]
  /\ UNCHANGED <<userVars, routes, keystore, cm, policy, monitors, status, label, poolVars, level, pc, pass>>

PassStep ==
  \/ Begin \/ Features \/ Refuse \/ Keystore \/ ApplyServices \/ WriteConfigMap
  \/ AdoptPool \/ Objects \/ Report

Next ==
  \/ PassStep \/ Abort
  \/ \E p \in Pool : SyncPool(p) \/ RollPod(p) \/ FailPod(p) \/ SchedulePod(p) \/ StartPod(p)
  \/ Edit \/ Provide
  \/ \E k \in DOMAIN svc : AssignLoadBalancer(k)

Spec == Init /\ [][Next]_vars

\* A pass ends and is followed by another, which amounts to weak fairness of its steps;
\* pools are reconciled and Kubernetes runs their pods; the cloud assigns load balancers
\* and what is missing is provided.
Fairness ==
  /\ []<>(pc = "idle") /\ WF_vars(Begin)
  /\ WF_vars(\E p \in Pool : SyncPool(p) \/ RollPod(p) \/ SchedulePod(p) \/ StartPod(p))
  /\ WF_vars(Provide \/ \E k \in DOMAIN svc : AssignLoadBalancer(k))

FairSpec == Spec /\ Fairness

-----------------------------------------------------------------------------
(* Properties *)

\* Every configuration file that was ever published lets its node start and lets the
\* operator in: names and ports are distinct, the inter-broker listener is bound, one
\* listener, the operator's, trusts the cluster CA and keeps off the controllers' port,
\* and the tuning agrees with the defaults that the broker fills in.  (The port of a
\* listener that the user writes is not compared with the controllers'.)
ConfigBoots ==
  cm # None =>
    \A p \in Pool : LET t == cm[1].toml[p] IN
      /\ \A a, b \in t.sections : a # b => a.name # b.name /\ a.bind # b.bind
      /\ \A a \in t.sections : a.clientCa = Some("Cluster") => a.bind # CONTROLLER_PORT
      /\ \E a \in t.sections : a.name = t.header.interBroker
      /\ Cardinality({a \in t.sections : a.clientCa = Some("Cluster")}) = 1
      /\ BrokerAccepts(t.runtime)

\* The operator is never locked out of a running broker: the NetworkPolicy admits it to
\* the port of the listener that it uses, and an authorizer has it as a super-user.
OperatorReaches ==
  \A p \in Pool : pod[p].phase = "up" =>
    /\ \E a \in pod[p].toml[1].sections :
         /\ a.clientCa = Some("Cluster")
         /\ policy # None => Admits(policy[1], "operator", a.bind)
    /\ LET users == pod[p].toml[1].authorization
       IN  users # None => OPERATOR_IDENTITY \in users[1]

\* UpdateFeatures is only called when no pod runs another version than the one the pass
\* is about, unless the user edited the spec while the pass ran.
FinalizeAfterRoll ==
  [][level # None /\ level' # level /\ pass.s = kafka =>
       \A p \in Pool : pod[p].phase = "up" => pod[p].tmpl[1].version = pass.s.version]_vars

Specs == UNION {{c.edits[i] : i \in DOMAIN c.edits} : c \in Scenarios}
Bootable == {s \in Specs : RuntimeValid(s)}
Sound == {s \in Bootable : Valid(s)}

\* The pass can succeed with the spec as it is.
Accepted ==
  /\ kafka \in Sound /\ validate_listener_dependencies(kafka)
  /\ evaluate(kafka.version, kafka.pin, status.metadata) # None

\* Every pod runs the configuration of the spec at the addresses that the Services have,
\* and has the files that its configuration names.
ConfigReached ==
  /\ cm # None
  /\ \A p \in Pool : /\ pod[p].phase = "up"
                     /\ pod[p].toml = Some(cm[1].toml[p])
                     /\ pod[p].tmpl[1].version = kafka.version
                     /\ FilesNamed(pod[p].toml[1]) \subseteq pod[p].tmpl[1].container.files
  /\ Addresses(kafka) # None
  /\ cm = Some([toml |-> Rendered(kafka), filter |-> resolve_logging(kafka)])

\* The certificate that a broker serves carries every name at which its TLS listeners
\* are advertised.
LeafCovers(p) ==
  \A a \in pod[p].toml[1].sections :
    a.protocol.tls => a.advertised.host \in pod[p].leaf[1].sans

\* Policy, monitors, Ingresses and Routes are those of the spec.  A policy that is no
\* longer wanted goes only if no pass was cut short before its status was written.
ObjectsFollow ==
  /\ kafka.policy => policy = Some(render_network_policy(
                       Eff(kafka), Op(kafka).name, InterBrokerPort(kafka),
                       kafka.metrics # "off"))
  /\ ~kafka.policy /\ events["abort"] = 0 => policy = None
  /\ kafka.metrics = "pod" => monitors = {"PodMonitor"}
  /\ kafka.metrics = "service" => monitors = {"ServiceMonitor", "Service"}
  /\ \A k \in DOMAIN render_routes(Eff(kafka), Brokers) :
       k \in DOMAIN routes /\ routes[k] = render_routes(Eff(kafka), Brokers)[k]
  /\ HeadlessKey \in DOMAIN svc /\ svc[HeadlessKey].port = Op(kafka).port

\* In the end every pass leaves behind pods, certificates and objects around them that are
\* those of the spec, whatever failed on the way and whenever the addresses were assigned
\* (the pass of reconcile_inner, the hash of adopt_pools that rolls the pods).
SpecReachesCluster ==
  <>[](pc = "idle" /\ Accepted =>
         ConfigReached /\ (\A p \in Brokers : LeafCovers(p)) /\ ObjectsFollow)

Served == UNION {pod[p].toml[1].sections : p \in {b \in Brokers : pod[b].phase = "up"}}

\* In the end the status that a pass leaves behind tells the metadata version that the
\* cluster has finalized and, for each listener it lists, the addresses that the brokers
\* advertise; tuning, tiered storage or tracing is reported as invalid if and only if it
\* is.
StatusTruthful ==
  <>[](pc = "idle" =>
         /\ kafka \notin Bootable <=> \E c \in DOMAIN status.checks : ~status.checks[c]
         /\ Accepted =>
            /\ status.listeners = "ready"
            /\ status.metadata = level
            /\ \A n \in DOMAIN status.addresses :
                 status.addresses[n].addresses =
                   {a.advertised : a \in {b \in Served : b.name = n}})
=============================================================================
