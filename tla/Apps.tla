---------------------------------- MODULE Apps ----------------------------------
(***************************************************************************)
(* The applications the operator runs beside a Kafka cluster: the schema   *)
(* registry (schema_registry.rs), the gRPC gateway (grpc_gateway.rs) and   *)
(* the CDC connector (connector.rs).                                       *)
(*                                                                         *)
(* A behaviour follows one resource of one of these kinds.  A pass of its  *)
(* reconciler is one step per call of the API server; passes of one        *)
(* resource never overlap, but the spec, the parent Kafka and the Secrets  *)
(* change between the calls.  The controllers of Kubernetes that run the   *)
(* pods, cert-manager, and the reconcilers of KafkaUser and of the CAs are *)
(* the environment.  An optional value is a sequence of length at most 1.  *)
(*                                                                         *)
(* Options that a reconciler checks one by one and hands to the program    *)
(* unchanged are one value, opts; fields says whether each passes its own  *)
(* check.                                                                  *)
(***************************************************************************)
EXTENDS Integers, Sequences, FiniteSets

CONSTANTS
  Slots,       \* pods of a workload: 1 .. n
  Scenarios    \* the kind, the edits, the states of Kafka, and what goes wrong

\* What may happen: a call of the API server fails, a Secret of the user changes, the
\* certificate of the child user is issued again, the cluster CA rotates, the serving
\* certificate enters its renewal window.
Event == {"abort", "secret", "cert", "ca", "age"}

Kinds == {"registry", "gateway", "connector"}
Names == {"user", "serving", "config", "cluster-ca", "clients-ca", "sr-tls", "tls", "extra",
          "db", "hmac"}

ASSUME AppsAssumption ==
  /\ Slots = 1..Cardinality(Slots)
  /\ \A c \in Scenarios : /\ c.kind \in Kinds
                          /\ c.edits # <<>> /\ c.parents # <<>>
                          /\ c.max \in [Event -> Nat]

VARIABLES
  scenario, events,
  edit,      \* the current revision of the resource
  parent,    \* the current state of the Kafka resource
  status,    \* reason of the Ready condition, observedGeneration
  secrets,   \* Secrets by name
  children,  \* the other objects the reconciler has applied
  work,      \* the Deployment or StatefulSet
  legacy,    \* another Deployment of that name: none, owned, user's or gone
  pods,      \* of each slot: the template it runs and the database URL in its environment
  pc, pass

world == <<scenario, edit, parent, legacy, pods>>
vars == <<events, status, secrets, children, work, pc, pass, world>>

None == <<>>
Some(x) == <<x>>
OrElse(o, default) == IF o = None THEN default ELSE o[1]
Elems(s) == {s[i] : i \in DOMAIN s}

kind == scenario.kind
Rev(e) == scenario.edits[e]
Kafka == scenario.parents[parent]
Happens(e) == events[e] < scenario.max[e] /\ events' = [events EXCEPT ![e] = @ + 1]

Secret(keys, val) == [keys |-> keys, val |-> val, due |-> FALSE]

-----------------------------------------------------------------------------
\* Validation

\* The registry, with the defaults of its program in seconds.
validate_config(s) ==
  LET session == OrElse(s.session, 10)
  IN  /\ s.fields
      /\ OrElse(s.heartbeat, 3) < session
      /\ session <= OrElse(s.rebalance, 30)

validate_webhook_auth(w) ==
  IF w.standard THEN w.ref # None /\ ~w.header ELSE (w.ref # None) = w.header

\* Backoffs in units of 500 ms.
validate_outbound_config(s) ==
  \A o \in Elems(s.outbound) : OrElse(o.base, 1) <= OrElse(o.max, 60)

validate_gateway_config(s) ==
  /\ s.fields
  /\ \A w \in Elems(s.webhooks) : validate_webhook_auth(w)
  /\ validate_outbound_config(s)

validate_spec(s) == s.fields /\ s.tables # {}

Valid(s) ==
  CASE kind = "registry"  -> validate_config(s)
    [] kind = "gateway"   -> validate_gateway_config(s)
    [] kind = "connector" -> validate_spec(s)

-----------------------------------------------------------------------------
\* Rendering.  A template names the files its arguments refer to, as pairs of a directory
\* and a key, and the Secrets mounted at the directories.

File(dir, keys) == {<<dir, k>> : k \in keys}

ExtraKey == [client_ca |-> "ca.crt", basic |-> "users", jwks_ca |-> "ca.crt", kafka_tls |-> "ca.crt"]

build_args_and_mounts(s, bootstrap, tls) ==
  LET extras == IF s.tls = None THEN s.extras \ {"client_ca"} ELSE s.extras
  IN  [boot   |-> bootstrap,
       tune   |-> <<s.heartbeat, s.session, s.rebalance>>,
       files  |-> (IF tls = None THEN {} ELSE File("tls", {"tls.crt", "tls.key"}))
                    \cup UNION {File(x, {ExtraKey[x]}) : x \in extras},
       mounts |-> (IF tls = None THEN {} ELSE {<<"tls", tls[1]>>})
                    \cup {<<x, "extra">> : x \in extras}]

selector_labels == <<"schema-registry">>

render_statefulset(s, bootstrap, tls) ==
  [selector |-> selector_labels,
   replicas |-> s.replicas,
   strategy |-> "StatefulSet",
   tmpl     |-> [args |-> build_args_and_mounts(s, bootstrap, tls), opts |-> s.opts,
                 stamp |-> None]]

gateway_args(s, bootstrap) ==
  [boot   |-> bootstrap,
   tune   |-> <<>>,
   files  |-> File("serving", {"tls.crt", "tls.key"}) \cup File("clients-ca", {"ca.crt"})
                \cup File("cluster-ca", {"ca.crt"}) \cup File("user", {"user.crt", "user.key"})
                \cup File("config", {"webhooks.toml", "outbound.toml"}),
   mounts |-> {<<n, n>> : n \in {"serving", "user", "cluster-ca", "clients-ca", "config"}}]

gateway_labels(cluster) == <<"gateway", cluster>>

deployment(s, cluster, bootstrap) ==
  [selector |-> gateway_labels(cluster),
   replicas |-> OrElse(s.replicas, 1),
   strategy |-> "RollingUpdate",
   tmpl     |-> [args |-> gateway_args(s, bootstrap), opts |-> s.opts, stamp |-> None]]

\* The hosts the gateway may call: those of the subscriptions and those of the spec.
derive_allowed_targets(s) == {o.target : o \in Elems(s.outbound)} \cup s.allowed

\* The webhooks and the subscriptions with the HMAC keys their references resolve to.
config_secret(s, value) ==
  LET Keyed(x) == <<x, IF x.ref = None THEN None ELSE Some(value)>>
  IN  Secret({"webhooks.toml", "outbound.toml"},
             [webhooks |-> [i \in DOMAIN s.webhooks |-> Keyed(s.webhooks[i])],
              outbound |-> [i \in DOMAIN s.outbound |-> Keyed(s.outbound[i])],
              allowed  |-> derive_allowed_targets(s)])

connector_replication_factor(replicas) ==
  LET n == OrElse(replicas, 1) IN IF n < 1 THEN 1 ELSE IF n > 3 THEN 3 ELSE n

\* Mutant: the database URL is left out.
secret_hash_NoDatabase(db, user, ca) == <<user, ca>>

secret_hash(db, user, ca) == <<db, user, ca>>

render_deployment(s, cluster, bootstrap, rf, hash) ==
  [selector |-> <<"connector", cluster>>,
   replicas |-> IF s.paused THEN 0 ELSE 1,
   strategy |-> "Recreate",
   tmpl     |-> [args  |-> [boot |-> bootstrap, tune |-> <<rf>>,
                            files |-> File("user", {"user.crt", "user.key"})
                                        \cup File("cluster-ca", {"ca.crt"}),
                            mounts |-> {<<"user", "user">>, <<"cluster-ca", "cluster-ca">>}],
                 opts  |-> s.opts,
                 stamp |-> Some(hash)]]

-----------------------------------------------------------------------------
\* What the reconcilers read of the parent

internal_listener_bootstrap(k) == IF k.exists /\ k.ready THEN k.internal ELSE None

parent_version_gate(k) ==
  IF k.finalized \/ k.verdict = Some(TRUE) THEN "Cleared"
  ELSE IF k.verdict = None THEN "WaitingForVersionValidation" ELSE "KafkaVersionInvalid"

\* The internal listener with TLS and TLS authentication.  The connector also asks that
\* Kafka is Ready.
resolve_broker_endpoint(k) == IF kind = "connector" /\ ~k.ready THEN None ELSE k.mtls

\* Mutant: the Secret is enough.
secret_has_keys_Exists(secret, keys) == TRUE

secret_has_keys(secret, keys) == keys \subseteq secret.keys

-----------------------------------------------------------------------------
\* A pass

NoPass == [rev |-> 0]

Init ==
  /\ scenario \in Scenarios
  /\ events = [e \in Event |-> 0]
  /\ edit = 1 /\ parent = 1
  /\ status = [reason |-> "none", observed |-> 0]
  /\ secrets = [n \in Names |-> IF n \in DOMAIN scenario.secrets
                                  THEN Some(Secret(scenario.secrets[n], 1)) ELSE None]
  /\ children = {}
  /\ work = None
  /\ legacy = scenario.legacy
  /\ pods = [i \in Slots |-> None]
  /\ pc = "idle" /\ pass = NoPass

\* The revision the pass works on.
cr == Rev(pass.rev)

Go(next) == pc' = next /\ UNCHANGED pass
Learn(next, p) == pc' = next /\ pass' = p
EndPass == pc' = "idle" /\ pass' = NoPass

\* The pass ends with a write of the status that gives this reason.
Say(reason) == Learn("status", [pass EXCEPT !.reason = reason])

Start ==
  LET new == [rev |-> edit, seen |-> status.observed, reason |-> "none", kafka |-> Kafka,
              boot |-> None, tls |-> None, ca |-> 0, value |-> 0, db |-> 0, user |-> 0]
      r == Rev(edit)
      Refuse(reason) == Learn("status", [new EXCEPT !.reason = reason])
  IN  /\ pc = "idle"
      /\ \/ ~Valid(r) /\ Refuse("InvalidSpec")
         \/ /\ Valid(r)
            /\ \/ kind = "connector" /\ r.paused /\ Learn("paused", new)
               \/ /\ kind = "registry" /\ r.boot # None
                  /\ Learn("tls", [new EXCEPT !.boot = r.boot])
               \/ /\ ~(kind = "connector" /\ r.paused)
                  /\ ~(kind = "registry" /\ r.boot # None)
                  /\ IF r.label = None THEN Refuse("MissingClusterLabel")
                     ELSE Learn(IF kind = "connector" THEN "db" ELSE "parent", new)
      /\ UNCHANGED <<events, status, secrets, children, work, world>>

read_database_secret ==
  /\ pc = "db"
  /\ LET db == secrets["db"]
     IN  IF db = None THEN Say("DatabaseSecretNotFound")
         ELSE IF ~secret_has_keys(db[1], {"url"}) THEN Say("DatabaseSecretInvalid")
         ELSE Learn("parent", [pass EXCEPT !.db = db[1].val])
  /\ UNCHANGED <<events, status, secrets, children, work, world>>

read_parent ==
  LET read == [pass EXCEPT !.kafka = Kafka]
      boot == internal_listener_bootstrap(Kafka)
      gate == parent_version_gate(Kafka)
  IN  /\ pc = "parent"
      /\ \/ /\ kind = "registry"
            /\ IF boot = None THEN Say("KafkaNotReady")
               ELSE Learn("tls", [read EXCEPT !.boot = boot])
         \/ kind # "registry" /\ ~Kafka.exists /\ Say("ParentNotFound")
         \/ /\ kind = "gateway" /\ Kafka.exists
            /\ IF gate # "Cleared" THEN Say(gate) ELSE Learn("user", read)
         \/ /\ kind = "connector" /\ Kafka.exists
            /\ IF resolve_broker_endpoint(Kafka) = None THEN Say("KafkaNotReady")
               ELSE Learn("user", read)
      /\ UNCHANGED <<events, status, secrets, children, work, world>>

\* The child KafkaUser, whose reconciler issues the client certificate.
child_kafka_user ==
  /\ pc = "user"
  /\ children' = children \cup {"user"}
  /\ Go("userSecret")
  /\ UNCHANGED <<events, status, secrets, work, world>>

read_user_secret ==
  /\ pc = "userSecret"
  /\ LET user == secrets["user"]
     IN  \/ user = None /\ Say("WaitingForBrokerCert")
         \/ user # None /\ kind = "gateway" /\ Go("serving")
         \/ /\ user # None /\ kind = "connector"
            /\ IF secret_has_keys(user[1], {"user.crt", "user.key"})
                 THEN Learn("caSecret", [pass EXCEPT !.user = user[1].val])
                 ELSE Say("WaitingForBrokerCert")
  /\ UNCHANGED <<events, status, secrets, children, work, world>>

read_ca_secret ==
  /\ pc = "caSecret"
  /\ LET ca == secrets["cluster-ca"]
     IN  IF ca # None /\ secret_has_keys(ca[1], {"ca.crt"})
           THEN Learn("deploy", [pass EXCEPT !.ca = ca[1].val])
           ELSE Say("WaitingForBrokerCert")
  /\ UNCHANGED <<events, status, secrets, children, work, world>>

\* A certificate that is not close to its end is kept, whoever signed it.
ensure_serving_cert ==
  /\ \/ /\ pc = "serving"
        /\ IF secrets["serving"] # None /\ ~secrets["serving"][1].due THEN Go("refs") ELSE Go("ca")
        /\ UNCHANGED secrets
     \/ /\ pc = "ca"
        /\ IF secrets["cluster-ca"] = None THEN EndPass
           ELSE Learn("issue", [pass EXCEPT !.ca = secrets["cluster-ca"][1].val])
        /\ UNCHANGED secrets
     \/ /\ pc = "issue"
        /\ secrets' = [secrets EXCEPT !["serving"] = Some(Secret({"tls.crt", "tls.key"}, pass.ca))]
        /\ Go("refs")
  /\ UNCHANGED <<events, status, children, work, world>>

Refs(r) == {x \in Elems(r.webhooks) \cup Elems(r.outbound) : x.ref # None}

\* A reference that does not resolve ends the pass without a status.
resolve_all_secret_refs ==
  /\ pc = "refs"
  /\ IF Refs(cr) = {} THEN Go("config")
     ELSE IF secrets["hmac"] = None THEN EndPass
     ELSE Learn("config", [pass EXCEPT !.value = secrets["hmac"][1].val])
  /\ UNCHANGED <<events, status, secrets, children, work, world>>

apply_config_secret ==
  /\ pc = "config"
  /\ secrets' = [secrets EXCEPT !["config"] = Some(config_secret(cr, pass.value))]
  /\ IF resolve_broker_endpoint(pass.kafka) = None THEN Say("NoTlsListener") ELSE Go("deploy")
  /\ UNCHANGED <<events, status, children, work, world>>

\* The registry's certificate: a Secret of the user, or one cert-manager provides.
resolve_tls ==
  LET t == cr.tls[1]
  IN  /\ pc = "tls"
      /\ IF cr.tls = None THEN Go("headless") /\ UNCHANGED children
         ELSE \/ t.secret = t.issuer /\ Say("InvalidSpec") /\ UNCHANGED children
              \/ /\ t.secret /\ ~t.issuer
                 /\ Learn("headless", [pass EXCEPT !.tls = Some("tls")])
                 /\ UNCHANGED children
              \/ /\ ~t.secret /\ t.issuer
                 /\ children' = children \cup {"certificate"}
                 /\ Go("tlsSecret")
      /\ UNCHANGED <<events, status, secrets, work, world>>

read_tls_secret ==
  /\ pc = "tlsSecret"
  /\ IF secrets["sr-tls"] = None THEN Say("WaitingForCert")
     ELSE Learn("headless", [pass EXCEPT !.tls = Some("sr-tls")])
  /\ UNCHANGED <<events, status, secrets, children, work, world>>

apply_services ==
  /\ \/ pc = "headless" /\ children' = children \cup {"headless"} /\ Go("services")
     \/ /\ pc = "services" /\ children' = children \cup {"service"}
        /\ Go(IF kind = "registry" THEN "deploy" ELSE "live")
  /\ UNCHANGED <<events, status, secrets, work, world>>

Rendered(r, k, boot, tls, hash) ==
  CASE kind = "registry"  -> render_statefulset(r, boot, tls)
    [] kind = "gateway"   -> deployment(r, r.label[1], resolve_broker_endpoint(k))
    [] kind = "connector" -> render_deployment(r, r.label[1], resolve_broker_endpoint(k),
                                               connector_replication_factor(k.replicas), hash)

\* Whether a Deployment that is not this resource's has the name of the workload.
Occupied == kind = "connector" /\ legacy = "user"

\* Server-side apply; a selector cannot change.
apply_workload ==
  LET w == Rendered(cr, pass.kafka, pass.boot, pass.tls, secret_hash(pass.db, pass.user, pass.ca))
  IN  /\ pc = "deploy"
      /\ IF Occupied \/ (work # None /\ work[1].selector # w.selector)
           THEN EndPass /\ UNCHANGED work
           ELSE /\ work' = Some([selector |-> w.selector, replicas |-> w.replicas,
                                 strategy |-> w.strategy, tmpl |-> w.tmpl,
                                 gen |-> cr.gen, ready |-> OrElse(work, [ready |-> 0]).ready])
                /\ Go(CASE kind = "registry" -> "legacy" [] kind = "gateway" -> "services"
                        [] kind = "connector" -> "live")
      /\ UNCHANGED <<events, status, secrets, children, world>>

\* The Deployment of an older operator is read, and deleted by its name if it is owned.
delete_owned_deployment ==
  /\ \/ pc = "legacy" /\ Go(IF legacy = "owned" THEN "delete" ELSE "live") /\ UNCHANGED legacy
     \/ pc = "delete" /\ Go("live") /\ legacy' = "gone"
  /\ UNCHANGED <<events, status, secrets, children, work, scenario, edit, parent, pods>>

Desired == CASE kind = "registry" -> cr.replicas [] kind = "gateway" -> OrElse(cr.replicas, 1)
             [] kind = "connector" -> 1

\* The gateway wants exactly as many ready pods, the others at least.
read_live ==
  /\ pc = "live"
  /\ LET ready == IF work = None THEN 0 ELSE work[1].ready
     IN  Say(IF (IF kind = "gateway" THEN ready = Desired ELSE ready >= Desired)
               THEN "Available" ELSE "Progressing")
  /\ UNCHANGED <<events, status, secrets, children, work, world>>

\* A paused connector: the live Deployment is read and, if it is owned, scaled to zero.
pause ==
  /\ \/ pc = "paused" /\ UNCHANGED work
        /\ IF ~Occupied /\ work # None /\ work[1].replicas # 0 THEN Go("scale") ELSE Say("Paused")
     \/ pc = "scale" /\ work' = Some([work[1] EXCEPT !.replicas = 0]) /\ Say("Paused")
  /\ UNCHANGED <<events, status, secrets, children, world>>

\* Mutant: the generation is read again when the status is written.
Report_Live ==
  /\ pc = "status"
  /\ status' = [reason |-> pass.reason, observed |-> Rev(edit).gen]
  /\ EndPass
  /\ UNCHANGED <<events, secrets, children, work, world>>

\* The registry echoes the generation when it is available, the gateway always, the
\* connector when it has applied or paused its worker.
Report ==
  /\ pc = "status"
  /\ status' = [reason   |-> pass.reason,
                observed |-> CASE kind = "registry"  -> IF pass.reason = "Available" THEN cr.gen
                                                        ELSE pass.seen
                               [] kind = "gateway"   -> cr.gen
                               [] kind = "connector" ->
                                    IF pass.reason \in {"Available", "Progressing", "Paused"}
                                      THEN cr.gen ELSE status.observed]
  /\ EndPass
  /\ UNCHANGED <<events, secrets, children, work, world>>

\* A call of the API server fails, or the operator restarts.
Abort ==
  /\ pc # "idle" /\ Happens("abort") /\ EndPass
  /\ UNCHANGED <<status, secrets, children, work, world>>

-----------------------------------------------------------------------------
\* The environment

Edit ==
  /\ edit < Len(scenario.edits) /\ edit' = edit + 1
  /\ UNCHANGED <<events, status, secrets, children, work, pc, pass, scenario, parent, legacy, pods>>

KafkaMoves ==
  /\ parent < Len(scenario.parents) /\ parent' = parent + 1
  /\ UNCHANGED <<events, status, secrets, children, work, pc, pass, scenario, edit, legacy, pods>>

Put(n, secret) ==
  /\ secrets' = [secrets EXCEPT ![n] = Some(secret)]
  /\ UNCHANGED <<status, children, work, pc, pass, world>>

UserKeys == {"user.crt", "user.key", "ca.crt"}

\* The reconciler of KafkaUser and cert-manager answer.
Issue ==
  /\ \/ /\ "user" \in children
        /\ ~(UserKeys \subseteq OrElse(secrets["user"], Secret({}, 0)).keys)
        /\ Put("user", Secret(UserKeys, 1))
     \/ /\ "certificate" \in children /\ secrets["sr-tls"] = None
        /\ Put("sr-tls", Secret({"tls.crt", "tls.key", "ca.crt"}, 1))
  /\ UNCHANGED events

Newer(n) == Secret(secrets[n][1].keys, secrets[n][1].val + 1)

ReissueUser ==
  secrets["user"] # None /\ Happens("cert") /\ Put("user", [Newer("user") EXCEPT !.keys = UserKeys])

\* The rotation of the cluster CA ends: its certificate alone is trusted and signs.
RotateCa == secrets["cluster-ca"] # None /\ Happens("ca") /\ Put("cluster-ca", Newer("cluster-ca"))

AgeServing ==
  /\ secrets["serving"] # None /\ ~secrets["serving"][1].due
  /\ Happens("age")
  /\ Put("serving", [secrets["serving"][1] EXCEPT !.due = TRUE])

\* The user writes a Secret the spec refers to.
WriteSecret(n, keys) ==
  /\ Happens("secret")
  /\ Put(n, Secret(keys, IF secrets[n] = None THEN 1 ELSE secrets[n][1].val + 1))

\* The controllers of Deployments and StatefulSets, and the kubelet.
Up == {i \in Slots : pods[i] # None}
New == {i \in Up : pods[i][1].tmpl = work[1].tmpl}
R == work[1].replicas

StartPod(i) ==
  /\ work # None /\ pods[i] = None
  /\ CASE work[1].strategy = "Recreate"      -> Up = New /\ Cardinality(Up) < R
       [] work[1].strategy = "RollingUpdate" -> Cardinality(New) < R /\ Cardinality(Up) <= R
       [] work[1].strategy = "StatefulSet"   -> i <= R
  /\ \A m \in work[1].tmpl.args.mounts : secrets[m[2]] # None
  /\ kind = "connector" => secrets["db"] # None
  /\ pods' = [pods EXCEPT ![i] = Some([tmpl |-> work[1].tmpl,
                                       db   |-> IF kind = "connector" THEN secrets["db"][1].val
                                                ELSE 0])]
  /\ UNCHANGED <<events, status, secrets, children, work, pc, pass, scenario, edit, parent, legacy>>

StopPod(i) ==
  /\ work # None /\ i \in Up
  /\ CASE work[1].strategy = "Recreate"      -> i \notin New \/ Cardinality(Up) > R
       [] work[1].strategy = "RollingUpdate" -> Cardinality(Up) > R /\ (i \in New => Up = New)
       [] work[1].strategy = "StatefulSet"   -> i > R \/ (i \notin New /\ 1..R \subseteq Up)
  /\ pods' = [pods EXCEPT ![i] = None]
  /\ UNCHANGED <<events, status, secrets, children, work, pc, pass, scenario, edit, parent, legacy>>

\* The workload's status follows its pods, later.
SyncStatus ==
  /\ work # None /\ work[1].ready # Cardinality(Up)
  /\ work' = Some([work[1] EXCEPT !.ready = Cardinality(Up)])
  /\ UNCHANGED <<events, status, secrets, children, pc, pass, world>>

PassStep ==
  \/ Start \/ read_database_secret \/ read_parent \/ child_kafka_user \/ read_user_secret
  \/ read_ca_secret \/ ensure_serving_cert \/ resolve_all_secret_refs \/ apply_config_secret
  \/ resolve_tls \/ read_tls_secret \/ apply_services \/ apply_workload
  \/ delete_owned_deployment \/ read_live \/ pause \/ Report

Pods == \E i \in Slots : StartPod(i) \/ StopPod(i)

Next ==
  \/ PassStep \/ Pods \/ SyncStatus \/ Issue
  \/ Abort \/ Edit \/ KafkaMoves \/ ReissueUser \/ RotateCa \/ AgeServing
  \/ \E n \in DOMAIN scenario.writes : WriteSecret(n, scenario.writes[n])

Spec == Init /\ [][Next]_vars

\* Every pass ends with a requeue, so another one starts; Kubernetes, cert-manager and the
\* reconciler of KafkaUser do their work.
FairSpec == Spec /\ WF_vars(PassStep) /\ WF_vars(Pods) /\ WF_vars(SyncStatus) /\ WF_vars(Issue)

-----------------------------------------------------------------------------
\* Properties

\* What a program needs to start (external): its timeouts nest, a webhook that checks a
\* signature has a key, a subscription's host is allowed and its backoff can grow.
Starts(t) ==
  /\ kind = "registry" =>
       LET session == OrElse(t.args.tune[2], 10)
       IN  OrElse(t.args.tune[1], 3) < session /\ session <= OrElse(t.args.tune[3], 30)
  /\ kind = "gateway" =>
       LET doc == secrets["config"][1].val
       IN  /\ \A w \in Elems(doc.webhooks) : (w[2] # None) = (w[1].standard \/ w[1].header)
           /\ \A o \in Elems(doc.outbound) : /\ OrElse(o[1].base, 1) <= OrElse(o[1].max, 60)
                                             /\ o[1].target \in doc.allowed

\* A pod that runs finds every file its arguments name in the Secrets mounted, and is given
\* settings its program accepts.  The arguments, the volumes, the Secrets and the validation
\* are rendered by different functions and by different passes.  A connector never has two
\* workers, which would share a replication slot: its worker is recreated.
WorkloadBoots ==
  /\ \A i \in Up :
       LET t == pods[i][1].tmpl
       IN  /\ t.args.files \subseteq UNION {File(m[1], secrets[m[2]][1].keys) : m \in t.args.mounts}
           /\ Starts(t)
  /\ kind = "connector" => Cardinality(Up) <= 1

\* A status that says Available for a generation is about a workload rendered from that
\* generation or a later one, although the spec may change during the pass.
ReadyMeansRendered ==
  status.reason = "Available" => work # None /\ work[1].gen >= status.observed

Runnable ==
  LET r == Rev(edit)
      k == Kafka
  IN  /\ Valid(r)
      /\ CASE kind = "registry" ->
                /\ r.boot # None \/ (r.label # None /\ internal_listener_bootstrap(k) # None)
                /\ r.tls # None => r.tls[1].secret # r.tls[1].issuer
                /\ r.tls # None /\ r.tls[1].secret => secrets["tls"] # None
                /\ r.extras # {} => secrets["extra"] # None
           [] kind = "gateway" ->
                /\ r.label # None /\ k.exists /\ parent_version_gate(k) = "Cleared" /\ k.mtls # None
                /\ secrets["cluster-ca"] # None /\ (Refs(r) # {} => secrets["hmac"] # None)
           [] kind = "connector" ->
                /\ ~r.paused /\ ~Occupied
                /\ r.label # None /\ k.exists /\ resolve_broker_endpoint(k) # None
                /\ secrets["cluster-ca"] # None
                /\ secrets["db"] # None /\ "url" \in secrets["db"][1].keys

Val(n) == IF secrets[n] = None THEN 0 ELSE secrets[n][1].val

\* The workload that the present spec, Kafka and Secrets call for.
Wanted ==
  LET r == Rev(edit)
  IN  Rendered(r, Kafka, IF kind = "registry" /\ r.boot # None THEN r.boot
                         ELSE internal_listener_bootstrap(Kafka),
               IF kind # "registry" \/ r.tls = None THEN None
               ELSE Some(IF r.tls[1].secret THEN "tls" ELSE "sr-tls"),
               secret_hash(Val("db"), Val("user"), Val("cluster-ca")))

Current ==
  /\ status.reason = "Available" /\ status.observed = Rev(edit).gen
  /\ work # None
  /\ work[1].tmpl = Wanted.tmpl
  /\ Cardinality(Up) = Wanted.replicas /\ Up = New
  /\ kind = "connector" => \A i \in Up : pods[i][1].db = Val("db")
  /\ kind = "gateway" => /\ secrets["config"][1] = config_secret(Rev(edit), Val("hmac"))
                         /\ ~secrets["serving"][1].due
  /\ legacy # "owned"

\* Once nothing changes any more, an application that can run does, all of its pods from the
\* present spec, Kafka and Secrets, and its status says so; a paused connector has no worker;
\* one that cannot run does not claim to be available.
AppsSettle ==
  <>[](/\ Runnable => Current
       /\ ~Runnable => status.reason # "Available"
       /\ kind = "connector" /\ Valid(Rev(edit)) /\ Rev(edit).paused =>
            Up = {} /\ status.reason = "Paused")

=============================================================================
