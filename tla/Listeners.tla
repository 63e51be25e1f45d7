------------------------------ MODULE Listeners ------------------------------
(***************************************************************************)
(* The listeners of a Kafka resource as listeners.rs computes with them:   *)
(* which lists validate, the endpoint that the operator adds for itself,   *)
(* the Services, Ingresses and Routes of an external listener, the address *)
(* that each node advertises, the names its certificate must carry, the    *)
(* part of the list that enters the configuration hash, the configuration  *)
(* file of a node and the NetworkPolicy of the cluster.                    *)
(*                                                                         *)
(* A host is a record: the name of a pod, the address of a node or of a    *)
(* load balancer, or a DNS name that the user wrote.                       *)
(***************************************************************************)
EXTENDS Integers, Sequences, FiniteSets, TLC, KafkaRuntime

Elems(s) == {s[i] : i \in DOMAIN s}

BROKER_PORT == 9092
CONTROLLER_PORT == 9093
OPERATOR_LISTENER_PORT == 9091
INGRESS_PORT == 443
METRICS_PORT == 9404

ListenerType == {"internal", "nodeport", "loadbalancer", "ingress", "route"}
External(l) == l.type # "internal"
Terminated(l) == l.type \in {"ingress", "route"}

Host(kind, of, id) == [kind |-> kind, of |-> of, id |-> id]
Dns(h) == Host("dns", h, 0)
PodHost(id) == Host("pod", "", id)
HeadlessHost == Host("headless", "", 0)

NoAuth == [kind |-> "none"]
\* `id` stands for the values of the fields (URIs, claims, trusted certificates).
Oauth(mode, has, enable, id) ==
  [kind |-> "oauth", mode |-> mode, has |-> has, enable |-> enable, id |-> id]
Gssapi(keytab, rules, id) == [kind |-> "gssapi", keytab |-> keytab, rules |-> rules, id |-> id]

synthesized_default_listener ==
  [name |-> "PLAIN", port |-> BROKER_PORT, type |-> "internal", tls |-> FALSE,
   auth |-> NoAuth, host |-> None, over |-> <<>>, peers |-> None]

-----------------------------------------------------------------------------
(* Validation *)

validate_unique_listeners(ls) ==
  \A i, j \in DOMAIN ls : i # j => ls[i].name # ls[j].name /\ ls[i].port # ls[j].port

JwtOnly == {"tokenType", "jwksPause", "jwksExpiry", "jwksKeyUse"}
IntrospectionOnly == {"introspection", "userInfo", "clientId", "clientSecret", "httpTimeout"}
Unusable == {"emptyIssuer", "badScheme", "refreshBelow30"}

\* The fields of one token mode and none of the other, with usable values.
validate_oauth(l) ==
  /\ l.tls
  /\ IF l.auth.mode = "jwt"
     THEN "jwks" \in l.auth.has /\ l.auth.has \cap IntrospectionOnly = {}
     ELSE /\ {"introspection", "clientId", "clientSecret"} \subseteq l.auth.has
          /\ l.auth.has \cap (JwtOnly \cup {"jwks"}) = {}
  /\ l.auth.has \cap Unusable = {}

validate_gssapi_listener(l) == l.auth.keytab /\ l.auth.rules

\* Only whether a listener offers the mechanism may differ between the listeners.
oauth_canonical(auth) == [auth EXCEPT !.enable = TRUE]

Configs(ls, kind) == {l.auth : l \in {m \in Elems(ls) : m.auth.kind = kind}}

OneConfig(ls) ==
  /\ Cardinality({oauth_canonical(c) : c \in Configs(ls, "oauth")}) <= 1
  /\ Cardinality(Configs(ls, "gssapi")) <= 1

validate_inter_broker(ls, ib) ==
  ls # <<>> =>
    /\ \E l \in Elems(ls) : ~External(l)
    /\ ib # None => \E l \in Elems(ls) : l.name = ib[1] /\ ~External(l)

validate_listeners(ls, ib) ==
  /\ validate_unique_listeners(ls)
  /\ \A l \in Elems(ls) :
       /\ l.auth.kind = "tls" => l.tls
       /\ l.auth.kind = "oauth" => validate_oauth(l)
       /\ l.auth.kind = "gssapi" => validate_gssapi_listener(l)
       /\ Terminated(l) => l.tls /\ l.host # None
       /\ \A i, j \in DOMAIN l.over : i # j => l.over[i].broker # l.over[j].broker
  /\ OneConfig(ls)
  /\ validate_inter_broker(ls, ib)

\* Names that the operator does not issue must not reach the authorizer.
validate_operator_principal_isolation(ls, authorized) ==
  authorized => \A l \in Elems(ls) : l.auth.kind \notin {"oauth", "gssapi"}

validate_inter_broker_gssapi(ls, ib, kerberos) ==
  (\E l \in Elems(ls) : l.name = ib /\ l.auth.kind = "gssapi") => kerberos

effective_inter_broker_listener_name(ls, ib) ==
  IF ib # None THEN ib[1]
  ELSE IF \A l \in Elems(ls) : External(l) THEN "PLAIN"
  ELSE ls[CHOOSE i \in DOMAIN ls : ~External(ls[i]) /\ \A j \in 1 .. (i - 1) : External(ls[j])].name

-----------------------------------------------------------------------------
(* The operator's own listener *)

OPERATOR_NAMES == <<"OPERATOR", "OPERATOR_", "OPERATOR__">>

\* The first free name and the first free port from 9091 that is no reserved one.
operator_listener(ls) ==
  LET names == {l.name : l \in Elems(ls)}
      taken == {l.port : l \in Elems(ls)} \cup {CONTROLLER_PORT, BROKER_PORT}
      i == CHOOSE n \in DOMAIN OPERATOR_NAMES :
             /\ OPERATOR_NAMES[n] \notin names
             /\ \A m \in 1 .. (n - 1) : OPERATOR_NAMES[m] \in names
      free == (OPERATOR_LISTENER_PORT .. OPERATOR_LISTENER_PORT + Len(ls) + 2) \ taken
  IN  [name |-> OPERATOR_NAMES[i], port |-> CHOOSE p \in free : \A q \in free : p <= q,
       type |-> "internal", tls |-> TRUE, auth |-> [kind |-> "tls"], host |-> None,
       over |-> <<>>, peers |-> None]

effective_listeners(ls) ==
  LET user == IF ls = <<>> THEN <<synthesized_default_listener>> ELSE ls
  IN  Append(user, operator_listener(user))

-----------------------------------------------------------------------------
(* The objects of external listeners.  An object is named by its listener  *)
(* and its broker; BOOT stands for the bootstrap object.                   *)

BOOT == -1
Key(l, id) == [listener |-> l.name, id |-> id]

\* Overrides: advertisedHost, advertisedPort, nodePort and host of one broker.
override(l, id, field) ==
  LET own == SelectSeq(l.over, LAMBDA o : o.broker = id)
  IN  IF own = <<>> THEN None ELSE own[1][field]

ExternalKeys(ls, brokers) ==
  {Key(l, id) : l \in {m \in Elems(ls) : External(m)}, id \in brokers \cup {BOOT}}

ByName(ls, name) == CHOOSE l \in Elems(ls) : l.name = name

render_service(l, id) ==
  [type |-> l.type, port |-> l.port, nodePort |-> override(l, id, "nodePort")]

ingress_broker_host(l, id) == OrElse(override(l, id, "advHost"), override(l, id, "host"))
ingress_bootstrap_host(l) == l.host

ObjectHost(l, id) == IF id = BOOT THEN ingress_bootstrap_host(l) ELSE ingress_broker_host(l, id)

\* One Ingress or Route for each host that is configured, to the Service of that name.
render_routes(ls, brokers) ==
  LET hosted == {k \in ExternalKeys(ls, brokers) :
                   LET l == ByName(ls, k.listener) IN Terminated(l) /\ ObjectHost(l, k.id) # None}
  IN  [k \in hosted |-> LET l == ByName(ls, k.listener)
                        IN  [host |-> ObjectHost(l, k.id)[1], port |-> l.port]]

-----------------------------------------------------------------------------
(* Addresses.  `w` is what the API server shows: the Services (`svc`), the *)
(* node of each scheduled pod (`at`) and the addresses of nodes (`node`).  *)

Addr(h, p) == Some([host |-> h, port |-> p])

NodeHost(w, n) ==
  IF w.node[n].ext THEN Some(Host("ext", n, 0))
  ELSE IF w.node[n].int THEN Some(Host("int", n, 0)) ELSE None

DnsOpt(h) == IF h = None THEN None ELSE Some(Dns(h[1]))

advertised_host(l, id, w) ==
  LET k == Key(l, id)
  IN  CASE l.type = "internal" -> Some(PodHost(id))
        [] Terminated(l) -> DnsOpt(ingress_broker_host(l, id))
        [] OTHER ->
             OrElse(DnsOpt(override(l, id, "advHost")),
                    IF l.type = "nodeport"
                    THEN IF w.at[id] = None THEN None ELSE NodeHost(w, w.at[id][1])
                    ELSE IF k \in DOMAIN w.svc THEN w.svc[k].ingress ELSE None)

advertised_port(l, id, w) ==
  LET k == Key(l, id)
  IN  CASE l.type = "internal" -> Some(l.port)
        [] Terminated(l) -> OrElse(override(l, id, "advPort"), Some(INGRESS_PORT))
        [] l.type = "nodeport" ->
             OrElse(OrElse(override(l, id, "advPort"), override(l, id, "nodePort")),
                    IF k \in DOMAIN w.svc THEN w.svc[k].nodePort ELSE None)
        [] OTHER -> OrElse(override(l, id, "advPort"), Some(l.port))

\* None stands for every AdvertisedError.
compute_advertised(l, id, w) ==
  LET h == advertised_host(l, id, w)
      p == advertised_port(l, id, w)
  IN  IF h = None \/ p = None THEN None ELSE Addr(h[1], p[1])

\* A controller-only node binds the inter-broker and the operator's listener only.
NodeListeners(ls, ib, op, broker) ==
  SelectSeq(ls, LAMBDA l : broker \/ l.name \in {ib, op})

\* None as soon as one address of one node is not known.
resolve_addresses_per_broker(ls, ib, op, nodes, brokers, w) ==
  LET of(id) == Elems(NodeListeners(ls, ib, op, id \in brokers))
  IN  IF \E id \in nodes : \E l \in of(id) : compute_advertised(l, id, w) = None
      THEN None
      ELSE Some([id \in nodes |->
                   [n \in {l.name : l \in of(id)} |->
                      compute_advertised(ByName(ls, n), id, w)[1]]])

resolve_bootstrap_servers(l, w) ==
  LET k == Key(l, BOOT)
      hosts == {n \in DOMAIN w.node : NodeHost(w, n) # None}
  IN  CASE l.type = "internal" -> Addr(HeadlessHost, l.port)
        [] Terminated(l) -> Addr(Dns(ingress_bootstrap_host(l)[1]), INGRESS_PORT)
        [] l.type = "nodeport" ->
             IF k \in DOMAIN w.svc /\ w.svc[k].nodePort # None /\ hosts # {}
             THEN Addr(NodeHost(w, CHOOSE n \in hosts : TRUE)[1], w.svc[k].nodePort[1]) ELSE None
        [] OTHER ->
             IF k \in DOMAIN w.svc /\ w.svc[k].ingress # None
             THEN Addr(w.svc[k].ingress[1], l.port) ELSE None

\* A listener without a bootstrap address is left out.
build_listener_status(ls, addresses, brokers, w) ==
  [n \in {l.name : l \in {m \in Elems(ls) : resolve_bootstrap_servers(m, w) # None}} |->
     [bootstrap |-> resolve_bootstrap_servers(ByName(ls, n), w)[1],
      addresses |-> {addresses[id][n] : id \in brokers}]]

-----------------------------------------------------------------------------
(* Certificate names *)

observe_listener_addresses(ls, brokers, w) ==
  LET lbs == {l \in Elems(ls) : l.type = "loadbalancer" /\ l.tls}
      of(id) == UNION {Elems(w.svc[k].ingress) : k \in {Key(l, id) : l \in lbs} \cap DOMAIN w.svc}
  IN  [nodes |-> IF \E l \in Elems(ls) : l.type = "nodeport" /\ l.tls
                 THEN {Host("ext", n, 0) : n \in {m \in DOMAIN w.node : w.node[m].ext}}
                      \cup {Host("name", n, 0) : n \in DOMAIN w.node}
                 ELSE {},
       lb |-> [id \in brokers |-> of(id)],
       boot |-> of(BOOT)]

\* None: a load balancer of this broker has no address yet.
compute_extra_sans(id, ls, seen) ==
  LET tls == {l \in Elems(ls) : l.tls}
      names(l) ==
        CASE l.type = "internal" -> {}
          [] Terminated(l) -> {Dns(h) : h \in Elems(ingress_broker_host(l, id))
                                               \cup Elems(ingress_bootstrap_host(l))}
          [] l.type = "nodeport" ->
               seen.nodes \cup {Dns(h) : h \in Elems(override(l, id, "advHost"))}
          [] OTHER -> seen.lb[id] \cup seen.boot
  IN  IF seen.lb[id] = {} /\ \E l \in tls : l.type = "loadbalancer"
      THEN None ELSE Some(UNION {names(l) : l \in tls})

-----------------------------------------------------------------------------
(* Configuration files *)

\* What of the listeners enters the configuration hash: neither authentication nor
\* hosts nor the peers of the NetworkPolicy.
canonical_listener_intent(ls, ib) ==
  IF ls = <<>> THEN None
  ELSE Some([ib |-> ib,
             listeners |-> [i \in DOMAIN ls |->
               [name |-> ls[i].name, port |-> ls[i].port, type |-> ls[i].type, tls |-> ls[i].tls,
                over |-> {[broker |-> o.broker, advHost |-> o.advHost, advPort |-> o.advPort,
                           nodePort |-> o.nodePort] : o \in Elems(ls[i].over)}]]])

listener_protocol(l) ==
  [tls |-> l.tls, sasl |-> l.auth.kind \in {"scram512", "scram256", "oauth", "gssapi"}]

sasl_mechanism(auth) ==
  IF auth.kind \in {"none", "tls"} \/ (auth.kind = "oauth" /\ ~auth.enable)
  THEN None ELSE Some(auth.kind)

\* Only the operator's listener trusts the cluster CA.
render_listener_section(l, addr, op) ==
  [name |-> l.name, bind |-> l.port, advertised |-> addr, protocol |-> listener_protocol(l),
   mechanism |-> sasl_mechanism(l.auth),
   clientCa |-> IF l.auth.kind # "tls" THEN None
                ELSE Some(IF l.name = op THEN "Cluster" ELSE "Clients")]

OPERATOR_IDENTITY == "operator"
ANONYMOUS == "anonymous"

\* None: no authorizer.  Otherwise its super-users.
AuthorizationRender(authorization, tokens, ls, ib) ==
  LET anonymous == tokens /\ \E l \in Elems(ls) : l.name = ib /\ l.auth.kind = "none"
  IN  IF authorization # None
      THEN Some(authorization[1] \cup {OPERATOR_IDENTITY}
                                 \cup (IF anonymous THEN {ANONYMOUS} ELSE {}))
      ELSE IF tokens THEN Some({ANONYMOUS, OPERATOR_IDENTITY}) ELSE None

FirstOf(ls, kind) ==
  LET own == SelectSeq(ls, LAMBDA l : l.auth.kind = kind)
  IN  IF own = <<>> THEN None ELSE Some(Head(own).auth)

TRUST_FILE == "oauth-jwks-trust"
SECRET_FILE == "oauth-introspection"
KEYTAB_FILE == "gssapi-keytab"

\* The table of the first OAuth listener, with the files that it names.
render_oauthbearer(ls) ==
  LET oauth == FirstOf(ls, "oauth")
  IN  IF oauth = None THEN None
      ELSE Some([id |-> oauth[1].id, mode |-> oauth[1].mode,
                 files |-> (IF oauth[1].mode = "jwt" THEN {} ELSE {SECRET_FILE})
                           \cup (IF "trust" \in oauth[1].has THEN {TRUST_FILE} ELSE {})])

render_gssapi(ls) ==
  LET gssapi == FirstOf(ls, "gssapi")
  IN  IF gssapi = None THEN None ELSE Some([id |-> gssapi[1].id, files |-> {KEYTAB_FILE}])

\* The brokers dial each other with Kerberos when their listener asks for it.
inter_broker_credentials(ls, ib, kerberos) ==
  kerberos /\ \E l \in Elems(ls) : l.name = ib /\ l.auth.kind = "gssapi"

render_broker_header(ib, voters) == [interBroker |-> ib, voters |-> voters]

\* `s` is the Kafka spec, `addresses` maps the listeners of this node to addresses.
render_broker_toml_with_operator(s, ls, addresses, ib, op, voters) ==
  [header |-> render_broker_header(ib, voters),
   sections |-> {render_listener_section(l, addresses[l.name], op) : l \in Elems(ls)},
   properties |-> s.config,
   remote |-> render_remote_storage(s.tiered),
   authorization |-> AuthorizationRender(s.authorization, s.tokens, ls, ib),
   oauthbearer |-> render_oauthbearer(ls),
   gssapi |-> render_gssapi(ls),
   credentials |-> inter_broker_credentials(ls, ib, s.kerberos)]

\* The files that a configuration names, and those that the pod template mounts.
FilesNamed(toml) ==
  (IF toml.oauthbearer = None THEN {} ELSE toml.oauthbearer[1].files)
  \cup (IF toml.gssapi = None THEN {} ELSE toml.gssapi[1].files)
  \cup (IF toml.remote = None \/ toml.remote[1].backend = None THEN {}
        ELSE Elems(toml.remote[1].backend[1].key))

oauth_jwks_trust_mount(ls) ==
  LET oauth == FirstOf(ls, "oauth")
  IN  IF oauth # None /\ "trust" \in oauth[1].has THEN {TRUST_FILE} ELSE {}

oauth_introspection_secret_mount(ls) ==
  LET oauth == FirstOf(ls, "oauth")
  IN  IF oauth # None /\ oauth[1].mode # "jwt" /\ "clientSecret" \in oauth[1].has
      THEN {SECRET_FILE} ELSE {}

gssapi_keytab_mount(ls) == IF FirstOf(ls, "gssapi") = None THEN {} ELSE {KEYTAB_FILE}

\* One file per node, with the table of the tuning at its end.  Voters are the
\* controllers, at the host of their inter-broker address and the controller port.
render_configmap(s, ls, ib, op, nodes, brokers, controllers, addresses) ==
  [id \in nodes |->
     render_broker_toml_with_operator(
       s, NodeListeners(ls, ib, op, id \in brokers), addresses[id], ib, op,
       {[id |-> c, host |-> addresses[c][ib].host, port |-> CONTROLLER_PORT] : c \in controllers})
     @@ [runtime |-> render_runtime_toml(s.tuning)]]

-----------------------------------------------------------------------------
(* network_policy.rs *)

\* Mutant: the operator is admitted where the user lists peers only.
render_network_policy_PeersOnly(ls, op, ibPort, metrics) ==
  {[from |-> Some("pods"), port |-> ibPort]}
  \cup {[from |-> None, port |-> l.port] : l \in {m \in Elems(ls) : m.name # op /\ m.peers = None}}

\* `from` None admits everybody.
render_network_policy(ls, op, ibPort, metrics) ==
  {[from |-> Some("pods"), port |-> ibPort]}
  \cup {[from |-> Some("operator"), port |-> l.port] : l \in Elems(ls)}
  \cup {[from |-> IF l.peers = None THEN None ELSE Some(l.peers[1]), port |-> l.port] :
           l \in {m \in Elems(ls) : m.name # op /\ m.peers # Some("nobody")}}
  \cup (IF metrics THEN {[from |-> None, port |-> METRICS_PORT]} ELSE {})

Admits(rules, who, port) ==
  \E r \in rules : r.port = port /\ (r.from = None \/ r.from = Some(who))
=============================================================================
