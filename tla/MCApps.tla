------------------------------- MODULE MCApps -------------------------------
(* Scenarios for Apps: a resource of each kind, its edits, its Kafka, what happens. *)
EXTENDS Apps

With(e) == [x \in Event |-> IF x \in e THEN 1 ELSE 0]
No == [n \in {} |-> {}]

K(verdict, ready, endpoints, replicas) ==
  [exists |-> TRUE, verdict |-> verdict, finalized |-> FALSE, ready |-> ready,
   internal |-> endpoints, mtls |-> endpoints, replicas |-> replicas]
Good == K(Some(TRUE), TRUE, Some("a"), Some(1))
NoKafka == [K(None, FALSE, None, None) EXCEPT !.exists = FALSE]
Growing == <<NoKafka, K(None, FALSE, None, None), Good>>

S(k, edits, parents, provided, writes, old, e) ==
  [kind |-> k, edits |-> edits, parents |-> parents, secrets |-> provided, writes |-> writes,
   legacy |-> old, max |-> With(e)]

Registry == [gen |-> 1, label |-> Some("k"), fields |-> TRUE, opts |-> 1, replicas |-> 1,
             boot |-> None, tls |-> None, extras |-> {}, heartbeat |-> None, session |-> None,
             rebalance |-> None]
Issuer == Some([secret |-> FALSE, issuer |-> TRUE])
Provided == Some([secret |-> TRUE, issuer |-> FALSE])
Both == Some([secret |-> TRUE, issuer |-> TRUE])

Gateway == [gen |-> 1, label |-> Some("k"), fields |-> TRUE, opts |-> 1, replicas |-> None,
            webhooks |-> <<>>, outbound |-> <<>>, allowed |-> {}]
Hook(standard, header, ref) == [standard |-> standard, header |-> header, ref |-> ref]
Out(target, base, max, ref) == [target |-> target, base |-> base, max |-> max, ref |-> ref]
Cas == [n \in {"cluster-ca", "clients-ca"} |-> {"ca.crt"}]

Connector == [gen |-> 1, label |-> Some("k"), fields |-> TRUE, opts |-> 1, tables |-> {"t"},
              paused |-> FALSE]
Worker(dbKeys) == [n \in {"cluster-ca", "db"} |-> IF n = "db" THEN dbKeys ELSE {"ca.crt"}]
Db == [n \in {"db"} |-> {"url"}]

Lives == {
  \* the registry: a Kafka that comes up, a certificate to wait for, more replicas
  S("registry", <<[Registry EXCEPT !.tls = Issuer, !.extras = {"client_ca", "basic"}],
                  [Registry EXCEPT !.gen = 2, !.replicas = 2, !.opts = 2]>>, Growing,
    [n \in {"extra"} |-> {"ca.crt", "users"}], No, "owned", {"abort"}),
  \* timeouts that do not nest, with a default or without
  S("registry", <<[Registry EXCEPT !.session = Some(2)],
                  [Registry EXCEPT !.gen = 2, !.session = Some(2), !.heartbeat = Some(1)],
                  [Registry EXCEPT !.gen = 3, !.session = Some(31)]>>, <<Good>>, No, No, "user", {}),
  \* another bootstrap, another cluster, none; both certificates, then the user's
  S("registry", <<[Registry EXCEPT !.boot = Some("x"), !.label = None, !.tls = Both],
                  [Registry EXCEPT !.gen = 2, !.label = None],
                  [Registry EXCEPT !.gen = 2, !.label = Some("l")],
                  [Registry EXCEPT !.gen = 3, !.tls = Provided]>>, <<Good, K(Some(TRUE), FALSE, None, None)>>,
    No, [n \in {"tls"} |-> {"tls.crt", "tls.key"}], "none", {"secret"}),
  \* the gateway: versions to wait for, keys that change, a certificate that ages
  S("gateway", <<[Gateway EXCEPT !.webhooks = <<Hook(TRUE, FALSE, Some("h")), Hook(FALSE, FALSE, None)>>],
                 [Gateway EXCEPT !.gen = 2, !.opts = 2, !.webhooks = <<Hook(FALSE, TRUE, Some("h"))>>]>>,
    <<NoKafka, K(None, FALSE, None, None), K(Some(FALSE), FALSE, None, None), Good>>, Cas,
    [n \in {"hmac"} |-> {"k"}], "none", {"secret", "age"}),
  \* webhooks and backoffs that do not fit; a listener that is missing
  S("gateway", <<[Gateway EXCEPT !.webhooks = <<Hook(FALSE, TRUE, None)>>],
                 [Gateway EXCEPT !.gen = 2, !.outbound = <<Out("h", Some(61), None, None)>>],
                 [Gateway EXCEPT !.gen = 3, !.outbound = <<Out("h", None, Some(60), None)>>, !.allowed = {"g"}],
                 [Gateway EXCEPT !.gen = 3, !.label = None]>>,
    <<K(Some(TRUE), TRUE, None, None), Good>>, Cas, No, "none", {"abort"}),
  S("gateway", <<Gateway, [Gateway EXCEPT !.gen = 2, !.opts = 2]>>,
    <<Good, K(Some(TRUE), TRUE, Some("b"), None), [K(Some(FALSE), TRUE, Some("b"), None) EXCEPT !.finalized = TRUE]>>,
    [n \in {"clients-ca"} |-> {"ca.crt"}], [n \in {"cluster-ca"} |-> {"ca.crt"}], "none", {"secret", "cert"}),
  \* the connector: paused and resumed; its database, its certificate, the CA change
  S("connector", <<Connector, [Connector EXCEPT !.gen = 2, !.paused = TRUE],
                   [Connector EXCEPT !.gen = 3, !.opts = 2]>>, <<Good>>, Worker({"url"}), Db, "none",
    {"secret", "abort"}),
  S("connector", <<Connector>>, <<NoKafka, K(Some(TRUE), FALSE, Some("a"), Some(1)),
                                  K(Some(TRUE), TRUE, Some("a"), Some(5))>>,
    Worker({"url"}), Db, "none", {"secret", "cert", "ca"}),
  \* nothing is there yet, and a Secret without the certificate is
  S("connector", <<[Connector EXCEPT !.tables = {}], [Connector EXCEPT !.gen = 2, !.label = None],
                   [Connector EXCEPT !.gen = 2]>>, <<Good>>,
    [n \in {"user", "db"} |-> {"password"}], [n \in {"db", "cluster-ca"} |-> {"url", "ca.crt"}], "none", {"secret"}),
  S("connector", <<Connector>>, <<Good>>,
    [n \in {"user", "cluster-ca"} |-> IF n = "user" THEN {"password"} ELSE {"ca.crt"}], Db, "none", {"secret"}),
  \* a Deployment of the user has the connector's name
  S("connector", <<[Connector EXCEPT !.paused = TRUE], Connector>>, <<Good>>, Worker({"url"}), No, "user", {})
}

=============================================================================
